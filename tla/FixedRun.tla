------------------------------ MODULE FixedRun ------------------------------
(***************************************************************************)
(* A fixed-count run of plain virtual users.                              *)
(*                                                                         *)
(*   FixedExecutor::execute   (lmn-core/src/execution/fixed/mod.rs)       *)
(*   Vu::spawn, claim_budget  (lmn-core/src/vu/mod.rs)                    *)
(*   RpsLimiter               (lmn-core/src/execution/rate_limit.rs)      *)
(*   the Ctrl-C task          (lmn-core/src/command/run.rs)               *)
(*                                                                         *)
(* Concurrent parties: the coordinator (`co`), which spawns the VUs,      *)
(* drops its sender, joins the VUs one after the other and then joins the *)
(* drain task; the VUs (`vu`), which share an atomic request budget and   *)
(* an unbounded channel; the drain task (`drain`), which owns the         *)
(* receiver and the counters; the token bucket; and the user's Ctrl-C.    *)
(* A step is what a task does between two points where another task can   *)
(* interfere: an atomic read-modify-write, an await, a channel send.      *)
(***************************************************************************)
EXTENDS Naturals, Sequences, FiniteSets, Metrics

CONSTANTS
    Concurrency,     \* number of VU tasks
    Total,           \* request budget (request_count)
    Rps,             \* --rps; 0 stands for "not given"
    U32Max,          \* largest rps the limiter can hold (u32::MAX, scaled)
    TemplateMayFail, \* whether rendering a request body can fail
    DrainMayPanic    \* whether the drain task can die of a panic

ASSUME CountsAssumption == Concurrency \in Nat /\ Total \in Nat
ASSUME RateAssumption == Rps \in Nat /\ U32Max \in Nat
ASSUME FaultAssumption == TemplateMayFail \in BOOLEAN /\ DrainMayPanic \in BOOLEAN

VUs == 1..Concurrency

VARIABLES
    budget,     \* units left in the shared counter
    cancelled,  \* the cancellation token
    vu,         \* VU -> where its task stands
    chan,       \* the unbounded result channel, oldest record first
    txHeld,     \* the coordinator still holds its sender
    tokens,     \* permits in the token bucket
    drain,      \* the drain task
    acc,        \* the drain task's counters
    co,         \* where the coordinator stands
    cursor,     \* next VU to spawn, then next handle to await
    result,     \* what execute() returned
    lost,       \* history: claimed units that will never be recorded
    dispatched, \* history: requests started
    refills     \* history: permits the bucket has regained

vars == <<budget, cancelled, vu, chan, txHeld, tokens, drain, acc, co, cursor,
          result, lost, dispatched, refills>>

VUStates == {"unborn", "claim", "permit", "render", "inflight", "exited"}

In(states) == {v \in VUs : vu[v] \in states}

\* A VU in one of these states has taken a unit and not yet accounted for it.
Holding == In({"permit", "render", "inflight"})

Pending == [kind |-> "pending", stats |-> EmptyStats]

\* RpsLimiter::new: zero, and values beyond u32, mean no limiter at all.
Limited == Rps \in 1..U32Max

Exited(v) == vu[v] = "exited"

\* Mutant of Closed: the drain stops with the coordinator's sender, without
\* regard to the VUs' clones.
ClosedByCoordinator == ~txHeld

\* The channel is closed when no sender is left: neither the coordinator's
\* nor that of a VU.
Closed == ~txHeld /\ \A v \in VUs : Exited(v)

Init ==
    /\ budget = Total
    /\ cancelled = FALSE
    /\ vu = [v \in VUs |-> "unborn"]
    /\ chan = <<>>
    /\ txHeld = TRUE
    /\ tokens = IF Limited THEN Rps ELSE 0
    /\ drain = "recv"
    /\ acc = EmptyStats
    /\ co = "spawning"
    /\ cursor = 1
    /\ result = Pending
    /\ lost = 0
    /\ dispatched = 0
    /\ refills = 0

-----------------------------------------------------------------------------
(* The virtual user *)

\* Mutants: fetch_sub in place of fetch_update, and an off-by-one.
ClaimsAlways == TRUE
LastUnitRefused == budget > 1

\* claim_budget: one fetch_update, which commits only while units are left.
UnitsLeft == budget > 0

Claim(v) ==
    /\ vu[v] = "claim"
    /\ UnitsLeft
    /\ budget' = budget - 1
    /\ vu' = [vu EXCEPT ![v] = IF Limited THEN "permit" ELSE "render"]
    /\ UNCHANGED <<cancelled, chan, txHeld, tokens, drain, acc, co, cursor,
                   result, lost, dispatched, refills>>

BudgetExhausted(v) ==
    /\ vu[v] = "claim"
    /\ ~UnitsLeft
    /\ vu' = [vu EXCEPT ![v] = "exited"]
    /\ UNCHANGED <<budget, cancelled, chan, txHeld, tokens, drain, acc, co,
                   cursor, result, lost, dispatched, refills>>

\* Mutant of AcquirePermit: waits for a permit and does not take it.
PeekPermit(v) ==
    /\ vu[v] = "permit"
    /\ tokens > 0
    /\ vu' = [vu EXCEPT ![v] = "render"]
    /\ UNCHANGED <<budget, cancelled, chan, txHeld, tokens, drain, acc, co,
                   cursor, result, lost, dispatched, refills>>

\* select! around the limiter: a permit and the cancellation race.
AcquirePermit(v) ==
    /\ vu[v] = "permit"
    /\ tokens > 0
    /\ tokens' = tokens - 1
    /\ vu' = [vu EXCEPT ![v] = "render"]
    /\ UNCHANGED <<budget, cancelled, chan, txHeld, drain, acc, co, cursor,
                   result, lost, dispatched, refills>>

\* The body is rendered and the request starts.
Dispatch(v) ==
    /\ vu[v] = "render"
    /\ vu' = [vu EXCEPT ![v] = "inflight"]
    /\ dispatched' = dispatched + 1
    /\ UNCHANGED <<budget, cancelled, chan, txHeld, tokens, drain, acc, co,
                   cursor, result, lost, refills>>

\* Rendering failed: the loop continues with the next unit and this one is
\* never accounted for.
RenderFails(v) ==
    /\ TemplateMayFail
    /\ vu[v] = "render"
    /\ vu' = [vu EXCEPT ![v] = "claim"]
    /\ lost' = lost + 1
    /\ UNCHANGED <<budget, cancelled, chan, txHeld, tokens, drain, acc, co,
                   cursor, result, dispatched, refills>>

\* Mutant of Complete: a failed request is sent again under the same unit,
\* each attempt leaving its own record.
CompleteWithRetry(v, outcome) ==
    /\ vu[v] = "inflight"
    /\ vu' = [vu EXCEPT ![v] = IF outcome = "failed" THEN "render" ELSE "claim"]
    /\ chan' = Append(chan, outcome)
    /\ UNCHANGED <<budget, cancelled, txHeld, tokens, drain, acc, co, cursor,
                   result, lost, dispatched, refills>>

\* The request completed (or failed to connect) and its record is sent.  A
\* send to a receiver that is gone ends the VU.
Complete(v, outcome) ==
    /\ vu[v] = "inflight"
    /\ IF drain = "panicked"
         THEN /\ vu' = [vu EXCEPT ![v] = "exited"]
              /\ lost' = lost + 1
              /\ chan' = chan
         ELSE /\ vu' = [vu EXCEPT ![v] = "claim"]
              /\ chan' = Append(chan, outcome)
              /\ lost' = lost
    /\ UNCHANGED <<budget, cancelled, txHeld, tokens, drain, acc, co, cursor,
                   result, dispatched, refills>>

\* Either select! may take its cancellation branch instead: the task ends and
\* drops the unit it holds, with the request it was waiting for.
Abandon(v) ==
    /\ cancelled
    /\ vu' = [vu EXCEPT ![v] = "exited"]
    /\ lost' = lost + 1
    /\ UNCHANGED <<budget, cancelled, chan, txHeld, tokens, drain, acc, co,
                   cursor, result, dispatched, refills>>

CancelAtPermit(v) == vu[v] = "permit" /\ Abandon(v)

\* Mutant of CancelInFlight: the request is awaited outside of select!.
NeverInFlight(v) == FALSE

CancelInFlight(v) == vu[v] = "inflight" /\ Abandon(v)

-----------------------------------------------------------------------------
(* The drain task *)

Receive ==
    /\ drain = "recv"
    /\ chan # <<>>
    /\ acc' = RecordRequest(acc, Head(chan))
    /\ chan' = Tail(chan)
    /\ UNCHANGED <<budget, cancelled, vu, txHeld, tokens, drain, co, cursor,
                   result, lost, dispatched, refills>>

\* recv() returns None: queue empty and no sender left.
DrainEnds ==
    /\ drain = "recv"
    /\ chan = <<>>
    /\ Closed
    /\ drain' = "done"
    /\ UNCHANGED <<budget, cancelled, vu, chan, txHeld, tokens, acc, co, cursor,
                   result, lost, dispatched, refills>>

\* A panic while handling a record drops the receiver and what it queued.
DrainPanics ==
    /\ DrainMayPanic
    /\ drain = "recv"
    /\ chan # <<>>
    /\ drain' = "panicked"
    /\ lost' = lost + Len(chan)
    /\ chan' = <<>>
    /\ UNCHANGED <<budget, cancelled, vu, txHeld, tokens, acc, co, cursor,
                   result, dispatched, refills>>

-----------------------------------------------------------------------------
(* The coordinator *)

SpawnVU ==
    /\ co = "spawning"
    /\ cursor <= Concurrency
    /\ vu' = [vu EXCEPT ![cursor] = "claim"]
    /\ cursor' = cursor + 1
    /\ UNCHANGED <<budget, cancelled, chan, txHeld, tokens, drain, acc, co,
                   result, lost, dispatched, refills>>

DropSender ==
    /\ co = "spawning"
    /\ cursor > Concurrency
    /\ txHeld' = FALSE
    /\ co' = "joining"
    /\ cursor' = 1
    /\ UNCHANGED <<budget, cancelled, vu, chan, tokens, drain, acc, result,
                   lost, dispatched, refills>>

JoinVU ==
    /\ co = "joining"
    /\ cursor <= Concurrency
    /\ Exited(cursor)
    /\ cursor' = cursor + 1
    /\ UNCHANGED <<budget, cancelled, vu, chan, txHeld, tokens, drain, acc, co,
                   result, lost, dispatched, refills>>

\* drain_handle.await?: the counters, or RunError::DrainTaskFailed.
JoinDrain ==
    /\ co = "joining"
    /\ cursor > Concurrency
    /\ drain \in {"done", "panicked"}
    /\ result' = IF drain = "done" THEN [kind |-> "stats", stats |-> acc]
                                   ELSE [kind |-> "error", stats |-> EmptyStats]
    /\ co' = "returned"
    /\ UNCHANGED <<budget, cancelled, vu, chan, txHeld, tokens, drain, acc,
                   cursor, lost, dispatched, refills>>

-----------------------------------------------------------------------------
(* The environment *)

\* Ctrl-C is awaited once; later signals find no listener.
CtrlC ==
    /\ ~cancelled
    /\ co # "returned"
    /\ cancelled' = TRUE
    /\ UNCHANGED <<budget, vu, chan, txHeld, tokens, drain, acc, co, cursor,
                   result, lost, dispatched, refills>>

\* The bucket regains a permit, up to its burst size.
Refill ==
    /\ Limited
    /\ co # "returned"
    /\ tokens < Rps
    /\ tokens' = tokens + 1
    /\ refills' = refills + 1
    /\ UNCHANGED <<budget, cancelled, vu, chan, txHeld, drain, acc, co, cursor,
                   result, lost, dispatched>>

-----------------------------------------------------------------------------
Answer(v) == \E outcome \in {"ok", "failed"} : Complete(v, outcome)

\* What VU v does without waiting for the server under test.
VUStep(v) ==
    \/ Claim(v) \/ BudgetExhausted(v) \/ AcquirePermit(v)
    \/ Dispatch(v) \/ RenderFails(v) \/ CancelAtPermit(v) \/ CancelInFlight(v)

DrainStep == Receive \/ DrainEnds \/ DrainPanics
CoordinatorStep == SpawnVU \/ DropSender \/ JoinVU \/ JoinDrain

\* The run is over; the process goes on to print its report.
Finished == co = "returned" /\ UNCHANGED vars

Next ==
    \/ \E v \in VUs : VUStep(v) \/ Answer(v)
    \/ DrainStep
    \/ CoordinatorStep
    \/ CtrlC
    \/ Refill
    \/ Finished

Spec == Init /\ [][Next]_vars

\* tokio runs every task that can run, and the bucket refills with time.
RuntimeFairness ==
    /\ \A v \in VUs : WF_vars(VUStep(v))
    /\ WF_vars(DrainStep)
    /\ WF_vars(CoordinatorStep)
    /\ WF_vars(Refill)

\* Nothing is assumed of the server: it may never answer.
FairSpec == Spec /\ RuntimeFairness

-----------------------------------------------------------------------------
(* Properties *)

TypeOK ==
    /\ budget \in 0..Total
    /\ cancelled \in BOOLEAN
    /\ vu \in [VUs -> VUStates]
    /\ chan \in Seq({"ok", "failed"})
    /\ txHeld \in BOOLEAN
    /\ tokens \in 0..Rps
    /\ drain \in {"recv", "done", "panicked"}
    /\ acc \in Stats
    /\ co \in {"spawning", "joining", "returned"}
    /\ cursor \in 1..(Concurrency + 1)
    /\ result \in [kind : {"pending", "stats", "error"}, stats : Stats]
    /\ lost \in Nat
    /\ dispatched \in Nat
    /\ refills \in Nat

\* Every unit taken from the budget is held by one VU, queued, counted, or
\* lost for a known reason (cancellation, a body that did not render, the
\* death of the drain): no unit is claimed twice, none is recorded twice.
\* About: claim_budget, the VU loop and the drain loop together.
Ledger == Total - budget = Cardinality(Holding) + Len(chan) + acc.total + lost

\* However many VUs race for the last unit, no more requests are started
\* than the user asked for.  About: fetch_update in claim_budget.
NeverOverBudget == dispatched <= Total

\* A run nobody interrupts accounts for the whole budget: its report counts
\* exactly the requested number of requests, less the bodies that failed to
\* render.  About: the exit condition of the VU loop against the drain.
ExactUnlessCancelled ==
    (result.kind = "stats" /\ ~cancelled /\ Concurrency > 0)
        => /\ result.stats.total = Total - lost
           /\ ~TemplateMayFail => lost = 0

\* All VUs draw on one bucket: the requests started never exceed the burst
\* plus what the bucket regained.  About: the Arc<RpsLimiter> shared by the VUs.
RateCap == Limited => dispatched <= Rps + refills

\* Once the drain has closed its books no record is sent any more: the report
\* cannot miss a request that a VU still completes.  About: the drop(tx) and
\* join order of FixedExecutor::execute.
NothingAfterDrain == [][drain = "done" => UNCHANGED <<chan, dispatched>>]_vars

\* The run keeps the promise of RequestPool: a queued record counts as held.
\* About: the whole of FixedExecutor::execute.
Pool == INSTANCE RequestPool WITH
    Staffed     <- Concurrency > 0,
    MayFail     <- DrainMayPanic,
    free        <- budget,
    held        <- Cardinality(Holding) + Len(chan),
    counted     <- acc.total,
    dropped     <- lost,
    interrupted <- cancelled,
    report      <- [kind |-> result.kind, total |-> result.stats.total]

PoolSpec == Pool!Spec

-----------------------------------------------------------------------------
(* The inductive invariant: what the proofs of FixedRunProofs need besides   *)
(* the properties above.                                                     *)

\* VUs are created in order, while the coordinator still holds its sender,
\* and joined in order.
CoordinatorOrder ==
    /\ co = "spawning" => txHeld /\ \A v \in VUs : v >= cursor => vu[v] = "unborn"
    /\ co = "joining" => \A v \in VUs : v < cursor => Exited(v)
    /\ co = "returned" => drain # "recv" /\ \A v \in VUs : Exited(v)

\* The drain has ended only after every sender is gone, with nothing queued;
\* a drain that died queues nothing.
DrainClosed ==
    /\ drain = "done" => Closed /\ chan = <<>>
    /\ drain = "panicked" => DrainMayPanic /\ chan = <<>>

\* A VU ends, and a unit is lost, for a reason.
ExitCause ==
    (\E v \in VUs : Exited(v)) => budget = 0 \/ cancelled \/ drain = "panicked"
LossCause ==
    lost > 0 => TemplateMayFail \/ cancelled \/ drain = "panicked"

\* The result is that of the drain, and only there once the run is over.
ResultOfDrain ==
    result = IF co # "returned" THEN Pending
             ELSE IF drain = "done" THEN [kind |-> "stats", stats |-> acc]
             ELSE [kind |-> "error", stats |-> EmptyStats]

\* A request is started with a unit, and under a limit with a permit, that
\* was taken for it.
StartedWithinBudget == dispatched + Cardinality(In({"permit", "render"})) + budget <= Total
StartedWithPermit ==
    Limited => dispatched + Cardinality(In({"render"})) + tokens <= Rps + refills

IInv ==
    /\ TypeOK
    /\ CoordinatorOrder /\ DrainClosed /\ ExitCause /\ LossCause /\ ResultOfDrain
    /\ Ledger /\ StartedWithinBudget /\ StartedWithPermit

-----------------------------------------------------------------------------
(* Liveness *)

\* No request stays unanswered for ever.
ServerAnswers == \A v \in VUs : []<>(vu[v] # "inflight")

\* Every run ends if the server answers; after Ctrl-C it ends even against a
\* server that never answers again, since no task waits where it cannot see
\* the token.  About: the spawn, drop, join sequence, the drain's end of
\* input, and both select! of Vu::spawn (the HTTP client has no timeout, so
\* nothing else would end the wait).
Ends ==
    /\ ServerAnswers => <>(co = "returned")
    /\ cancelled ~> (co = "returned")
=============================================================================
