------------------------- MODULE ScenarioRunProofs -------------------------
(***************************************************************************)
(* Proofs about scenario VUs: what an iteration may send and what it      *)
(* leaves behind, for every set of scenarios, number of VUs and budget.   *)
(*                                                                         *)
(* Most properties speak of one VU at a time, and so does their inductive *)
(* invariant: Local(v) is disturbed by v's own steps only, and Ctrl-C     *)
(* and spawning can only make it weaker.  The report's invariant relates  *)
(* the counters of all VUs: what is counted or on its way for a step is   *)
(* the sum, over the VUs, of the iterations that have done that step.     *)
(***************************************************************************)
EXTENDS ScenarioRun, SumProofs, SequenceTheorems, FiniteSetTheorems, TLAPS

-----------------------------------------------------------------------------
(* Scenarios and their assignment *)

\* The weighted round-robin always gives an existing scenario, whatever the
\* weights, saturated sums included.
LEMMA AssignInRange ==
    ASSUME NEW ws \in Seq(Nat), ws # <<>>, NEW index \in Nat
    PROVE  AssignScenario(index, ws) \in DOMAIN ws
<1> DEFINE total == Cumulative(ws, Len(ws))
           fits  == {i \in DOMAIN ws : InSlot(index % total, ws, i)}
<1>1. Len(ws) \in Nat /\ Len(ws) > 0 /\ DOMAIN ws = 1..Len(ws)
    BY EmptySeq, LenProperties
<1>2. (index % Len(ws)) + 1 \in DOMAIN ws
    BY <1>1
<1>3. ASSUME fits # {} PROVE Min(fits) \in DOMAIN ws
    <2>1. fits \in SUBSET Nat
        BY <1>1
    <2>2. Min(fits) \in fits
        BY <1>3, <2>1, MinExists
    <2> QED BY <2>2
<1>4. Len(ws) \in DOMAIN ws
    BY <1>1
<1> HIDE DEF total, fits
<1>5. AssignScenario(index, ws) =
        CASE total = 0 -> (index % Len(ws)) + 1
          [] total # 0 /\ fits # {} -> Min(fits)
          [] OTHER -> Len(ws)
    BY DEF AssignScenario, total, fits
<1> QED BY <1>2, <1>3, <1>4, <1>5

\* Every VU has a scenario with steps.
LEMMA OfScenario ==
    ASSUME NEW v \in VUs
    PROVE  /\ ScenarioOf(v) \in DOMAIN Scenarios
           /\ Policy(v) \in BOOLEAN
           /\ LastStep(v) \in Nat \ {0}
           /\ \A n \in 1..LastStep(v) : Steps(ScenarioOf(v))[n] \in StepDefs
<1>1. Scenarios \in Seq(ScenarioDefs) /\ Scenarios # <<>> /\ Concurrency \in Nat
    BY ScenarioAssumption
<1>2. DOMAIN Scenarios = 1..Len(Scenarios) /\ Len(Scenarios) \in Nat /\ Len(Scenarios) > 0
    BY <1>1, LenProperties, EmptySeq
<1>3. \A s \in DOMAIN Scenarios : Scenarios[s] \in ScenarioDefs
    BY <1>1, <1>2
<1>4. Weights \in Seq(Nat) /\ Weights # <<>> /\ DOMAIN Weights = DOMAIN Scenarios
    <2>1. Weights \in [1..Len(Scenarios) -> Nat]
        BY <1>2, <1>3 DEF Weights, ScenarioDefs
    <2>2. Weights \in Seq(Nat)
        BY <2>1, <1>2, SeqDef
    <2>3. DOMAIN Weights = DOMAIN Scenarios
        BY DEF Weights
    <2>4. Weights # <<>>
        BY <2>3, <1>2, EmptySeq
    <2> QED BY <2>2, <2>3, <2>4
<1>5. v - 1 \in Nat
    BY <1>1 DEF VUs
<1>6. ScenarioOf(v) \in DOMAIN Scenarios
    BY <1>4, <1>5, AssignInRange DEF ScenarioOf
<1>7. Scenarios[ScenarioOf(v)] \in ScenarioDefs
    BY <1>3, <1>6
<1>8. Steps(ScenarioOf(v)) \in Seq(StepDefs) /\ Steps(ScenarioOf(v)) # <<>>
    BY <1>7 DEF ScenarioDefs, Steps
<1>9. LastStep(v) \in Nat \ {0} /\ \A n \in 1..LastStep(v) : Steps(ScenarioOf(v))[n] \in StepDefs
    BY <1>8, LenProperties, EmptySeq DEF LastStep
<1> QED BY <1>6, <1>7, <1>9 DEF Policy, ScenarioDefs

-----------------------------------------------------------------------------
(* The inductive invariant *)

Typed ==
    /\ cancelled \in BOOLEAN
    /\ vu \in [VUs -> VUStates]
    /\ at \in [VUs -> Nat]
    /\ iter \in [VUs -> Nat]
    /\ caps \in [VUs -> [Keys -> Nat]]
    /\ abort \in [VUs -> BOOLEAN]
    /\ trail \in [VUs -> Seq(Outcomes)]
    /\ late \in [VUs -> Nat]

Busy == {"step", "build", "permit", "inflight"}

\* A VU inside an iteration is at one of its steps.
Placed(v) ==
    /\ vu[v] \in Busy => at[v] \in 1..LastStep(v)
    /\ vu[v] = "unborn" => iter[v] = 0 /\ late[v] = 0

\* Values are captured in this iteration or not at all, and all that a request
\* needs are there before it is sent.
Fresh(v) ==
    /\ \A k \in Keys : caps[v][k] \in {0, iter[v]}
    /\ vu[v] \in {"permit", "inflight"} => \A k \in Step(v).refs : caps[v][k] # 0

\* abort_remaining is raised by a failed step only; and as long as it is not, a
\* step about to run has no skip before it, nor under abort_iteration a failure.
Going(v) ==
    /\ abort[v] => Policy(v) /\ \E i \in DOMAIN trail[v] : trail[v][i] = "failed"
    /\ vu[v] \in {"build", "permit", "inflight"} \/ (vu[v] = "step" /\ ~abort[v]) =>
        \A i \in DOMAIN trail[v] :
            trail[v][i] # "skipped" /\ ~(Policy(v) /\ trail[v][i] = "failed")

\* IterationShape, of one VU.
Shape(v) ==
    /\ vu[v] \in Busy => Len(trail[v]) = at[v] - 1
    /\ (vu[v] \in {"check", "claim"} /\ iter[v] > 0) => Len(trail[v]) = LastStep(v)
    /\ Len(trail[v]) <= LastStep(v)
    /\ \A i, j \in DOMAIN trail[v] : i < j =>
        /\ trail[v][i] = "skipped" => trail[v][j] = "skipped"
        /\ (Policy(v) /\ trail[v][i] = "failed") => trail[v][j] = "skipped"

\* The reasons there are for skipping step n of the iteration.
CauseAt(v, n) ==
    \/ \E k \in Steps(ScenarioOf(v))[n].refs : caps[v][k] = 0
    \/ TemplateMayFail /\ Steps(ScenarioOf(v))[n].template
    \/ Policy(v) /\ \E i \in 1..(n - 1) : trail[v][i] = "failed"

Caused(v) ==
    \A n \in DOMAIN trail[v] :
        (trail[v][n] = "skipped" /\ \A i \in 1..(n - 1) : trail[v][i] # "skipped")
            => CauseAt(v, n)

\* A request started after Ctrl-C is the last: the VU is sending it, or on its
\* way to one of the two points where it looks at the token.
AtMostOneLate(v) ==
    /\ late[v] \in {0, 1}
    /\ late[v] = 1 => cancelled /\ vu[v] \in {"inflight", "check", "step", "exited"}

Local(v) ==
    Placed(v) /\ Fresh(v) /\ Going(v) /\ Shape(v) /\ Caused(v) /\ AtMostOneLate(v)

IInv == Typed /\ \A v \in VUs : Local(v)

\* The invariant holds initially.
LEMMA IInvInit ==
    ASSUME Init PROVE IInv
<1>1. <<>> \in Seq(Outcomes) /\ Len(<<>>) = 0 /\ DOMAIN <<>> = {}
    BY EmptySeq
<1>2. Typed
    BY <1>1 DEF Init, Typed, VUStates, NoCaptures
<1>3. ASSUME NEW v \in VUs PROVE Local(v)
  <2>1. /\ vu[v] = "unborn" /\ iter[v] = 0 /\ late[v] = 0 /\ abort[v] = FALSE
        /\ trail[v] = <<>> /\ caps[v] = NoCaptures
    BY DEF Init
  <2>2. LastStep(v) \in Nat
    BY OfScenario
  <2> QED
    BY <2>1, <2>2, <1>1
    DEF Local, Placed, Fresh, Going, Shape, Caused, AtMostOneLate, Busy, NoCaptures
<1> QED BY <1>2, <1>3 DEF IInv

\* What a VU's own variables do not show cannot hurt it, Ctrl-C included.
LEMMA LocalFrame ==
    ASSUME NEW v \in VUs, Local(v),
           vu'[v] = vu[v], at'[v] = at[v], iter'[v] = iter[v], caps'[v] = caps[v],
           abort'[v] = abort[v], trail'[v] = trail[v], late'[v] = late[v],
           cancelled => cancelled'
    PROVE  Local(v)'
<1>1. Placed(v)' /\ Fresh(v)'
    BY DEF Local, Placed, Fresh, Busy, Step, LastStep, Steps, ScenarioOf
<1>2. Going(v)' /\ Shape(v)'
    BY DEF Local, Going, Shape, Busy, LastStep, Steps, ScenarioOf, Policy
<1>3. Caused(v)'
    BY DEF Local, Caused, CauseAt, Steps, ScenarioOf, Policy
<1>4. AtMostOneLate(v)'
    BY DEF Local, AtMostOneLate
<1> QED BY <1>1, <1>2, <1>3, <1>4 DEF Local

\* A trail to which m equal outcomes are appended.
LEMMA Appended ==
    ASSUME NEW t \in Seq(Outcomes), NEW m \in Nat, NEW o \in Outcomes
    PROVE  LET u == t \o [i \in 1..m |-> o] IN
           /\ u \in Seq(Outcomes) /\ Len(u) = Len(t) + m
           /\ DOMAIN u = 1..(Len(t) + m)
           /\ \A i \in 1..Len(t) : u[i] = t[i]
           /\ \A i \in (Len(t) + 1)..(Len(t) + m) : u[i] = o
<1> DEFINE more == [i \in 1..m |-> o]
<1>1. more \in Seq(Outcomes)
    BY SeqDef
<1>2. Len(more) = m
    BY <1>1, LenProperties
<1> HIDE DEF more
<1>3. /\ t \o more \in Seq(Outcomes) /\ Len(t \o more) = Len(t) + m
      /\ \A i \in 1..(Len(t) + m) :
            (t \o more)[i] = IF i <= Len(t) THEN t[i] ELSE more[i - Len(t)]
    BY <1>1, <1>2, ConcatProperties
<1>4. DOMAIN (t \o more) = 1..(Len(t) + m)
    BY <1>3, LenProperties
<1>5. Len(t) \in Nat
    BY LenProperties
<1>6. \A i \in 1..Len(t) : (t \o more)[i] = t[i]
    BY <1>3, <1>5
<1>7. ASSUME NEW i \in (Len(t) + 1)..(Len(t) + m) PROVE (t \o more)[i] = o
  <2>1. i \in 1..(Len(t) + m) /\ ~(i <= Len(t)) /\ i - Len(t) \in 1..m
    BY <1>5
  <2> QED BY <1>3, <2>1 DEF more
<1>8. more = [i \in 1..m |-> o]
    BY DEF more
<1> QED BY <1>3, <1>4, <1>6, <1>7, <1>8

-----------------------------------------------------------------------------
(* The steps of a VU *)

\* A step of one VU is nobody else's business.
LEMMA OthersUntouched ==
    ASSUME IInv, NEW v \in VUs, Typed', Local(v)', cancelled' = cancelled,
           \A w \in VUs \ {v} :
              /\ vu'[w] = vu[w] /\ at'[w] = at[w] /\ iter'[w] = iter[w]
              /\ caps'[w] = caps[w] /\ abort'[w] = abort[w]
              /\ trail'[w] = trail[w] /\ late'[w] = late[w]
    PROVE  IInv'
<1>1. ASSUME NEW w \in VUs \ {v} PROVE Local(w)'
  <2>1. Local(w)
    BY DEF IInv
  <2> QED BY <2>1, LocalFrame
<1>2. \A w \in VUs : Local(w)'
    BY <1>1
<1> QED BY <1>2 DEF IInv

\* Emitting up to step n fills the trail up to there.
LEMMA Emitted ==
    ASSUME Typed, NEW v \in VUs, NEW n \in Nat, NEW o \in Outcomes,
           at[v] \in 1..n, Len(trail[v]) = at[v] - 1, Emit(v, n, o)
    PROVE  /\ trail' \in [VUs -> Seq(Outcomes)]
           /\ \A w \in VUs \ {v} : trail'[w] = trail[w]
           /\ Len(trail'[v]) = n /\ DOMAIN trail'[v] = 1..n
           /\ DOMAIN trail[v] = 1..(at[v] - 1)
           /\ \A i \in 1..(at[v] - 1) : trail'[v][i] = trail[v][i]
           /\ \A i \in at[v]..n : trail'[v][i] = o
<1> DEFINE m == n - at[v] + 1
           u == trail[v] \o [i \in 1..m |-> o]
<1>1. m \in Nat /\ at[v] \in Nat /\ trail[v] \in Seq(Outcomes)
    BY DEF Typed
<1>2. /\ u \in Seq(Outcomes) /\ Len(u) = Len(trail[v]) + m
      /\ DOMAIN u = 1..(Len(trail[v]) + m)
      /\ \A i \in 1..Len(trail[v]) : u[i] = trail[v][i]
      /\ \A i \in (Len(trail[v]) + 1)..(Len(trail[v]) + m) : u[i] = o
    BY <1>1, Appended
<1>3. Len(trail[v]) + m = n /\ Len(trail[v]) + 1 = at[v]
  <2>1. \A a \in Nat : (a - 1) + (n - a + 1) = n /\ (a - 1) + 1 = a
    OBVIOUS
  <2> HIDE DEF u
  <2> QED BY <1>1, <2>1
<1>4. trail' = [trail EXCEPT ![v] = u]
    BY DEF Emit
<1>5. trail'[v] = u /\ \A w \in VUs \ {v} : trail'[w] = trail[w]
    BY <1>4 DEF Typed
<1>6. trail' \in [VUs -> Seq(Outcomes)]
  <2> HIDE DEF u
  <2> QED BY <1>2, <1>4 DEF Typed
<1>7. DOMAIN trail[v] = 1..(at[v] - 1)
    BY <1>1, LenProperties
<1> HIDE DEF u, m
<1>8. DOMAIN u = 1..n /\ Len(u) = n
    BY <1>2, <1>3
<1>9. \A i \in 1..(at[v] - 1) : u[i] = trail[v][i]
    BY <1>2
<1>10. \A i \in at[v]..n : u[i] = o
    BY <1>2, <1>3
<1> QED BY <1>5, <1>6, <1>7, <1>8, <1>9, <1>10

\* Steps that only move the VU.
LEMMA Moves ==
    ASSUME IInv, NEW v \in VUs,
           CheckToken(v) \/ BudgetExhausted(v) \/ StepCancelled(v)
           \/ StepBegins(v) \/ CancelWait(v)
    PROVE  IInv'
<1>1. /\ at' = at /\ iter' = iter /\ caps' = caps /\ abort' = abort
      /\ trail' = trail /\ late' = late /\ cancelled' = cancelled
    BY DEF CheckToken, BudgetExhausted, StepCancelled, StepBegins, CancelWait, taskVars
<1>2. PICK s \in {"exited", "claim", "build"} :
        /\ vu' = [vu EXCEPT ![v] = s]
        /\ s = "claim" => vu[v] = "check" /\ ~cancelled
        /\ s = "build" => vu[v] = "step" /\ ~cancelled /\ ~abort[v]
    BY DEF CheckToken, BudgetExhausted, StepCancelled, StepBegins, CancelWait, Goto, TokenSeen
<1>3. vu' \in [VUs -> VUStates] /\ vu'[v] = s /\ \A w \in VUs \ {v} : vu'[w] = vu[w]
    BY <1>2 DEF IInv, Typed, VUStates
<1>4. Typed'
    BY <1>1, <1>3 DEF IInv, Typed
<1>5. Local(v)
    BY DEF IInv
<1>6. Placed(v)' /\ Fresh(v)'
    BY <1>1, <1>2, <1>3, <1>5
    DEF Local, Placed, Fresh, Busy, Step, LastStep, Steps, ScenarioOf
<1>7. Going(v)' /\ Shape(v)'
    BY <1>1, <1>2, <1>3, <1>5
    DEF Local, Going, Shape, Busy, LastStep, Steps, ScenarioOf, Policy
<1>8. Caused(v)'
    BY <1>1, <1>5 DEF Local, Caused, CauseAt, Steps, ScenarioOf, Policy
<1>9. AtMostOneLate(v)'
    BY <1>1, <1>2, <1>3, <1>5 DEF Local, AtMostOneLate
<1> QED BY <1>1, <1>3, <1>4, <1>6, <1>7, <1>8, <1>9, OthersUntouched DEF Local

\* A new iteration starts from nothing.
LEMMA Claims ==
    ASSUME IInv, NEW v \in VUs, ClaimIteration(v)
    PROVE  IInv'
<1>1. <<>> \in Seq(Outcomes) /\ Len(<<>>) = 0 /\ DOMAIN <<>> = {}
    BY EmptySeq
<1>2. Typed /\ Local(v)
    BY DEF IInv
<1>3. /\ vu' = [vu EXCEPT ![v] = "step"] /\ at' = [at EXCEPT ![v] = 1]
      /\ iter' = [iter EXCEPT ![v] = @ + 1] /\ caps' = [caps EXCEPT ![v] = NoCaptures]
      /\ abort' = [abort EXCEPT ![v] = FALSE] /\ trail' = [trail EXCEPT ![v] = <<>>]
      /\ late' = late /\ cancelled' = cancelled /\ vu[v] = "claim"
    BY DEF ClaimIteration, Cleared, Goto
<1>4. Typed'
    BY <1>1, <1>2, <1>3 DEF Typed, VUStates, NoCaptures
<1>5. /\ vu'[v] = "step" /\ at'[v] = 1 /\ iter'[v] = iter[v] + 1 /\ caps'[v] = NoCaptures
      /\ abort'[v] = FALSE /\ trail'[v] = <<>> /\ late'[v] = late[v]
    BY <1>2, <1>3 DEF Typed
<1>6. Placed(v)'
    BY <1>5, OfScenario DEF Placed, Busy, LastStep, Steps, ScenarioOf
<1>7. Fresh(v)'
    BY <1>5 DEF Fresh, NoCaptures
<1>8. Going(v)' /\ Caused(v)'
    BY <1>1, <1>5 DEF Going, Caused
<1>9. Shape(v)'
    BY <1>1, <1>5, OfScenario DEF Shape, Busy, LastStep, Steps, ScenarioOf
<1>10. AtMostOneLate(v)'
    BY <1>2, <1>3, <1>5 DEF Local, AtMostOneLate
<1>11. Local(v)'
    BY <1>6, <1>7, <1>8, <1>9, <1>10 DEF Local
<1>12. \A w \in VUs \ {v} :
          /\ vu'[w] = vu[w] /\ at'[w] = at[w] /\ iter'[w] = iter[w]
          /\ caps'[w] = caps[w] /\ abort'[w] = abort[w]
          /\ trail'[w] = trail[w] /\ late'[w] = late[w]
    BY <1>2, <1>3 DEF Typed
<1> QED BY <1>3, <1>4, <1>11, <1>12, OthersUntouched

\* Records up to step n move the VU behind it.
LEMMA Advanced ==
    ASSUME IInv, NEW v \in VUs, vu[v] \in Busy,
           NEW n \in at[v]..LastStep(v), NEW o \in Outcomes,
           Emit(v, n, o), Advance(v, n + 1),
           iter' = iter, late' = late, cancelled' = cancelled
    PROVE  /\ vu' \in [VUs -> VUStates] /\ at' \in [VUs -> Nat]
           /\ trail' \in [VUs -> Seq(Outcomes)]
           /\ vu'[v] = IF n = LastStep(v) THEN "check" ELSE "step"
           /\ \A w \in VUs \ {v} :
                vu'[w] = vu[w] /\ at'[w] = at[w] /\ trail'[w] = trail[w]
           /\ Len(trail'[v]) = n /\ DOMAIN trail'[v] = 1..n
           /\ DOMAIN trail[v] = 1..(at[v] - 1)
           /\ \A i \in 1..(at[v] - 1) : trail'[v][i] = trail[v][i]
           /\ \A i \in at[v]..n : trail'[v][i] = o
           /\ Placed(v)'
           /\ AtMostOneLate(v)'
           /\ vu'[v] \in Busy => Len(trail'[v]) = at'[v] - 1
           /\ vu'[v] = "check" => Len(trail'[v]) = LastStep(v)
<1>1. Typed /\ Local(v)
    BY DEF IInv
<1>2. /\ at[v] \in 1..LastStep(v) /\ Len(trail[v]) = at[v] - 1
      /\ LastStep(v) \in Nat \ {0}
    BY <1>1, OfScenario DEF Local, Placed, Shape
<1>3. n \in Nat /\ at[v] \in 1..n
    BY <1>2
<1>4. /\ trail' \in [VUs -> Seq(Outcomes)]
      /\ \A w \in VUs \ {v} : trail'[w] = trail[w]
      /\ Len(trail'[v]) = n /\ DOMAIN trail'[v] = 1..n
      /\ DOMAIN trail[v] = 1..(at[v] - 1)
      /\ \A i \in 1..(at[v] - 1) : trail'[v][i] = trail[v][i]
      /\ \A i \in at[v]..n : trail'[v][i] = o
    BY <1>1, <1>2, <1>3, Emitted
<1>5. n + 1 > LastStep(v) <=> n = LastStep(v)
    BY <1>2, <1>3
<1>6. /\ at' = [at EXCEPT ![v] = n + 1]
      /\ vu' = [vu EXCEPT ![v] = IF n = LastStep(v) THEN "check" ELSE "step"]
    BY <1>5 DEF Advance, Goto
<1>7. /\ vu' \in [VUs -> VUStates] /\ at' \in [VUs -> Nat]
      /\ vu'[v] = IF n = LastStep(v) THEN "check" ELSE "step"
      /\ at'[v] = n + 1
      /\ \A w \in VUs \ {v} : vu'[w] = vu[w] /\ at'[w] = at[w]
    BY <1>1, <1>3, <1>6 DEF Typed, VUStates
<1>8. LastStep(v)' = LastStep(v)
    BY DEF LastStep, Steps, ScenarioOf
<1>9. Placed(v)'
    BY <1>2, <1>3, <1>7, <1>8 DEF Placed, Busy
<1>10. AtMostOneLate(v)'
    BY <1>1, <1>7 DEF Local, AtMostOneLate, Busy
<1>11. vu'[v] \in Busy => Len(trail'[v]) = at'[v] - 1
    BY <1>3, <1>4, <1>7
<1> QED BY <1>4, <1>7, <1>9, <1>10, <1>11 DEF Busy

\* The two ways of marking steps as skipped, each with its reason.
LEMMA Skips ==
    ASSUME IInv, NEW v \in VUs, StepSkipped(v) \/ PrepareFails(v)
    PROVE  IInv'
<1>1. Typed /\ Local(v)
    BY DEF IInv
<1>2. /\ iter' = iter /\ caps' = caps /\ abort' = abort /\ late' = late
      /\ cancelled' = cancelled
    BY DEF StepSkipped, PrepareFails
<1>3. vu[v] \in {"step", "build"} /\ vu[v] \in Busy
    BY DEF StepSkipped, PrepareFails, Busy
<1>4. at[v] \in 1..LastStep(v) /\ LastStep(v) \in Nat \ {0} /\ Len(trail[v]) = at[v] - 1
    BY <1>1, <1>3, OfScenario DEF Local, Placed, Shape
<1>5. PICK n \in at[v]..LastStep(v) :
        /\ Emit(v, n, "skipped") /\ Advance(v, n + 1)
        /\ n = LastStep(v) \/ abort[v]
    BY <1>4 DEF StepSkipped, PrepareFails, SkipUpTo
<1>6. "skipped" \in Outcomes
    BY DEF Outcomes
<1>7. /\ vu' \in [VUs -> VUStates] /\ at' \in [VUs -> Nat]
      /\ trail' \in [VUs -> Seq(Outcomes)]
      /\ vu'[v] = IF n = LastStep(v) THEN "check" ELSE "step"
      /\ \A w \in VUs \ {v} :
            vu'[w] = vu[w] /\ at'[w] = at[w] /\ trail'[w] = trail[w]
      /\ Len(trail'[v]) = n /\ DOMAIN trail'[v] = 1..n
      /\ DOMAIN trail[v] = 1..(at[v] - 1)
      /\ \A i \in 1..(at[v] - 1) : trail'[v][i] = trail[v][i]
      /\ \A i \in at[v]..n : trail'[v][i] = "skipped"
      /\ Placed(v)'
      /\ AtMostOneLate(v)'
      /\ vu'[v] \in Busy => Len(trail'[v]) = at'[v] - 1
      /\ vu'[v] = "check" => Len(trail'[v]) = LastStep(v)
    BY <1>2, <1>3, <1>5, <1>6, Advanced
<1>8. Typed'
    BY <1>1, <1>2, <1>7 DEF Typed
<1>9. Policy(v)' = Policy(v) /\ LastStep(v)' = LastStep(v)
    BY DEF Policy, LastStep, Steps, ScenarioOf
<1>10. Fresh(v)'
    BY <1>1, <1>2, <1>7 DEF Local, Fresh
<1>11. Going(v)'
  <2>1. abort'[v] => Policy(v) /\ \E i \in DOMAIN trail'[v] : trail'[v][i] = "failed"
    <3>1. SUFFICES ASSUME abort[v]
                   PROVE  Policy(v) /\ \E i \in DOMAIN trail'[v] : trail'[v][i] = "failed"
        BY <1>2
    <3>2. PICK i \in DOMAIN trail[v] : trail[v][i] = "failed"
        BY <1>1, <3>1 DEF Local, Going
    <3>3. i \in 1..(at[v] - 1) /\ i \in 1..n
        BY <1>4, <1>7
    <3>4. trail'[v][i] = "failed"
        BY <1>7, <3>2, <3>3
    <3> QED BY <1>1, <1>7, <3>1, <3>3, <3>4 DEF Local, Going
  <2>2. vu'[v] \notin {"build", "permit", "inflight"}
    BY <1>7
  <2>3. vu'[v] = "step" => abort'[v]
    BY <1>2, <1>5, <1>7
  <2> QED BY <1>9, <2>1, <2>2, <2>3 DEF Going
<1>12. Shape(v)'
  <2>1. Len(trail'[v]) <= LastStep(v)
    BY <1>4, <1>7
  <2>2. ASSUME NEW i \in 1..n, NEW j \in 1..n, i < j
        PROVE  /\ trail'[v][i] = "skipped" => trail'[v][j] = "skipped"
               /\ (Policy(v) /\ trail'[v][i] = "failed") => trail'[v][j] = "skipped"
    <3>1. CASE j \in at[v]..n
        BY <1>7, <3>1
    <3>2. CASE j \notin at[v]..n
      <4>1. i \in DOMAIN trail[v] /\ j \in DOMAIN trail[v]
        BY <1>4, <1>7, <2>2, <3>2
      <4>2. /\ trail[v][i] = "skipped" => trail[v][j] = "skipped"
            /\ (Policy(v) /\ trail[v][i] = "failed") => trail[v][j] = "skipped"
        BY <1>1, <2>2, <4>1 DEF Local, Shape
      <4>3. trail'[v][i] = trail[v][i] /\ trail'[v][j] = trail[v][j]
        BY <1>7, <4>1
      <4> QED BY <4>2, <4>3
    <3> QED BY <3>1, <3>2
  <2> QED BY <1>7, <1>9, <2>1, <2>2 DEF Shape
<1>13. Caused(v)'
  <2> SUFFICES ASSUME NEW f \in 1..n, trail'[v][f] = "skipped",
                      \A i \in 1..(f - 1) : trail'[v][i] # "skipped"
               PROVE  CauseAt(v, f)'
    BY <1>7 DEF Caused
  <2>1. CASE f < at[v]
    <3>1. f \in DOMAIN trail[v] /\ f \in 1..(at[v] - 1)
        BY <1>4, <1>7, <2>1
    <3>2. \A i \in 1..(f - 1) : i \in 1..(at[v] - 1)
        BY <1>4, <2>1
    <3>3. trail[v][f] = "skipped" /\ \A i \in 1..(f - 1) : trail[v][i] # "skipped"
        BY <1>7, <3>1, <3>2
    <3>4. CauseAt(v, f)
        BY <1>1, <3>1, <3>3 DEF Local, Caused
    <3>5. \A i \in 1..(f - 1) : trail'[v][i] = trail[v][i]
        BY <1>7, <3>2
    <3> QED BY <1>2, <3>4, <3>5 DEF CauseAt, Steps, Policy, ScenarioOf
  <2>2. CASE f >= at[v]
    <3>1. f = at[v]
      <4>1. SUFFICES ASSUME f # at[v] PROVE FALSE
        OBVIOUS
      <4>2. at[v] \in 1..(f - 1) /\ at[v] \in at[v]..n
        BY <1>4, <2>2, <4>1
      <4> QED BY <1>7, <4>2
    <3>2. CASE StepSkipped(v)
      <4>1. abort[v]
        BY <3>2 DEF StepSkipped
      <4>2. Policy(v) /\ \E i \in 1..(f - 1) : trail[v][i] = "failed"
        BY <1>1, <1>7, <3>1, <4>1 DEF Local, Going
      <4>3. Policy(v) /\ \E i \in 1..(f - 1) : trail'[v][i] = "failed"
        BY <1>7, <3>1, <4>2
      <4> QED BY <1>9, <4>3 DEF CauseAt
    <3>3. CASE PrepareFails(v)
      <4>1. ~Injectable(v) \/ (TemplateMayFail /\ Step(v).template)
        BY <3>3 DEF PrepareFails
      <4>2. \/ \E k \in Steps(ScenarioOf(v))[f].refs : caps[v][k] = 0
            \/ TemplateMayFail /\ Steps(ScenarioOf(v))[f].template
        BY <3>1, <4>1 DEF Injectable, Step
      <4> QED BY <1>2, <4>2 DEF CauseAt, Steps, ScenarioOf
    <3> QED BY <3>2, <3>3
  <2> QED BY <1>4, <2>1, <2>2
<1>14. Local(v)'
    BY <1>7, <1>10, <1>11, <1>12, <1>13 DEF Local
<1> QED BY <1>2, <1>7, <1>8, <1>14, OthersUntouched

\* Getting a request ready needs every capture it refers to; sending it after
\* Ctrl-C makes it the late one.
LEMMA Sends ==
    ASSUME IInv, NEW v \in VUs, Prepare(v) \/ AcquirePermit(v)
    PROVE  IInv'
<1>1. Typed /\ Local(v)
    BY DEF IInv
<1>2. /\ at' = at /\ iter' = iter /\ caps' = caps /\ abort' = abort
      /\ trail' = trail /\ cancelled' = cancelled
    BY DEF Prepare, AcquirePermit
<1>3. vu[v] \in {"build", "permit"} /\ late[v] = 0
    BY <1>1 DEF Prepare, AcquirePermit, Local, AtMostOneLate
<1>4. PICK s \in {"permit", "inflight"}, b \in {0, 1} :
        /\ vu' = [vu EXCEPT ![v] = s]
        /\ late' = IF b = 1 THEN [late EXCEPT ![v] = @ + 1] ELSE late
        /\ b = 1 => cancelled /\ s = "inflight"
  <2>1. CASE Prepare(v)
    <3>1. CASE Limited
        BY <2>1, <3>1 DEF Prepare, Goto
    <3>2. CASE ~Limited
        BY <2>1, <3>2 DEF Prepare, Goto
    <3> QED BY <3>1, <3>2
  <2>2. CASE AcquirePermit(v)
        BY <2>2 DEF AcquirePermit, Goto
  <2> QED BY <2>1, <2>2
<1>5. /\ vu' \in [VUs -> VUStates] /\ vu'[v] = s
      /\ \A w \in VUs \ {v} : vu'[w] = vu[w]
    BY <1>1, <1>4 DEF Typed, VUStates
<1>6. /\ late' \in [VUs -> Nat] /\ late'[v] = b
      /\ \A w \in VUs \ {v} : late'[w] = late[w]
    BY <1>1, <1>3, <1>4 DEF Typed
<1>7. Typed'
    BY <1>1, <1>2, <1>5, <1>6 DEF Typed
<1>8. Placed(v)'
    BY <1>1, <1>2, <1>3, <1>5 DEF Local, Placed, Busy, LastStep, Steps, ScenarioOf
<1>9. Fresh(v)'
  <2>1. \A k \in Step(v).refs : caps[v][k] # 0
    BY <1>1 DEF Prepare, AcquirePermit, Injectable, Local, Fresh
  <2> QED BY <1>1, <1>2, <2>1 DEF Local, Fresh, Step, Steps, ScenarioOf
<1>10. Going(v)' /\ Shape(v)'
    BY <1>1, <1>2, <1>3, <1>5
    DEF Local, Going, Shape, Busy, LastStep, Steps, ScenarioOf, Policy
<1>11. Caused(v)'
    BY <1>1, <1>2 DEF Local, Caused, CauseAt, Steps, ScenarioOf, Policy
<1>12. AtMostOneLate(v)'
    BY <1>2, <1>4, <1>5, <1>6 DEF AtMostOneLate
<1>13. Local(v)'
    BY <1>8, <1>9, <1>10, <1>11, <1>12 DEF Local
<1> QED BY <1>2, <1>5, <1>6, <1>7, <1>13, OthersUntouched

\* An answer: nothing was skipped before it, and if it is a failure that
\* matters to the policy, nothing will be sent after it.
LEMMA Completes ==
    ASSUME IInv, NEW v \in VUs, vu[v] = "inflight",
           NEW o \in {"ok", "failed"}, NEW found \in SUBSET Step(v).gives,
           Complete(v, o, found)
    PROVE  IInv'
<1>1. Typed /\ Local(v)
    BY DEF IInv
<1>2. iter' = iter /\ late' = late /\ cancelled' = cancelled
    BY DEF Complete
<1>3. at[v] \in 1..LastStep(v) /\ LastStep(v) \in Nat \ {0} /\ Len(trail[v]) = at[v] - 1
    BY <1>1, OfScenario DEF Local, Placed, Shape, Busy
<1>4. o \in Outcomes /\ vu[v] \in Busy /\ at[v] \in at[v]..LastStep(v)
    BY <1>3 DEF Outcomes, Busy
<1> DEFINE n == at[v]
<1>5. /\ vu' \in [VUs -> VUStates] /\ at' \in [VUs -> Nat]
      /\ trail' \in [VUs -> Seq(Outcomes)]
      /\ vu'[v] = IF n = LastStep(v) THEN "check" ELSE "step"
      /\ \A w \in VUs \ {v} :
            vu'[w] = vu[w] /\ at'[w] = at[w] /\ trail'[w] = trail[w]
      /\ Len(trail'[v]) = n /\ DOMAIN trail'[v] = 1..n
      /\ DOMAIN trail[v] = 1..(at[v] - 1)
      /\ \A i \in 1..(at[v] - 1) : trail'[v][i] = trail[v][i]
      /\ \A i \in at[v]..n : trail'[v][i] = o
      /\ Placed(v)'
      /\ AtMostOneLate(v)'
      /\ vu'[v] \in Busy => Len(trail'[v]) = at'[v] - 1
      /\ vu'[v] = "check" => Len(trail'[v]) = LastStep(v)
    BY <1>2, <1>4, Advanced DEF Complete
<1>6. trail'[v][n] = o /\ n \in 1..n
    BY <1>3, <1>5
<1>7. \A k \in Keys : (IF k \in found THEN iter[v] ELSE caps[v][k]) \in {0, iter[v]}
    BY <1>1 DEF Local, Fresh
<1>8. /\ caps' \in [VUs -> [Keys -> Nat]]
      /\ \A k \in Keys : caps'[v][k] \in {0, iter[v]}
      /\ \A w \in VUs \ {v} : caps'[w] = caps[w]
  <2>1. caps' = [caps EXCEPT ![v] = [k \in Keys |-> IF k \in found THEN iter[v] ELSE caps[v][k]]]
    BY DEF Complete
  <2>2. [k \in Keys |-> IF k \in found THEN iter[v] ELSE caps[v][k]] \in [Keys -> Nat]
    BY <1>1 DEF Typed
  <2> QED BY <1>1, <1>7, <2>1, <2>2 DEF Typed
<1>9. Policy(v) \in BOOLEAN /\ Policy(v)' = Policy(v) /\ LastStep(v)' = LastStep(v)
    BY OfScenario DEF Policy, LastStep, Steps, ScenarioOf
<1>10. abort' = [abort EXCEPT ![v] = abort[v] \/ (o = "failed" /\ Policy(v))]
    BY DEF Complete, AbortsOn
<1>11. abort' \in [VUs -> BOOLEAN] /\ \A w \in VUs \ {v} : abort'[w] = abort[w]
    BY <1>1, <1>10 DEF Typed
<1>12. abort'[v] <=> abort[v] \/ (o = "failed" /\ Policy(v))
    BY <1>1, <1>10 DEF Typed
<1>13. Typed'
    BY <1>1, <1>2, <1>5, <1>8, <1>11 DEF Typed
<1>14. Fresh(v)'
    BY <1>2, <1>5, <1>8 DEF Fresh
<1>15. \A i \in 1..(n - 1) :
         /\ trail'[v][i] # "skipped" /\ ~(Policy(v) /\ trail'[v][i] = "failed")
  <2>1. \A i \in DOMAIN trail[v] :
          trail[v][i] # "skipped" /\ ~(Policy(v) /\ trail[v][i] = "failed")
    BY <1>1 DEF Local, Going
  <2> QED BY <1>5, <2>1
<1>16. Going(v)'
  <2>1. abort'[v] => Policy(v) /\ \E i \in 1..n : trail'[v][i] = "failed"
    <3>1. ASSUME abort[v] PROVE FALSE
      <4>1. PICK i \in DOMAIN trail[v] : Policy(v) /\ trail[v][i] = "failed"
        BY <1>1, <3>1 DEF Local, Going
      <4> QED BY <1>1, <4>1 DEF Local, Going
    <3> QED BY <1>6, <1>12, <3>1
  <2>2. ~abort'[v] => \A i \in 1..n :
            trail'[v][i] # "skipped" /\ ~(Policy(v) /\ trail'[v][i] = "failed")
    <3>1. \A i \in 1..n : i = n \/ i \in 1..(n - 1)
        BY <1>3
    <3> QED BY <1>6, <1>12, <1>15, <3>1
  <2> QED BY <1>5, <1>9, <2>1, <2>2 DEF Going
<1>17. Shape(v)'
  <2>1. \A i \in 1..n, j \in 1..n : i < j => i \in 1..(n - 1)
    BY <1>3
  <2>2. n <= LastStep(v)
    BY <1>3
  <2> QED BY <1>5, <1>9, <1>15, <2>1, <2>2 DEF Shape
<1>18. Caused(v)'
  <2>1. \A i \in 1..n : trail'[v][i] # "skipped"
    <3>1. \A i \in 1..n : i = n \/ i \in 1..(n - 1)
        BY <1>3
    <3> QED BY <1>6, <1>15, <3>1
  <2> QED BY <1>5, <2>1 DEF Caused
<1>19. Local(v)'
    BY <1>5, <1>14, <1>16, <1>17, <1>18 DEF Local
<1> QED BY <1>2, <1>5, <1>8, <1>11, <1>13, <1>19, OthersUntouched

-----------------------------------------------------------------------------
(* The theorems *)

\* The coordinator starts the VUs in order, and each of them once.
NotYetSpawned ==
    co = "spawning" => cursor \in Nat /\ \A v \in VUs : v >= cursor => vu[v] = "unborn"

\* A VU's step leaves the unborn unborn.
LEMMA VUSpawned ==
    ASSUME NotYetSpawned, Typed, NEW v \in VUs,
           VUStep(v) \/ (vu[v] = "inflight" /\ Answer(v))
    PROVE  NotYetSpawned'
<1>1. co' = co /\ cursor' = cursor
    BY DEF VUStep, CheckToken, ClaimIteration, BudgetExhausted, StepCancelled, StepSkipped,
           StepBegins, Prepare, PrepareFails, AcquirePermit, CancelWait, Answer, Complete, runVars
<1>2. vu[v] # "unborn"
    BY DEF VUStep, CheckToken, ClaimIteration, BudgetExhausted, StepCancelled, StepSkipped,
           StepBegins, Prepare, PrepareFails, AcquirePermit, CancelWait
<1>3. \E s : vu' = [vu EXCEPT ![v] = s]
    BY DEF VUStep, CheckToken, ClaimIteration, BudgetExhausted, StepCancelled, StepSkipped,
           StepBegins, Prepare, PrepareFails, AcquirePermit, CancelWait, Answer, Complete,
           Advance, Goto
<1>4. \A w \in VUs : w # v => vu'[w] = vu[w]
    BY <1>3 DEF Typed
<1> QED BY <1>1, <1>2, <1>4 DEF NotYetSpawned

\* Spawning makes one VU visible and touches no other.
LEMMA Spawns ==
    ASSUME IInv, NotYetSpawned, SpawnVU
    PROVE  IInv' /\ NotYetSpawned'
<1>1. /\ at' = at /\ iter' = iter /\ caps' = caps /\ abort' = abort
      /\ trail' = trail /\ late' = late /\ cancelled' = cancelled
      /\ cursor' = cursor + 1 /\ co' = co /\ cursor \in Nat
      /\ vu' = [vu EXCEPT ![cursor] = "check"]
    BY DEF SpawnVU, taskVars, Goto, NotYetSpawned
<1>2. Typed'
    BY <1>1 DEF IInv, Typed, VUStates
<1>3. ASSUME NEW w \in VUs, w # cursor PROVE vu'[w] = vu[w]
    BY <1>1, <1>3 DEF IInv, Typed
<1>4. ASSUME NEW v \in VUs, v = cursor PROVE Local(v)'
  <2>1. vu[v] = "unborn" /\ vu'[v] = "check" /\ iter[v] = 0 /\ late[v] = 0
    BY <1>1, <1>4 DEF SpawnVU, NotYetSpawned, IInv, Typed, Local, Placed
  <2>2. Local(v)
    BY DEF IInv
  <2>3. Placed(v)' /\ Fresh(v)'
    BY <1>1, <2>1, <2>2 DEF Local, Placed, Fresh, Busy
  <2>4. Going(v)' /\ Shape(v)'
    BY <1>1, <2>1, <2>2 DEF Local, Going, Shape, Busy, LastStep, Steps, ScenarioOf, Policy
  <2>5. Caused(v)' /\ AtMostOneLate(v)'
    BY <1>1, <2>1, <2>2
    DEF Local, Caused, CauseAt, Steps, ScenarioOf, Policy, AtMostOneLate
  <2> QED BY <2>3, <2>4, <2>5 DEF Local
<1>5. ASSUME NEW v \in VUs, v # cursor PROVE Local(v)'
  <2>1. Local(v) /\ vu'[v] = vu[v]
    BY <1>3, <1>5 DEF IInv
  <2> QED BY <1>1, <2>1, LocalFrame
<1>6. IInv'
    BY <1>2, <1>4, <1>5 DEF IInv
<1>7. NotYetSpawned'
  <2>1. \A w \in VUs : w >= cursor + 1 => w >= cursor /\ w # cursor
    BY <1>1 DEF VUs
  <2> QED BY <1>1, <1>3, <2>1 DEF NotYetSpawned, SpawnVU
<1> QED BY <1>6, <1>7

\* Everything else leaves the VUs alone.
LEMMA Elsewhere ==
    ASSUME IInv, NotYetSpawned,
           UNCHANGED <<vu, taskVars>>, cancelled' \in BOOLEAN, cancelled => cancelled',
           co' = "spawning" => co = "spawning" /\ cursor' = cursor
    PROVE  IInv' /\ NotYetSpawned'
<1>1. Typed'
    BY DEF IInv, Typed, taskVars
<1>2. ASSUME NEW v \in VUs PROVE Local(v)'
  <2>1. Local(v)
    BY DEF IInv
  <2> QED BY <2>1, LocalFrame DEF taskVars
<1> QED BY <1>1, <1>2 DEF IInv, NotYetSpawned

\* Whatever a VU, the drain or Ctrl-C does, the invariant is kept.
LEMMA IInvNext ==
    ASSUME IInv, NotYetSpawned, [Next]_vars
    PROVE  IInv' /\ NotYetSpawned'
<1>1. ASSUME NEW v \in VUs, VUStep(v) \/ (vu[v] = "inflight" /\ Answer(v))
      PROVE  IInv' /\ NotYetSpawned'
  <2>1. NotYetSpawned'
    BY <1>1, VUSpawned DEF IInv
  <2>2. CASE VUStep(v)
    BY <2>2, <2>1, Moves, Claims, Skips, Sends DEF VUStep
  <2>3. CASE vu[v] = "inflight" /\ Answer(v)
    BY <2>3, <2>1, Completes DEF Answer
  <2> QED BY <1>1, <2>2, <2>3
<1>2. CASE Receive \/ DrainEnds
    BY <1>2, Elsewhere DEF Receive, DrainEnds, IInv, Typed
<1>3. CASE SpawnVU
    BY <1>3, Spawns
<1>4. CASE DropSender \/ JoinVU \/ JoinDrain
    BY <1>4, Elsewhere DEF DropSender, JoinVU, JoinDrain, IInv, Typed
<1>5. CASE CtrlC
    BY <1>5, Elsewhere DEF CtrlC, runVars
<1>6. CASE UNCHANGED vars
    BY <1>6, Elsewhere DEF vars, taskVars, IInv, Typed
<1> QED BY <1>1, <1>2, <1>3, <1>4, <1>5, <1>6
        DEF Next, DrainStep, CoordinatorStep, Finished

\* The invariant implies the properties.
LEMMA IInvCorrect == Spec => [](IInv /\ NotYetSpawned)
<1>1. Init => IInv /\ NotYetSpawned
  <2> SUFFICES ASSUME Init PROVE IInv /\ NotYetSpawned
    OBVIOUS
  <2>1. NotYetSpawned
    BY DEF Init, NotYetSpawned
  <2> QED BY <2>1, IInvInit
<1>2. IInv /\ NotYetSpawned /\ [Next]_vars => (IInv /\ NotYetSpawned)'
    BY IInvNext
<1> QED BY <1>1, <1>2, PTL DEF Spec

\* Whatever the scenarios, a request never carries a value of another VU or of
\* an earlier iteration.
THEOREM CapturesAreFresh == Spec => []FreshCaptures
<1>1. IInv => FreshCaptures
  <2> SUFFICES ASSUME IInv, NEW v \in VUs, vu[v] \in {"permit", "inflight"},
                      NEW k \in Step(v).refs
               PROVE  caps[v][k] = iter[v]
    BY DEF FreshCaptures
  <2>1. Local(v) /\ at[v] \in 1..LastStep(v)
    BY DEF IInv, Local, Placed, Busy
  <2>2. k \in Keys
    BY <2>1, OfScenario DEF Step, StepDefs
  <2> QED BY <2>1, <2>2 DEF Local, Fresh
<1> QED BY <1>1, IInvCorrect, PTL

\* Whatever the scenarios, an iteration leaves a record per step, its skips at
\* the end, and none of a request sent after the failure that aborts it.
THEOREM IterationsAreWhole == Spec => []IterationShape
<1>1. IInv => IterationShape
  <2> SUFFICES ASSUME IInv, NEW v \in VUs PROVE Shape(v)
    BY DEF IterationShape, Shape, Busy
  <2> QED BY DEF IInv, Local
<1> QED BY <1>1, IInvCorrect, PTL

\* Whatever the scenarios, no step is skipped without a reason.
THEOREM SkipsAreCaused == Spec => []SkipsHaveCause
<1>1. IInv => SkipsHaveCause
  <2> SUFFICES ASSUME IInv, NEW v \in VUs,
                      {i \in DOMAIN trail[v] : trail[v][i] = "skipped"} # {}
               PROVE  CauseAt(v, Min({i \in DOMAIN trail[v] : trail[v][i] = "skipped"}))
    BY DEF SkipsHaveCause, CauseAt
  <2> DEFINE skips == {i \in DOMAIN trail[v] : trail[v][i] = "skipped"}
  <2>1. DOMAIN trail[v] = 1..Len(trail[v]) /\ Len(trail[v]) \in Nat
    BY LenProperties DEF IInv, Typed
  <2>2. skips \in SUBSET Nat
    BY <2>1
  <2>3. Min(skips) \in skips /\ \A y \in skips : Min(skips) <= y
    BY <2>2, MinExists
  <2> DEFINE first == Min(skips)
  <2> HIDE DEF first
  <2>4. first \in DOMAIN trail[v] /\ trail[v][first] = "skipped"
    BY <2>3 DEF first
  <2>5. ASSUME NEW i \in 1..(first - 1) PROVE trail[v][i] # "skipped"
    <3>1. i \in DOMAIN trail[v] /\ ~(first <= i)
        BY <2>1, <2>4
    <3> QED BY <2>3, <3>1 DEF first
  <2>6. CauseAt(v, first)
    BY <2>4, <2>5 DEF IInv, Local, Caused
  <2> QED BY <2>6 DEF first
<1> QED BY <1>1, IInvCorrect, PTL

\* However many VUs there are, none starts two requests after Ctrl-C.
THEOREM OneRequestAfterCancel == Spec => []OneLateRequest
<1>1. IInv => OneLateRequest
    BY DEF IInv, Local, AtMostOneLate, OneLateRequest
<1> QED BY <1>1, IInvCorrect, PTL

-----------------------------------------------------------------------------
(* The counts *)

\* The records there can be: of a step of a scenario.
StepRecords == {r \in Records : r.step \in DOMAIN Steps(r.s)}

RecordsOf(s, i) == {r \in StepRecords : r.s = s /\ r.step = i}

\* Iterations of a VU that have left a record for their step i.
Done(v, i) == IF vu[v] \in Busy /\ at[v] <= i THEN iter[v] - 1 ELSE iter[v]

DoneIn(s, i) == [v \in VUs |-> IF ScenarioOf(v) = s THEN Done(v, i) ELSE 0]

CountTypes ==
    /\ budget \in Nat
    /\ chan \in Seq(StepRecords)
    /\ acc.all \in Stats
    /\ DOMAIN acc.step = DOMAIN Scenarios
    /\ \A s \in DOMAIN Scenarios : acc.step[s] \in [DOMAIN Steps(s) -> Stats]

\* As long as nobody is cancelled, what was left by iterations is counted, or on
\* its way.
Counted ==
    ~cancelled => \A s \in DOMAIN Scenarios : \A i \in DOMAIN Steps(s) :
        acc.step[s][i].total + Cardinality(Places(chan, RecordsOf(s, i)))
            = SumFunctionOnSet(DoneIn(s, i), VUs)

\* A unit is left, or has been an iteration of somebody.
UnitsSpent == SumFunctionOnSet(iter, VUs) + budget = Total

\* A counter set as any number of records leaves it.
Consistent(s) == s.failed + s.skipped <= s.total /\ s.sampled + s.skipped = s.total

\* Nobody ends before the budget is used up; the drain ends after the last VU,
\* the report is made after the drain has ended.
EndInOrder ==
    /\ ~cancelled => \A v \in VUs : vu[v] = "exited" => budget = 0
    /\ drain = "done" => chan = <<>> /\ \A v \in VUs : vu[v] = "exited"
    /\ co = "spawning" => txHeld
    /\ drain = "done" => ~txHeld
    /\ result.kind = "stats" => co = "returned" /\ drain = "done" /\ result.acc = acc

CInv == CountTypes /\ Counted /\ UnitsSpent /\ Consistent(acc.all) /\ EndInOrder

\* What the records and the units are counted over is finite.
LEMMA FiniteVUs == IsFiniteSet(VUs)
BY ScenarioAssumption, FS_Interval DEF VUs

\* One more record of any outcome leaves a counter set consistent.
LEMMA RecordKeepsConsistent ==
    ASSUME NEW s \in Stats, Consistent(s), NEW o \in Outcomes
    PROVE  /\ RecordRequest(s, o) \in Stats /\ Consistent(RecordRequest(s, o))
           /\ RecordRequest(s, o).total = s.total + 1
<1>1. CASE o = "skipped"
    BY <1>1 DEF Stats, Consistent, RecordRequest
<1>2. CASE o = "failed"
    BY <1>2 DEF Stats, Consistent, RecordRequest
<1>3. CASE o = "ok"
    BY <1>3 DEF Stats, Consistent, RecordRequest
<1> QED BY <1>1, <1>2, <1>3 DEF Outcomes

\* A step that neither emits nor counts, and completes no iteration.
LEMMA CountsQuiet ==
    ASSUME Counted, UNCHANGED <<chan, acc>>, cancelled => cancelled',
           ~cancelled' => \A v \in VUs : \A i \in Nat \ {0} : Done(v, i)' = Done(v, i)
    PROVE  Counted'
<1> SUFFICES ASSUME ~cancelled', NEW s \in DOMAIN Scenarios, NEW i \in DOMAIN Steps(s)
             PROVE  acc.step[s][i].total + Cardinality(Places(chan, RecordsOf(s, i)))
                        = SumFunctionOnSet(DoneIn(s, i)', VUs)
    BY DEF Counted, RecordsOf, StepRecords, Steps
<1>1. i \in Nat \ {0}
    <2>1. Scenarios[s] \in ScenarioDefs
        BY ScenarioAssumption, LenProperties, ElementOfSeq
    <2>2. Steps(s) \in Seq(StepDefs)
        BY <2>1 DEF ScenarioDefs, Steps
    <2> QED BY <2>2, LenProperties
<1>2. DoneIn(s, i)' = DoneIn(s, i)
    BY <1>1 DEF DoneIn, ScenarioOf
<1> QED BY <1>2 DEF Counted

\* The records a VU emits from its present step to step n.
LEMMA Emissions ==
    ASSUME Typed, chan \in Seq(StepRecords), NEW v \in VUs, NEW o \in Outcomes,
           NEW n \in at[v]..LastStep(v), at[v] \in 1..LastStep(v), Emit(v, n, o)
    PROVE  /\ chan' \in Seq(StepRecords)
           /\ \A s \in DOMAIN Scenarios : \A i \in DOMAIN Steps(s) :
                Cardinality(Places(chan', RecordsOf(s, i)))
                    = Cardinality(Places(chan, RecordsOf(s, i)))
                          + (IF s = ScenarioOf(v) /\ i \in at[v]..n THEN 1 ELSE 0)
<1> DEFINE a == at[v]
           m == n - a + 1
           z == ScenarioOf(v)
           more == [k \in 1..m |-> [s |-> z, step |-> a + k - 1, outcome |-> o]]
<1>1. /\ a \in Nat /\ n \in Nat /\ a <= n /\ 1 <= a /\ m \in Nat /\ n <= LastStep(v)
      /\ LastStep(v) \in Nat /\ z \in DOMAIN Scenarios
    BY OfScenario DEF Typed
<1>2. DOMAIN Steps(z) = 1..LastStep(v)
  <2>1. Scenarios[z] \in ScenarioDefs
    BY <1>1, ScenarioAssumption, LenProperties, ElementOfSeq
  <2>2. Steps(z) \in Seq(StepDefs)
    BY <2>1 DEF ScenarioDefs, Steps
  <2> QED BY <2>2, LenProperties DEF LastStep
<1>3. chan' = chan \o more
    BY DEF Emit
<1> HIDE DEF z, a, m
<1>m. m = n - a + 1
    BY DEF m, a
<1>4. ASSUME NEW k \in 1..m
      PROVE  /\ more[k] \in StepRecords /\ more[k].s = z /\ more[k].step = a + k - 1
  <2>1. a + k - 1 \in 1..LastStep(v)
    BY <1>1, <1>m
  <2>2. more[k] = [s |-> z, step |-> a + k - 1, outcome |-> o]
    OBVIOUS
  <2> HIDE DEF more
  <2> QED BY <1>1, <1>2, <2>1, <2>2 DEF StepRecords, Records
<1>5. DOMAIN more = 1..m /\ more = [k \in 1..m |-> more[k]]
    OBVIOUS
<1> HIDE DEF more
<1>6. more \in Seq(StepRecords) /\ Len(more) = m
  <2>1. more \in [1..m -> StepRecords]
    BY <1>4, <1>5
  <2>2. more \in Seq(StepRecords)
    BY <1>1, <2>1, SeqDef
  <2> QED BY <1>1, <2>1, <2>2, LenProperties
<1>7. chan' \in Seq(StepRecords)
    BY <1>3, <1>6, ConcatProperties
<1>8. ASSUME NEW s \in DOMAIN Scenarios, NEW i \in DOMAIN Steps(s)
      PROVE  Cardinality(Places(chan', RecordsOf(s, i)))
                 = Cardinality(Places(chan, RecordsOf(s, i)))
                       + (IF s = z /\ i \in a..n THEN 1 ELSE 0)
  <2>1. Cardinality(Places(chan', RecordsOf(s, i)))
            = Cardinality(Places(chan, RecordsOf(s, i)))
                  + Cardinality(Places(more, RecordsOf(s, i)))
    BY <1>3, <1>6, PlacesConcat
  <2>2. \A k \in 1..m : more[k] \in RecordsOf(s, i) <=> s = z /\ i = a + k - 1
    BY <1>4 DEF RecordsOf
  <2>3. CASE s = z /\ i \in a..n
    <3>1. PICK k \in 1..m : k = i - a + 1
        BY <1>1, <1>m, <2>3
    <3>2. \A j \in 1..m : i = a + j - 1 <=> j = k
        BY <1>1, <2>3, <3>1
    <3>3. Places(more, RecordsOf(s, i)) = {k}
        BY <1>5, <2>2, <2>3, <3>2 DEF Places
    <3>4. Cardinality({k}) = 1
        BY FS_Singleton
    <3> QED BY <2>1, <2>3, <3>3, <3>4
  <2>4. CASE ~(s = z /\ i \in a..n)
    <3>1. \A j \in 1..m : a + j - 1 \in a..n
        BY <1>1, <1>m
    <3>2. Places(more, RecordsOf(s, i)) = {}
        BY <1>5, <2>2, <2>4, <3>1 DEF Places
    <3>3. Cardinality(Places(more, RecordsOf(s, i))) = 0
        BY <3>2, FS_EmptySet, Zenon
    <3> QED BY <2>1, <2>4, <3>3
  <2> QED BY <2>3, <2>4
<1> QED BY <1>7, <1>8 DEF z, a

\* A VU leaves records up to step n and goes on behind it: the iterations that
\* have done those steps are one more.
LEMMA CountsEmitted ==
    ASSUME IInv, CInv, NEW v \in VUs, vu[v] \in Busy, NEW o \in Outcomes,
           NEW n \in at[v]..LastStep(v), Emit(v, n, o), Advance(v, n + 1),
           UNCHANGED <<iter, acc, cancelled>>
    PROVE  chan' \in Seq(StepRecords) /\ Counted'
<1>1. Typed /\ at[v] \in 1..LastStep(v) /\ LastStep(v) \in Nat
    BY OfScenario DEF IInv, Local, Placed
<1>2. chan \in Seq(StepRecords)
    BY DEF CInv, CountTypes
<1>3. /\ chan' \in Seq(StepRecords)
      /\ \A s \in DOMAIN Scenarios : \A i \in DOMAIN Steps(s) :
            Cardinality(Places(chan', RecordsOf(s, i)))
                = Cardinality(Places(chan, RecordsOf(s, i)))
                      + (IF s = ScenarioOf(v) /\ i \in at[v]..n THEN 1 ELSE 0)
    BY <1>1, <1>2, Emissions
<1>4. /\ at' = [at EXCEPT ![v] = n + 1]
      /\ vu' = [vu EXCEPT ![v] = IF n + 1 > LastStep(v) THEN "check" ELSE "step"]
    BY DEF Advance, Goto
<1>5. \A w \in VUs : w # v => vu'[w] = vu[w] /\ at'[w] = at[w]
    BY <1>1, <1>4 DEF Typed
<1>6. at'[v] = n + 1 /\ vu'[v] = IF n + 1 > LastStep(v) THEN "check" ELSE "step"
    BY <1>1, <1>4 DEF Typed
<1> SUFFICES ASSUME ~cancelled, NEW s \in DOMAIN Scenarios, NEW i \in DOMAIN Steps(s)
             PROVE  acc.step[s][i].total + Cardinality(Places(chan', RecordsOf(s, i)))
                        = SumFunctionOnSet(DoneIn(s, i)', VUs)
    BY <1>3 DEF Counted, RecordsOf, StepRecords, Steps
<1> DEFINE f == DoneIn(s, i)
           g == DoneIn(s, i)'
           z == ScenarioOf(v)
<1>7. i \in Nat /\ (s = z => i <= LastStep(v))
  <2>1. Scenarios[s] \in ScenarioDefs
    BY ScenarioAssumption, LenProperties, ElementOfSeq
  <2>2. Steps(s) \in Seq(StepDefs)
    BY <2>1 DEF ScenarioDefs, Steps
  <2>3. DOMAIN Steps(s) = 1..Len(Steps(s))
    BY <2>2, LenProperties
  <2> QED BY <1>1, <2>2, <2>3, LenProperties DEF LastStep
<1>8. \A w \in VUs : f[w] = IF ScenarioOf(w) = s THEN Done(w, i) ELSE 0
    BY DEF DoneIn
<1>9. \A w \in VUs : g[w] = IF ScenarioOf(w) = s THEN Done(w, i)' ELSE 0
    BY DEF DoneIn, ScenarioOf
<1> HIDE DEF f, g
<1>10. \A w \in VUs : iter[w] \in Nat /\ at[w] \in Nat
    BY <1>1 DEF Typed
<1>11. \A w \in VUs \ {v} : f[w] = g[w]
    BY <1>5, <1>8, <1>9 DEF Done
<1>12. s = z => g[v] = f[v] + (IF i \in at[v]..n THEN 1 ELSE 0)
  <2> SUFFICES ASSUME s = z PROVE g[v] = f[v] + (IF i \in at[v]..n THEN 1 ELSE 0)
    OBVIOUS
  <2>1. f[v] = (IF at[v] <= i THEN iter[v] - 1 ELSE iter[v])
    BY <1>8 DEF Done
  <2>2. g[v] = (IF vu'[v] \in Busy /\ n + 1 <= i THEN iter[v] - 1 ELSE iter[v])
    BY <1>6, <1>9 DEF Done
  <2>3. n \in Nat /\ at[v] <= n /\ n <= LastStep(v) /\ i <= LastStep(v)
    BY <1>1, <1>7
  <2>4. CASE n + 1 > LastStep(v)
    <3>1. vu'[v] \notin Busy /\ ~(n + 1 <= i)
        BY <1>1, <1>6, <1>7, <2>3, <2>4 DEF Busy
    <3> QED BY <1>1, <1>7, <1>10, <2>1, <2>2, <2>3, <2>4, <3>1
  <2>5. CASE ~(n + 1 > LastStep(v))
    <3>1. vu'[v] \in Busy
        BY <1>6, <2>5 DEF Busy
    <3> QED BY <1>1, <1>7, <1>10, <2>1, <2>2, <2>3, <2>5, <3>1
  <2> QED BY <2>4, <2>5
<1>13. s # z => g[v] = 0 /\ f[v] = 0
    BY <1>8, <1>9
<1>14. IntValued(f, VUs) /\ IntValued(g, VUs)
  <2>1. \A w \in VUs : f[w] \in Int
    BY <1>8, <1>10 DEF Done
  <2>2. g[v] \in Int
    BY <1>12, <1>13, <2>1
  <2> QED BY <1>11, <2>1, <2>2 DEF IntValued
<1>15. SumFunctionOnSet(g, VUs) = SumFunctionOnSet(f, VUs) - f[v] + g[v]
    BY <1>11, <1>14, FiniteVUs, SumBump
<1>16. SumFunctionOnSet(f, VUs) \in Int /\ f[v] \in Int
    BY <1>14, FiniteVUs, SumInt DEF IntValued
<1>17. acc.step[s][i].total + Cardinality(Places(chan, RecordsOf(s, i)))
           = SumFunctionOnSet(f, VUs)
    BY DEF CInv, Counted, f
<1>18. acc.step[s][i].total \in Nat /\ Cardinality(Places(chan, RecordsOf(s, i))) \in Nat
    BY <1>2, PlacesFinite DEF CInv, CountTypes, Stats
<1>19. Cardinality(Places(chan', RecordsOf(s, i)))
           = Cardinality(Places(chan, RecordsOf(s, i)))
                 + (IF s = z /\ i \in at[v]..n THEN 1 ELSE 0)
    BY <1>3
<1> HIDE DEF z
<1>20. acc.step[s][i].total + Cardinality(Places(chan', RecordsOf(s, i)))
           = SumFunctionOnSet(g, VUs)
  <2>1. CASE s = z
    BY <1>12, <1>15, <1>16, <1>17, <1>18, <1>19, <2>1
  <2>2. CASE s # z
    BY <1>13, <1>15, <1>16, <1>17, <1>18, <1>19, <2>2
  <2> QED BY <2>1, <2>2
<1> QED BY <1>20 DEF g

\* The drain counts the record at the head of the queue.
LEMMA CountsReceived ==
    ASSUME CInv, Receive
    PROVE  CountTypes' /\ Counted' /\ Consistent(acc.all)'
<1> DEFINE r == Head(chan)
           z == r.s
           j == r.step
           o == r.outcome
<1>1. chan \in Seq(StepRecords) /\ chan # <<>> /\ chan' = Tail(chan) /\ budget' = budget
    BY DEF CInv, CountTypes, Receive
<1>2. r \in StepRecords /\ chan' \in Seq(StepRecords)
    BY <1>1, HeadTailProperties
<1>3. z \in DOMAIN Scenarios /\ j \in DOMAIN Steps(z) /\ o \in Outcomes
    BY <1>2 DEF StepRecords, Records
<1>4. /\ acc'.all = RecordRequest(acc.all, o)
      /\ acc'.step = [acc.step EXCEPT ![z][j] = RecordRequest(@, o)]
    BY DEF Receive, RecordAll
<1>5. /\ acc.all \in Stats /\ DOMAIN acc.step = DOMAIN Scenarios
      /\ \A s \in DOMAIN Scenarios : acc.step[s] \in [DOMAIN Steps(s) -> Stats]
    BY DEF CInv, CountTypes
<1> HIDE DEF r, z, j, o
<1> DEFINE new == RecordRequest(acc.step[z][j], o)
           row == [acc.step[z] EXCEPT ![j] = new]
<1>6. acc.step[z] \in [DOMAIN Steps(z) -> Stats] /\ acc.step[z][j] \in Stats
    BY <1>3, <1>5
<1>7. new \in Stats /\ new.total = acc.step[z][j].total + 1
    BY <1>3, <1>6 DEF RecordRequest, Outcomes, Stats
<1>8. acc'.all \in Stats /\ Consistent(acc'.all)
    BY <1>3, <1>4, <1>5, RecordKeepsConsistent DEF CInv
<1>9. acc'.step = [acc.step EXCEPT ![z] = row]
    BY <1>4
<1> HIDE DEF new
<1>10. row \in [DOMAIN Steps(z) -> Stats] /\ row[j] = new /\ \A k \in DOMAIN Steps(z) : k # j => row[k] = acc.step[z][k]
    BY <1>3, <1>6, <1>7
<1> HIDE DEF row
<1>11. /\ DOMAIN acc'.step = DOMAIN Scenarios
       /\ acc'.step[z] = row /\ \A s \in DOMAIN Scenarios : s # z => acc'.step[s] = acc.step[s]
    BY <1>3, <1>5, <1>9
<1>12. \A s \in DOMAIN Scenarios : acc'.step[s] \in [DOMAIN Steps(s) -> Stats]
    BY <1>5, <1>10, <1>11
<1>13. CountTypes'
    BY <1>1, <1>2, <1>8, <1>11, <1>12 DEF CInv, CountTypes, StepRecords, Steps
<1>14. Counted'
  <2>1. UNCHANGED <<cancelled, vu, at, iter>>
    BY DEF Receive, taskVars
  <2> SUFFICES ASSUME ~cancelled, NEW s \in DOMAIN Scenarios, NEW i \in DOMAIN Steps(s)
               PROVE  acc'.step[s][i].total + Cardinality(Places(chan', RecordsOf(s, i)))
                          = SumFunctionOnSet(DoneIn(s, i), VUs)
    BY <2>1 DEF Counted, RecordsOf, StepRecords, Steps, DoneIn, Done, ScenarioOf
  <2>2. acc.step[s][i].total + Cardinality(Places(chan, RecordsOf(s, i)))
            = SumFunctionOnSet(DoneIn(s, i), VUs)
    BY DEF CInv, Counted
  <2>3. Cardinality(Places(chan, RecordsOf(s, i)))
            = Cardinality(Places(chan', RecordsOf(s, i)))
                  + (IF r \in RecordsOf(s, i) THEN 1 ELSE 0)
    BY <1>1, PlacesTail DEF r
  <2>4. r \in RecordsOf(s, i) <=> s = z /\ i = j
    BY <1>2 DEF RecordsOf, z, j
  <2>5. Cardinality(Places(chan', RecordsOf(s, i))) \in Nat /\ acc.step[s][i].total \in Nat
    BY <1>2, <1>5, PlacesFinite DEF Stats
  <2>6. acc'.step[s][i].total
            = acc.step[s][i].total + (IF s = z /\ i = j THEN 1 ELSE 0)
    <3>1. CASE s = z /\ i = j
        BY <1>7, <1>10, <1>11, <3>1
    <3>2. CASE s = z /\ i # j
        BY <1>10, <1>11, <2>5, <3>2
    <3>3. CASE s # z
        BY <1>11, <2>5, <3>3
    <3> QED BY <3>1, <3>2, <3>3
  <2> QED BY <2>2, <2>3, <2>4, <2>5, <2>6
<1> QED BY <1>8, <1>13, <1>14

\* The invariant holds initially.
LEMMA CInvInit == Init => CInv
<1> SUFFICES ASSUME Init PROVE CInv
    OBVIOUS
<1>1. chan = <<>> /\ chan \in Seq(StepRecords)
    BY EmptySeq DEF Init
<1>2. EmptyStats \in Stats /\ Consistent(EmptyStats) /\ EmptyStats.total = 0
    BY DEF EmptyStats, Stats, Consistent
<1>3. /\ acc.all = EmptyStats
      /\ acc.step = [s \in DOMAIN Scenarios |-> [i \in DOMAIN Steps(s) |-> EmptyStats]]
    BY DEF Init, EmptyAcc
<1>4. /\ DOMAIN acc.step = DOMAIN Scenarios
      /\ \A s \in DOMAIN Scenarios : acc.step[s] = [i \in DOMAIN Steps(s) |-> EmptyStats]
    BY <1>3
<1>5. CountTypes
  <2>1. budget \in Nat
    BY ScenarioAssumption DEF Init
  <2> QED BY <1>1, <1>2, <1>3, <1>4, <2>1 DEF CountTypes
<1>6. Counted
  <2> SUFFICES ASSUME NEW s \in DOMAIN Scenarios, NEW i \in DOMAIN Steps(s)
               PROVE  acc.step[s][i].total + Cardinality(Places(chan, RecordsOf(s, i)))
                          = SumFunctionOnSet(DoneIn(s, i), VUs)
    BY DEF Counted
  <2>1. Cardinality(Places(chan, RecordsOf(s, i))) = 0
    BY <1>1, PlacesOfNone
  <2>2. \A v \in VUs : DoneIn(s, i)[v] = 0
    BY DEF Init, DoneIn, Done, Busy
  <2>3. SumFunctionOnSet(DoneIn(s, i), VUs) = 0
    BY <2>2, FiniteVUs, SumZero
  <2>4. acc.step[s][i].total = 0
    BY <1>2, <1>4
  <2> QED BY <2>1, <2>3, <2>4
<1>7. UnitsSpent
  <2>1. \A v \in VUs : iter[v] = 0
    BY DEF Init
  <2>2. SumFunctionOnSet(iter, VUs) = 0
    BY <2>1, FiniteVUs, SumZero
  <2> QED BY <2>2, ScenarioAssumption DEF UnitsSpent, Init
<1>8. EndInOrder
    BY DEF Init, EndInOrder
<1> QED BY <1>2, <1>3, <1>5, <1>6, <1>7, <1>8 DEF CInv

\* Once the drain is done there is nobody left, and nobody to come.
LEMMA NobodyLeft ==
    ASSUME EndInOrder, drain = "done"
    PROVE  (\A v \in VUs : vu[v] = "exited") /\ co # "spawning" /\ chan = <<>>
BY DEF EndInOrder

\* A VU that is not at its end moves, and does not end unless it was cancelled.
LEMMA EndKept ==
    ASSUME EndInOrder, NEW v \in VUs, vu[v] # "exited", NEW s \in VUStates,
           vu \in [VUs -> VUStates], vu' = [vu EXCEPT ![v] = s],
           s = "exited" /\ ~cancelled => budget = 0,
           ~cancelled /\ budget = 0 => budget' = 0,
           UNCHANGED <<cancelled, runVars>>
    PROVE  EndInOrder'
<1>1. \A w \in VUs : vu'[w] = IF w = v THEN s ELSE vu[w]
    OBVIOUS
<1>2. drain # "done"
    BY NobodyLeft
<1> QED BY <1>1, <1>2 DEF EndInOrder, runVars

\* An iteration is paid for with a unit, and has left nothing yet.
LEMMA CountsClaimed ==
    ASSUME IInv, CInv, NEW v \in VUs, ClaimIteration(v)
    PROVE  CInv'
<1>1. /\ vu[v] = "claim" /\ budget > 0 /\ budget' = budget - 1
      /\ vu' = [vu EXCEPT ![v] = "step"] /\ at' = [at EXCEPT ![v] = 1]
      /\ iter' = [iter EXCEPT ![v] = @ + 1]
      /\ UNCHANGED <<cancelled, chan, runVars>>
    BY DEF ClaimIteration, UnitsLeft, Goto
<1>2. Typed /\ CountTypes /\ Counted /\ UnitsSpent /\ Consistent(acc.all) /\ EndInOrder
    BY DEF IInv, CInv
<1>3. budget \in Nat /\ budget' \in Nat
    BY <1>1, <1>2 DEF CountTypes
<1>4. CountTypes' /\ Consistent(acc.all)'
    BY <1>1, <1>2, <1>3 DEF CountTypes, runVars, StepRecords, Steps
<1>5. ASSUME NEW w \in VUs, NEW i \in Nat \ {0} PROVE Done(w, i)' = Done(w, i)
  <2>1. CASE w = v
    <3>1. iter'[v] = iter[v] + 1 /\ at'[v] = 1 /\ vu'[v] = "step" /\ iter[v] \in Nat
        BY <1>1, <1>2 DEF Typed
    <3> QED BY <1>1, <2>1, <3>1 DEF Done, Busy
  <2>2. CASE w # v
    <3>1. iter'[w] = iter[w] /\ at'[w] = at[w] /\ vu'[w] = vu[w]
        BY <1>1, <1>2, <2>2 DEF Typed
    <3> QED BY <3>1 DEF Done
  <2> QED BY <2>1, <2>2
<1>6. Counted'
    BY <1>1, <1>2, <1>5, CountsQuiet DEF runVars
<1>7. UnitsSpent'
  <2>1. /\ iter \in [VUs -> Nat] /\ iter' \in [VUs -> Nat] /\ iter'[v] = iter[v] + 1
        /\ \A w \in VUs \ {v} : iter[w] = iter'[w]
    BY <1>1, <1>2 DEF Typed
  <2>2. IntValued(iter, VUs) /\ IntValued(iter', VUs)
    BY <2>1 DEF IntValued
  <2>3. SumFunctionOnSet(iter', VUs) = SumFunctionOnSet(iter, VUs) - iter[v] + iter'[v]
    BY <2>1, <2>2, FiniteVUs, SumBump
  <2>4. SumFunctionOnSet(iter, VUs) \in Int /\ iter[v] \in Int
    BY <2>1, <2>2, FiniteVUs, SumInt
  <2> QED BY <1>1, <1>2, <1>3, <2>1, <2>3, <2>4 DEF UnitsSpent
<1>8. EndInOrder'
  <2>1. PICK s \in VUStates : s = "step" /\ s # "exited"
    BY DEF VUStates
  <2>2. vu[v] # "exited" /\ budget # 0 /\ vu \in [VUs -> VUStates] /\ vu' = [vu EXCEPT ![v] = s]
    BY <1>1, <1>2, <1>3, <2>1 DEF Typed
  <2> QED BY <1>1, <1>2, <2>1, <2>2, EndKept
<1> QED BY <1>4, <1>6, <1>7, <1>8 DEF CInv

\* A VU that emits nothing goes on within its iteration, or between two.
LEMMA CountsMoved ==
    ASSUME IInv, CInv, NEW v \in VUs,
           \/ CheckToken(v) \/ BudgetExhausted(v) \/ StepCancelled(v) \/ StepBegins(v)
           \/ CancelWait(v) \/ Prepare(v) \/ AcquirePermit(v)
    PROVE  CInv'
<1>1. UNCHANGED <<budget, cancelled, chan, at, iter, runVars>>
    BY DEF CheckToken, BudgetExhausted, StepCancelled, StepBegins, CancelWait, Prepare,
           AcquirePermit, taskVars
<1>2. Typed /\ CountTypes /\ Counted /\ UnitsSpent /\ Consistent(acc.all) /\ EndInOrder
    BY DEF IInv, CInv
<1>3. PICK s \in VUStates :
        /\ vu' = [vu EXCEPT ![v] = s] /\ vu[v] # "exited"
        /\ ~cancelled => (s \in Busy <=> vu[v] \in Busy)
        /\ s = "exited" /\ ~cancelled => budget = 0
  <2>1. CASE CheckToken(v)
    BY <2>1 DEF CheckToken, Goto, VUStates, Busy
  <2>2. CASE BudgetExhausted(v)
    BY <1>2, <2>2 DEF BudgetExhausted, UnitsLeft, Goto, VUStates, Busy, CountTypes
  <2>3. CASE StepCancelled(v) \/ CancelWait(v)
    BY <2>3 DEF StepCancelled, CancelWait, TokenSeen, Goto, VUStates, Busy
  <2>4. CASE StepBegins(v) \/ AcquirePermit(v)
    BY <2>4 DEF StepBegins, AcquirePermit, Goto, VUStates, Busy
  <2>5. CASE Prepare(v)
    BY <2>5 DEF Prepare, Goto, VUStates, Busy
  <2> QED BY <2>1, <2>2, <2>3, <2>4, <2>5
<1>4. CountTypes' /\ Consistent(acc.all)' /\ UnitsSpent'
    BY <1>1, <1>2 DEF CountTypes, runVars, StepRecords, Steps, UnitsSpent
<1>5. ASSUME ~cancelled', NEW w \in VUs, NEW i \in Nat \ {0} PROVE Done(w, i)' = Done(w, i)
    BY <1>1, <1>2, <1>3, <1>5 DEF Done, Typed
<1>6. Counted'
    BY <1>1, <1>2, <1>5, CountsQuiet DEF runVars
<1>7. EndInOrder'
    BY <1>1, <1>2, <1>3, EndKept DEF Typed
<1> QED BY <1>4, <1>6, <1>7 DEF CInv

\* A VU that emits is in the midst of an iteration, and not at its end yet.
LEMMA CountsLeft ==
    ASSUME IInv, CInv, NEW v \in VUs,
           StepSkipped(v) \/ PrepareFails(v) \/ (vu[v] = "inflight" /\ Answer(v))
    PROVE  CInv'
<1>1. Typed /\ CountTypes /\ Counted /\ UnitsSpent /\ Consistent(acc.all) /\ EndInOrder
    BY DEF IInv, CInv
<1>2. UNCHANGED <<budget, cancelled, iter, runVars>> /\ vu[v] \in Busy
    BY DEF StepSkipped, PrepareFails, Answer, Complete, Busy
<1>3. at[v] \in 1..LastStep(v) /\ LastStep(v) \in Nat
    BY <1>2, OfScenario DEF IInv, Local, Placed
<1>4. PICK o \in Outcomes, n \in at[v]..LastStep(v) : Emit(v, n, o) /\ Advance(v, n + 1)
  <2>1. at[v] \in at[v]..LastStep(v) /\ LastStep(v) \in at[v]..LastStep(v)
    BY <1>3
  <2>2. CASE StepSkipped(v)
    BY <2>1, <2>2 DEF StepSkipped, Outcomes
  <2>3. CASE PrepareFails(v)
    BY <2>1, <2>3 DEF PrepareFails, SkipUpTo, Outcomes
  <2>4. CASE Answer(v)
    BY <2>1, <2>4 DEF Answer, Complete, Outcomes
  <2> QED BY <2>2, <2>3, <2>4
<1>5. chan' \in Seq(StepRecords) /\ Counted'
    BY <1>2, <1>4, CountsEmitted DEF runVars
<1>6. CountTypes' /\ Consistent(acc.all)' /\ UnitsSpent'
    BY <1>1, <1>2, <1>5 DEF CountTypes, runVars, StepRecords, Steps, UnitsSpent
<1>7. EndInOrder'
  <2>1. PICK s \in VUStates \ {"exited"} : vu' = [vu EXCEPT ![v] = s]
    BY <1>4 DEF Advance, Goto, VUStates
  <2> QED BY <1>1, <1>2, <2>1, EndKept DEF Typed, Busy
<1> QED BY <1>5, <1>6, <1>7 DEF CInv

\* Every step keeps the counts: of units spent, records sent and counted.
LEMMA CInvNext ==
    ASSUME IInv, NotYetSpawned, CInv, [Next]_vars
    PROVE  CInv'
<1>0. Typed /\ CountTypes /\ Counted /\ UnitsSpent /\ Consistent(acc.all) /\ EndInOrder
    BY DEF IInv, CInv
<1>1. ASSUME NEW v \in VUs, VUStep(v) \/ (vu[v] = "inflight" /\ Answer(v)) PROVE CInv'
    BY <1>1, CountsClaimed, CountsMoved, CountsLeft DEF VUStep
<1>2. ASSUME Receive PROVE CInv'
  <2>1. UNCHANGED <<budget, cancelled, vu, iter, txHeld, drain, co, result>> /\ drain = "recv"
    BY <1>2 DEF Receive, taskVars
  <2>2. UnitsSpent'
    BY <1>0, <2>1 DEF UnitsSpent
  <2>3. EndInOrder'
    BY <1>0, <2>1 DEF EndInOrder
  <2> QED BY <1>2, <2>2, <2>3, CountsReceived DEF CInv
<1>s. ASSUME UNCHANGED <<budget, iter, chan, acc>>, cancelled => cancelled', EndInOrder',
             ~cancelled' => \A v \in VUs : \A i \in Nat \ {0} : Done(v, i)' = Done(v, i)
      PROVE  CInv'
  <2>1. Counted'
    BY <1>0, <1>s, CountsQuiet
  <2> QED BY <1>0, <1>s, <2>1 DEF CInv, CountTypes, UnitsSpent, StepRecords, Steps
<1>q. ASSUME UNCHANGED <<budget, chan, acc, vu, taskVars>>, cancelled => cancelled', EndInOrder'
      PROVE  CInv'
  <2>1. \A v \in VUs : \A i \in Nat \ {0} : Done(v, i)' = Done(v, i)
    BY <1>q DEF Done, taskVars
  <2> QED BY <1>q, <1>s, <2>1 DEF taskVars
<1>3. ASSUME DrainEnds PROVE CInv'
  <2>1. EndInOrder'
    BY <1>0, <1>3 DEF DrainEnds, EndInOrder, taskVars
  <2> QED BY <1>3, <1>q, <2>1 DEF DrainEnds
<1>4. ASSUME SpawnVU PROVE CInv'
  <2>1. /\ UNCHANGED <<budget, cancelled, taskVars, chan, txHeld, drain, acc, co, result>>
        /\ vu' = [vu EXCEPT ![cursor] = "check"] /\ co = "spawning"
        /\ \A v \in VUs : v = cursor => vu[v] = "unborn"
    BY <1>4 DEF SpawnVU, Goto, NotYetSpawned, VUs
  <2>2. \A w \in VUs : vu'[w] = IF w = cursor THEN "check" ELSE vu[w]
    BY <1>0, <2>1 DEF Typed
  <2>3. ASSUME NEW v \in VUs, NEW i \in Nat \ {0} PROVE Done(v, i)' = Done(v, i)
    BY <2>1, <2>2 DEF Done, taskVars, Busy
  <2>4. drain # "done"
    BY <1>0, <2>1, NobodyLeft
  <2>5. EndInOrder'
    BY <1>0, <2>1, <2>2, <2>4 DEF EndInOrder
  <2> QED BY <1>s, <2>1, <2>3, <2>5 DEF taskVars
<1>5. ASSUME DropSender \/ JoinVU \/ JoinDrain PROVE CInv'
  <2>1. UNCHANGED <<budget, cancelled, vu, taskVars, chan, drain, acc>>
    BY <1>5 DEF DropSender, JoinVU, JoinDrain
  <2>2. ASSUME DropSender PROVE EndInOrder'
    BY <1>0, <2>1, <2>2 DEF DropSender, EndInOrder
  <2>3. ASSUME JoinVU PROVE EndInOrder'
    BY <1>0, <2>1, <2>3 DEF JoinVU, EndInOrder
  <2>4. ASSUME JoinDrain PROVE EndInOrder'
    BY <1>0, <2>1, <2>4 DEF JoinDrain, EndInOrder
  <2>5. EndInOrder'
    BY <1>5, <2>2, <2>3, <2>4
  <2> QED BY <1>q, <2>1, <2>5
<1>6. ASSUME CtrlC \/ Finished \/ UNCHANGED vars PROVE CInv'
  <2>1. UNCHANGED <<budget, vu, taskVars, chan, runVars>> /\ (cancelled => cancelled')
    BY <1>6 DEF CtrlC, Finished, vars, taskVars, runVars
  <2>2. EndInOrder'
    BY <1>0, <2>1 DEF EndInOrder, runVars
  <2> QED BY <1>q, <2>1, <2>2 DEF runVars
<1> QED BY <1>1, <1>2, <1>3, <1>4, <1>5, <1>6 DEF Next, DrainStep, CoordinatorStep

\* The invariant implies the properties.
LEMMA CInvCorrect == Spec => [](IInv /\ CInv)
<1>1. Init => CInv
    BY CInvInit
<1>2. (IInv /\ NotYetSpawned) /\ CInv /\ [Next]_vars => CInv'
    BY CInvNext
<1> QED BY <1>1, <1>2, IInvCorrect, PTL DEF Spec

\* The report of a run that nobody interrupts is made of whole iterations, as
\* many as the budget has units: each of them has left a record for every step
\* of its scenario, every record has been counted, and the numbers add up.
\* About: budget, step loop, abort, drain and the report's arithmetic.
THEOREM ReportsWholeIterations == Spec => []WholeIterations
<1>1. IInv /\ CInv => WholeIterations
  <2> SUFFICES ASSUME IInv, CInv, result.kind = "stats", ~cancelled, Concurrency > 0
               PROVE  /\ CountedOncePerIteration
                      /\ Balanced(result.acc.all)
                      /\ SumFunction([s \in DOMAIN Scenarios |-> result.acc.step[s][1].total])
                            = Total
    BY DEF WholeIterations
  <2>1. /\ result.acc = acc /\ chan = <<>> /\ CountTypes
        /\ \A v \in VUs : vu[v] = "exited" /\ budget = 0
    BY DEF CInv, EndInOrder
  <2>2. budget = 0
    <3>1. 1 \in VUs
        BY ScenarioAssumption DEF VUs
    <3> QED BY <2>1, <3>1
  <2> DEFINE of(s) == [v \in VUs |-> IF ScenarioOf(v) = s THEN iter[v] ELSE 0]
  <2>3. ASSUME NEW s \in DOMAIN Scenarios, NEW i \in DOMAIN Steps(s)
        PROVE  acc.step[s][i].total = SumFunctionOnSet(of(s), VUs)
    <3>1. acc.step[s][i].total + Cardinality(Places(chan, RecordsOf(s, i)))
              = SumFunctionOnSet(DoneIn(s, i), VUs)
        BY DEF CInv, Counted
    <3>2. Cardinality(Places(chan, RecordsOf(s, i))) = 0
        BY <2>1, PlacesOfNone
    <3>3. DoneIn(s, i) = of(s)
        BY <2>1 DEF DoneIn, Done, Busy
    <3>4. acc.step[s][i].total \in Nat
        BY <2>1 DEF CountTypes, Stats
    <3> HIDE DEF of
    <3> QED BY <3>1, <3>2, <3>3, <3>4
  <2>4. ASSUME NEW s \in DOMAIN Scenarios PROVE 1 \in DOMAIN Steps(s)
    <3>1. Scenarios[s] \in ScenarioDefs
        BY ScenarioAssumption, LenProperties, ElementOfSeq
    <3>2. Steps(s) \in Seq(StepDefs) /\ Steps(s) # <<>>
        BY <3>1 DEF ScenarioDefs, Steps
    <3> QED BY <3>2, LenProperties, EmptySeq
  <2>5. CountedOncePerIteration
    <3> HIDE DEF of
    <3> QED BY <2>1, <2>3, <2>4 DEF CountedOncePerIteration
  <2>6. Balanced(result.acc.all)
    BY <2>1 DEF CInv, Consistent, CountTypes, Stats, Balanced, SummaryOk, Monus
  <2> DEFINE h == [s \in DOMAIN Scenarios |-> result.acc.step[s][1].total]
             c == [v \in VUs |-> ScenarioOf(v)]
  <2>7. c \in [VUs -> DOMAIN Scenarios]
    BY OfScenario
  <2>8. \A s \in DOMAIN Scenarios : h[s] = SumFunctionOnSet(Group(c, iter, VUs, s), VUs)
    <3> SUFFICES ASSUME NEW s \in DOMAIN Scenarios
                 PROVE  h[s] = SumFunctionOnSet(Group(c, iter, VUs, s), VUs)
        OBVIOUS
    <3>1. Group(c, iter, VUs, s) = of(s)
        BY DEF Group
    <3>2. h[s] = acc.step[s][1].total
        BY <2>1
    <3> HIDE DEF of, h, c
    <3> QED BY <2>3, <2>4, <3>1, <3>2
  <2>9. IntValued(iter, VUs) /\ SumFunctionOnSet(iter, VUs) \in Int
    <3>1. IntValued(iter, VUs)
        BY DEF IInv, Typed, IntValued
    <3> QED BY <3>1, FiniteVUs, SumInt
  <2>10. IsFiniteSet(DOMAIN Scenarios)
    <3>1. DOMAIN Scenarios = 1..Len(Scenarios) /\ Len(Scenarios) \in Nat
        BY ScenarioAssumption, LenProperties
    <3> QED BY <3>1, FS_Interval
  <2>h. SumFunction(h) = SumFunctionOnSet(h, DOMAIN Scenarios)
    BY DEF SumFunction
  <2> HIDE DEF h, c
  <2>11. SumFunctionOnSet(h, DOMAIN Scenarios) = SumFunctionOnSet(iter, VUs)
    BY <2>7, <2>8, <2>9, <2>10, FiniteVUs, SumGroups
  <2>12. SumFunctionOnSet(iter, VUs) = Total
    BY <2>2, <2>9, ScenarioAssumption DEF CInv, UnitsSpent
  <2> QED BY <2>5, <2>6, <2>h, <2>11, <2>12 DEF h
<1> QED BY <1>1, CInvCorrect, PTL
=============================================================================
