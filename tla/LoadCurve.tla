----------------------------- MODULE LoadCurve -----------------------------
(***************************************************************************)
(* The arithmetic of load curves (lmn-core/src/load_curve/mod.rs) and the *)
(* stage look-up of the curve executor                                    *)
(* (lmn-core/src/execution/curve/mod.rs).                                 *)
(*                                                                         *)
(* A stage is [duration, target, ramp].  Time is in whole units; the      *)
(* interpolation, which the code does in f64, is exact here, with halves  *)
(* rounded up (f64::round on the non-negative values that occur).         *)
(* Stages are numbered from 1.                                            *)
(***************************************************************************)
EXTENDS Integers, Sequences, SequencesExt, FiniteSetsExt

CONSTANTS
    MaxVus,     \* MAX_VUS
    MaxStages   \* MAX_STAGES

ASSUME LimitsAssumption == MaxVus \in Nat /\ MaxStages \in Nat

Ramps == {"linear", "step", "omitted"}

Stage == [duration : Nat, target : Nat, ramp : Ramps]

\* RampType's serde default.
RampOf(stage) == IF stage.ramp = "omitted" THEN "linear" ELSE stage.ramp

Durations(stages) == [i \in DOMAIN stages |-> stages[i].duration]

\* Time at which stage i ends; stage 0 ends, and the curve starts, at 0.
EndOf(stages, i) == SumFunctionOnSet(Durations(stages), 1..i)

TotalDuration(stages) == EndOf(stages, Len(stages))

\* Mutant of NotOver: a stage still owns the instant at which it ends.
NotOverAtEnd(stages, i, elapsed) == elapsed <= EndOf(stages, i)

NotOver(stages, i, elapsed) == elapsed < EndOf(stages, i)

\* Stages that end after the given instant: the loops stop at the first.
Pending(stages, elapsed) == {i \in DOMAIN stages : NotOver(stages, i, elapsed)}

\* stage_index_at: late records go to the last stage.
StageIndexAt(stages, elapsed) ==
    IF Pending(stages, elapsed) = {} THEN Len(stages) ELSE Min(Pending(stages, elapsed))

\* from + (to - from) * x/d, rounded to the nearest integer.
Interpolate(from, to, x, d) == (2 * (from * (d - x) + to * x) + d) \div (2 * d)

\* Mutant of PreviousTarget: every stage ramps up from nothing.
AlwaysZero(stages, i) == 0

PreviousTarget(stages, i) == IF i = 1 THEN 0 ELSE stages[i - 1].target

\* target_vus_at: 0 once the curve is complete (or has no stage).
TargetVusAt(stages, elapsed) ==
    IF Pending(stages, elapsed) = {} THEN 0
    ELSE LET i == Min(Pending(stages, elapsed))
         IN  IF RampOf(stages[i]) = "step" THEN stages[i].target
             ELSE Interpolate(PreviousTarget(stages, i), stages[i].target,
                              elapsed - EndOf(stages, i - 1), stages[i].duration)

\* LoadCurve::validate.  A stage may last no time at all.
Valid(stages) ==
    /\ stages # <<>>
    /\ Len(stages) <= MaxStages
    /\ \A i \in DOMAIN stages : stages[i].target <= MaxVus

\* peak_vus of execute_curve.
Peak(stages) == Max({stages[i].target : i \in DOMAIN stages})
=============================================================================
