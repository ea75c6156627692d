----------------------------- MODULE CurveSweep -----------------------------
(***************************************************************************)
(* A clock sweeping over load curves: what TargetVusAt and StageIndexAt   *)
(* return from the first instant of a curve to beyond its end.  This is   *)
(* how the curve executor evaluates them, at ever later instants of one   *)
(* curve that validate() accepted.                                        *)
(***************************************************************************)
EXTENDS LoadCurve

CONSTANTS
    Curves,    \* the curves considered
    Overtime   \* bound: how far beyond the end of a curve the clock goes

ASSUME SweepAssumption == Curves \subseteq Seq(Stage) /\ Overtime \in Nat

VARIABLES curve, elapsed

SweepInit ==
    /\ curve \in {c \in Curves : Valid(c)}
    /\ elapsed = 0

Sweep ==
    /\ elapsed < TotalDuration(curve) + Overtime
    /\ elapsed' = elapsed + 1
    /\ UNCHANGED curve

SweepSpec == SweepInit /\ [][Sweep]_<<curve, elapsed>>

-----------------------------------------------------------------------------
Target == TargetVusAt(curve, elapsed)
Current == StageIndexAt(curve, elapsed)
From == IF Current = 1 THEN 0 ELSE curve[Current - 1].target
To == curve[Current].target

\* An instant belongs to the one stage whose half-open interval contains it:
\* a stage of no duration owns no instant, and no stage owns two.
\* About: stage_index_at with zero-length stages and at stage boundaries.
StageOwnsInstant ==
    elapsed < TotalDuration(curve) =>
        /\ EndOf(curve, Current) - curve[Current].duration <= elapsed
        /\ elapsed < EndOf(curve, Current)

\* While the curve runs, the target is that of the stage to which a record
\* completed at this instant is attributed, or off the straight line from the
\* stage before it by at most a half: the two walks over the stages agree.
\* About: the interpolation in target_vus_at against stage_index_at.
RampIsLinear ==
    elapsed < TotalDuration(curve) =>
        LET d == curve[Current].duration
            x == elapsed - EndOf(curve, Current - 1)
            exact == (From * (d - x)) + (To * x)   \* d times the line's value
        IN  IF RampOf(curve[Current]) = "linear"
              THEN /\ 2 * (Target * d - exact) <= d
                   /\ 2 * (exact - Target * d) <= d
              ELSE Target = To
=============================================================================
