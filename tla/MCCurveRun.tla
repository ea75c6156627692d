----------------------------- MODULE MCCurveRun -----------------------------
\* Up, over a stage that lasts no time, down, and up again.
EXTENDS CurveRun

MCUpDownUp ==
    <<[duration |-> 1, target |-> 2, ramp |-> "step"],
      [duration |-> 0, target |-> 0, ramp |-> "linear"],
      [duration |-> 1, target |-> 1, ramp |-> "step"],
      [duration |-> 1, target |-> 2, ramp |-> "step"]>>
=============================================================================
