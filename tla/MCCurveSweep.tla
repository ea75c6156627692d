---------------------------- MODULE MCCurveSweep ----------------------------
\* All curves of up to three stages of 0, 1 or 3 units and targets 0, 1 or 4;
\* 5 exceeds MaxVus and must be refused.
EXTENDS CurveSweep

MCStages == [duration : {0, 1, 3}, target : {0, 1, 4, 5}, ramp : {"linear", "step"}]
MCCurves == BoundedSeq(MCStages, 2)
                \cup [1..3 -> [duration : {0, 3}, target : {1, 4}, ramp : Ramps]]
=============================================================================
