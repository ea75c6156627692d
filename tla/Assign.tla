------------------------------- MODULE Assign -------------------------------
(***************************************************************************)
(* assign_scenario (lmn-core/src/execution/mod.rs): the weighted          *)
(* round-robin that gives a VU its scenario.  Scenarios are numbered from *)
(* 1; VU indices start at 0 as in the code.                               *)
(***************************************************************************)
EXTENDS Naturals, Sequences, SequencesExt, FiniteSetsExt, Functions

CONSTANT U64Max     \* where the running sums saturate (u64::MAX, scaled)

ASSUME WidthAssumption == U64Max \in Nat

\* What saturating_add makes of a sum, however many times it is applied.
Saturated(sum) == IF sum > U64Max THEN U64Max ELSE sum

\* Sum of the first i weights.
Cumulative(ws, i) == Saturated(SumFunctionOnSet(ws, 1..i))

InSlot(slot, ws, i) == slot < Cumulative(ws, i)

\* Mutant of AssignScenario: the index of the scenario is off by one.
AssignNext(index, ws) ==
    LET total == Cumulative(ws, Len(ws))
    IN  Min({i \in DOMAIN ws : InSlot(index % total, ws, i)}) + 1

AssignScenario(index, ws) ==
    LET total == Cumulative(ws, Len(ws))
        fits  == {i \in DOMAIN ws : InSlot(index % total, ws, i)}
    IN  CASE total = 0 -> (index % Len(ws)) + 1
          [] total # 0 /\ fits # {} -> Min(fits)
          [] OTHER -> Len(ws)
=============================================================================
