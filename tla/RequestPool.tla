---------------------------- MODULE RequestPool ----------------------------
(***************************************************************************)
(* What a fixed-count run promises, with no task, channel or drain in     *)
(* sight (docs: lmn-core/src/execution/fixed/mod.rs, "self-terminate when *)
(* the budget is exhausted").  A pool of Total units; each is taken at    *)
(* most once and then counted or lost; the report is made when no taken   *)
(* unit is outstanding, and unless the run was interrupted only when the  *)
(* pool is empty.  FixedRun implements this module (PoolSpec there).      *)
(***************************************************************************)
EXTENDS Naturals

CONSTANTS
    Total,       \* units in the pool, a natural number
    Staffed,     \* whether there is any worker to take them
    MayFail      \* whether the run may fail instead of reporting

VARIABLES
    free,        \* units nobody has taken
    held,        \* units taken and not yet settled
    counted,     \* units in the report's total
    dropped,     \* units that will never be counted
    interrupted, \* the user asked the run to stop
    report       \* "pending", "stats" or "error", with the reported total

poolVars == <<free, held, counted, dropped, interrupted, report>>

Init ==
    /\ free = Total
    /\ held = 0 /\ counted = 0 /\ dropped = 0
    /\ interrupted = FALSE
    /\ report = [kind |-> "pending", total |-> 0]

Open == report.kind = "pending"

Take ==
    /\ Open /\ free > 0
    /\ free' = free - 1 /\ held' = held + 1
    /\ UNCHANGED <<counted, dropped, interrupted, report>>

Count ==
    /\ Open /\ held > 0
    /\ held' = held - 1 /\ counted' = counted + 1
    /\ UNCHANGED <<free, dropped, interrupted, report>>

Drop ==
    /\ Open
    /\ \E k \in 1..held : held' = held - k /\ dropped' = dropped + k
    /\ UNCHANGED <<free, counted, interrupted, report>>

Interrupt ==
    /\ Open /\ ~interrupted
    /\ interrupted' = TRUE
    /\ UNCHANGED <<free, held, counted, dropped, report>>

Report ==
    /\ Open /\ held = 0
    /\ free = 0 \/ interrupted \/ ~Staffed
    /\ report' = [kind |-> "stats", total |-> counted]
    /\ UNCHANGED <<free, held, counted, dropped, interrupted>>

Fail ==
    /\ MayFail
    /\ Open /\ held = 0
    /\ report' = [kind |-> "error", total |-> 0]
    /\ UNCHANGED <<free, held, counted, dropped, interrupted>>

Next == Take \/ Count \/ Drop \/ Interrupt \/ Report \/ Fail

Spec == Init /\ [][Next]_poolVars
=============================================================================
