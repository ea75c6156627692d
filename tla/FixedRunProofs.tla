--------------------------- MODULE FixedRunProofs ---------------------------
(***************************************************************************)
(* Proofs about FixedRun, for every number of VUs, every budget and every *)
(* rate.  The argument: the parts of IInv are inductive relative to each  *)
(* other, each is preserved action by action, and the properties follow.  *)
(***************************************************************************)
EXTENDS FixedRun, FiniteSetTheorems, SequenceTheorems, TLAPS

-----------------------------------------------------------------------------
(* Lemmas about the helpers *)

\* Recording keeps a counter set a counter set and adds one to its total.
LEMMA RecordRequestType ==
    ASSUME NEW s \in Stats, NEW outcome
    PROVE  /\ RecordRequest(s, outcome) \in Stats
           /\ RecordRequest(s, outcome).total = s.total + 1
BY DEF RecordRequest, Stats

\* A fresh accumulator holds nothing.
LEMMA EmptyStatsType == EmptyStats \in Stats /\ EmptyStats.total = 0
BY DEF EmptyStats, Stats

\* The VUs that an assignment of states f puts into one of the states W.
Occupied(f, W) == {v \in VUs : f[v] \in W}

\* There are finitely many of them, so that they can be counted.
LEMMA OccupiedFinite ==
    ASSUME NEW f, NEW W
    PROVE  IsFiniteSet(Occupied(f, W)) /\ Cardinality(Occupied(f, W)) \in Nat
<1>1. IsFiniteSet(VUs)
    BY FS_Interval, CountsAssumption DEF VUs
<1>2. Occupied(f, W) \in SUBSET VUs
    BY DEF Occupied
<1>3. IsFiniteSet(Occupied(f, W))
    BY <1>1, <1>2, FS_Subset
<1> QED
    BY <1>3, FS_CardinalityType

\* One VU changes its state: the number of VUs in the states W changes by at
\* most one, as the old and the new state tell.
Moves(f, g, v, s) ==
    f \in [VUs -> VUStates] /\ v \in VUs /\ g = [f EXCEPT ![v] = s]

\* One VU moves: the number of VUs in the states of W changes with it.
LEMMA OccupiedMove ==
    ASSUME NEW f, NEW g, NEW v, NEW s, Moves(f, g, v, s), NEW W
    PROVE  Cardinality(Occupied(g, W)) =
             IF f[v] \in W
               THEN IF s \in W THEN Cardinality(Occupied(f, W))
                               ELSE Cardinality(Occupied(f, W)) - 1
               ELSE IF s \in W THEN Cardinality(Occupied(f, W)) + 1
                               ELSE Cardinality(Occupied(f, W))
<1> DEFINE A == Occupied(f, W)
           B == Occupied(g, W)
<1>1. IsFiniteSet(A)
    BY OccupiedFinite
<1>2. B = IF s \in W THEN A \cup {v} ELSE A \ {v}
    BY DEF Occupied, Moves
<1>3. v \in A <=> f[v] \in W
    BY DEF Occupied, Moves
<1> HIDE DEF A, B
<1>4. Cardinality(A \cup {v}) = IF v \in A THEN Cardinality(A) ELSE Cardinality(A) + 1
    BY <1>1, FS_AddElement
<1>5. Cardinality(A \ {v}) = IF v \in A THEN Cardinality(A) - 1 ELSE Cardinality(A)
    BY <1>1, FS_RemoveElement
<1>6. Cardinality(B) = IF f[v] \in W THEN IF s \in W THEN Cardinality(A) ELSE Cardinality(A) - 1
                                     ELSE IF s \in W THEN Cardinality(A) + 1 ELSE Cardinality(A)
    BY <1>2, <1>3, <1>4, <1>5
<1> QED
    BY <1>6 DEF A, B

\* What FixedRun counts is the case f = vu.
LEMMA InOccupied ==
    ASSUME NEW W
    PROVE  In(W) = Occupied(vu, W) /\ In(W)' = Occupied(vu', W)
BY DEF In, Occupied

-----------------------------------------------------------------------------
(* Type correctness *)

\* The variables start with their types.
LEMMA TypeInit == Init => TypeOK
<1> SUFFICES ASSUME Init PROVE TypeOK
    OBVIOUS
<1>1. <<>> \in Seq({"ok", "failed"})
    OBVIOUS
<1>2. Pending \in [kind : {"pending", "stats", "error"}, stats : Stats]
    BY EmptyStatsType DEF Pending
<1>3. vu \in [VUs -> VUStates]
    BY DEF Init, VUStates
<1>4. budget \in 0..Total /\ tokens \in 0..Rps /\ cursor \in 1..(Concurrency + 1)
    BY CountsAssumption, RateAssumption DEF Init, Limited
<1> QED
    BY <1>1, <1>2, <1>3, <1>4, EmptyStatsType DEF Init, TypeOK

\* Every step keeps the types: the budget is only taken from when there is a
\* unit left, and the bucket only refilled when it is not full.
LEMMA TypeNext == TypeOK /\ [Next]_vars => TypeOK'
<1> SUFFICES ASSUME TypeOK, [Next]_vars PROVE TypeOK'
    OBVIOUS
<1> USE CountsAssumption, RateAssumption DEF TypeOK, VUStates
<1>1. ASSUME NEW v \in VUs, Claim(v) PROVE TypeOK'
    BY <1>1 DEF Claim, UnitsLeft
<1>2. ASSUME NEW v \in VUs, BudgetExhausted(v) PROVE TypeOK'
    BY <1>2 DEF BudgetExhausted
<1>3. ASSUME NEW v \in VUs, AcquirePermit(v) PROVE TypeOK'
    BY <1>3 DEF AcquirePermit
<1>4. ASSUME NEW v \in VUs, Dispatch(v) PROVE TypeOK'
    BY <1>4 DEF Dispatch
<1>5. ASSUME NEW v \in VUs, RenderFails(v) PROVE TypeOK'
    BY <1>5 DEF RenderFails
<1>6. ASSUME NEW v \in VUs, Abandon(v) PROVE TypeOK'
    BY <1>6 DEF Abandon
<1>7. ASSUME NEW v \in VUs, NEW outcome \in {"ok", "failed"}, Complete(v, outcome)
      PROVE  TypeOK'
    BY <1>7 DEF Complete
<1>8. CASE Receive
  <2>1. chan' \in Seq({"ok", "failed"})
    BY <1>8 DEF Receive
  <2> QED
    BY <1>8, <2>1, RecordRequestType DEF Receive
<1>9. CASE DrainEnds
    BY <1>9 DEF DrainEnds
<1>10. CASE DrainPanics
  <2>1. Len(chan) \in Nat /\ <<>> \in Seq({"ok", "failed"})
    OBVIOUS
  <2> QED
    BY <1>10, <2>1 DEF DrainPanics
<1>11. CASE SpawnVU
    BY <1>11 DEF SpawnVU, VUs
<1>12. CASE DropSender
  <2>1. 1 \in 1..(Concurrency + 1)
    OBVIOUS
  <2> QED
    BY <1>12, <2>1 DEF DropSender
<1>13. CASE JoinVU
    BY <1>13 DEF JoinVU
<1>14. CASE JoinDrain
    BY <1>14, EmptyStatsType DEF JoinDrain
<1>15. CASE CtrlC
    BY <1>15 DEF CtrlC
<1>16. CASE Refill
    BY <1>16 DEF Refill
<1>17. CASE UNCHANGED vars
    BY <1>17 DEF vars
<1> QED
    BY <1>1, <1>2, <1>3, <1>4, <1>5, <1>6, <1>7, <1>8, <1>9, <1>10, <1>11, <1>12,
       <1>13, <1>14, <1>15, <1>16, <1>17
    DEF Next, VUStep, Answer, CancelAtPermit, CancelInFlight, DrainStep,
        CoordinatorStep, Finished

\* Every variable keeps its type: in particular the shared budget never
\* underflows and the bucket never overfills.
\* About: claim_budget and RpsLimiter.
THEOREM TypeCorrect == Spec => []TypeOK
BY TypeInit, TypeNext, PTL DEF Spec

-----------------------------------------------------------------------------
(* The inductive invariant *)

\* The counting parts of IInv, over the sets they count.
Held(f) == Cardinality(Occupied(f, {"permit", "render", "inflight"}))
Unsent(f) == Cardinality(Occupied(f, {"permit", "render"}))
Rendering(f) == Cardinality(Occupied(f, {"render"}))

\* The counts are natural numbers.
LEMMA CountsType ==
    /\ Held(vu) \in Nat /\ Unsent(vu) \in Nat /\ Rendering(vu) \in Nat
    /\ Held(vu') \in Nat /\ Unsent(vu') \in Nat /\ Rendering(vu') \in Nat
BY OccupiedFinite DEF Held, Unsent, Rendering

\* They are the cardinalities that the invariant speaks of.
LEMMA CountsAre ==
    /\ Cardinality(Holding) = Held(vu) /\ Cardinality(Holding)' = Held(vu')
    /\ Cardinality(In({"permit", "render"})) = Unsent(vu)
    /\ Cardinality(In({"permit", "render"}))' = Unsent(vu')
    /\ Cardinality(In({"render"})) = Rendering(vu)
    /\ Cardinality(In({"render"}))' = Rendering(vu')
BY InOccupied DEF Holding, Held, Unsent, Rendering

\* How the counts change when VU v moves from the state it is in to s, in the
\* five kinds of step that a VU takes.
LEMMA CountsMove ==
    ASSUME NEW v, NEW s, Moves(vu, vu', v, s)
    PROVE  /\ vu[v] \in {"unborn", "claim", "exited"} /\ s \in {"claim", "exited"} =>
                /\ Held(vu') = Held(vu)
                /\ Unsent(vu') = Unsent(vu)
                /\ Rendering(vu') = Rendering(vu)
           /\ vu[v] = "claim" /\ s \in {"permit", "render"} =>
                /\ Held(vu') = Held(vu) + 1
                /\ Unsent(vu') = Unsent(vu) + 1
                /\ s = "permit" => Rendering(vu') = Rendering(vu)
           /\ vu[v] = "permit" /\ s = "render" =>
                /\ Held(vu') = Held(vu)
                /\ Unsent(vu') = Unsent(vu)
                /\ Rendering(vu') = Rendering(vu) + 1
           /\ vu[v] = "render" /\ s = "inflight" =>
                /\ Held(vu') = Held(vu)
                /\ Unsent(vu') = Unsent(vu) - 1
                /\ Rendering(vu') = Rendering(vu) - 1
           /\ vu[v] \in {"permit", "render", "inflight"} /\ s \in {"claim", "exited"} =>
                /\ Held(vu') = Held(vu) - 1
                /\ Unsent(vu') = IF vu[v] = "inflight" THEN Unsent(vu) ELSE Unsent(vu) - 1
                /\ Rendering(vu') = IF vu[v] = "render" THEN Rendering(vu) - 1 ELSE Rendering(vu)
<1> DEFINE Shift(n, W) == IF vu[v] \in W THEN IF s \in W THEN n ELSE n - 1
                                         ELSE IF s \in W THEN n + 1 ELSE n
<1>1. Held(vu') = Shift(Held(vu), {"permit", "render", "inflight"})
    BY OccupiedMove DEF Held
<1>2. Unsent(vu') = Shift(Unsent(vu), {"permit", "render"})
    BY OccupiedMove DEF Unsent
<1>3. Rendering(vu') = Shift(Rendering(vu), {"render"})
    BY OccupiedMove DEF Rendering
<1> QED
    BY <1>1, <1>2, <1>3

\* A VU that is neither unborn nor gone: the run is not over, and the
\* coordinator has spawned it and not joined it.
LEMMA ActiveVU ==
    ASSUME TypeOK, CoordinatorOrder, DrainClosed,
           NEW v \in VUs, vu[v] \notin {"unborn", "exited"}
    PROVE  /\ co # "returned" /\ drain # "done"
           /\ co = "spawning" => v < cursor
           /\ co = "joining" => v >= cursor
BY DEF TypeOK, CoordinatorOrder, DrainClosed, Closed, Exited, VUs

\* The invariant holds before the first step: nobody has claimed anything.
LEMMA InvInit == Init => IInv
<1> SUFFICES ASSUME Init PROVE IInv
    OBVIOUS
<1>1. TypeOK
    BY TypeInit
<1>2. \A W \in {{"permit", "render", "inflight"}, {"permit", "render"}, {"render"}} :
          Occupied(vu, W) = {}
    BY DEF Init, Occupied
<1>3. Held(vu) = 0 /\ Unsent(vu) = 0 /\ Rendering(vu) = 0
    BY <1>2, FS_EmptySet DEF Held, Unsent, Rendering
<1>4. CoordinatorOrder /\ DrainClosed /\ ExitCause /\ LossCause /\ ResultOfDrain
    BY DEF Init, CoordinatorOrder, DrainClosed, ExitCause, LossCause, ResultOfDrain,
        Closed, Exited
<1>5. Ledger
    BY <1>3, CountsAre, EmptyStatsType, CountsAssumption DEF Init, Ledger
<1>6. StartedWithinBudget /\ StartedWithPermit
    BY <1>3, CountsAre, CountsAssumption, RateAssumption
    DEF Init, StartedWithinBudget, StartedWithPermit
<1> QED
    BY <1>1, <1>4, <1>5, <1>6 DEF IInv

\* The three counts, and the three parts of IInv that speak of them, as the
\* steps of the VUs need them.
CountsOK ==
    /\ Total - budget = Held(vu) + Len(chan) + acc.total + lost
    /\ dispatched + Unsent(vu) + budget <= Total
    /\ Limited => dispatched + Rendering(vu) + tokens <= Rps + refills

\* CountsOK is what the three parts say, now and in the next state.
LEMMA CountsOKIsThem ==
    /\ CountsOK <=> Ledger /\ StartedWithinBudget /\ StartedWithPermit
    /\ CountsOK' <=> (Ledger /\ StartedWithinBudget /\ StartedWithPermit)'
BY CountsAre DEF CountsOK, Ledger, StartedWithinBudget, StartedWithPermit

\* What every step of a VU keeps when it does not end: the order in which the
\* coordinator works, and the drain's condition.
LEMMA VUKeepsOrder ==
    ASSUME TypeOK, CoordinatorOrder, DrainClosed,
           NEW v \in VUs, vu[v] \notin {"unborn", "exited"},
           NEW s, vu' = [vu EXCEPT ![v] = s],
           UNCHANGED <<co, cursor, txHeld, drain>>,
           drain = "panicked" => chan' = chan
    PROVE  CoordinatorOrder' /\ DrainClosed'
<1>1. /\ co # "returned" /\ drain # "done"
      /\ co = "spawning" => v < cursor
      /\ co = "joining" => v >= cursor
    BY ActiveVU
<1>2. \A w \in VUs : w # v => vu'[w] = vu[w]
    BY DEF TypeOK
<1>3. v \in Nat /\ cursor \in Nat
    BY CountsAssumption DEF TypeOK, VUs
<1>4. CoordinatorOrder'
    BY <1>1, <1>2, <1>3 DEF CoordinatorOrder, Exited
<1>5. DrainClosed'
    BY <1>1 DEF DrainClosed
<1> QED
    BY <1>4, <1>5

\* Every step keeps the invariant: one case per action, and under it the parts
\* the action can disturb.
LEMMA InvNext == IInv /\ [Next]_vars => IInv'
<1> SUFFICES ASSUME IInv, [Next]_vars PROVE IInv'
    OBVIOUS
<1>types. TypeOK /\ TypeOK'
    BY TypeNext DEF IInv
<1> USE CountsAssumption, RateAssumption
\* The numbers of the ledger, before and after the step, as plain naturals.
<1>nat.
      /\ budget \in Nat /\ tokens \in Nat /\ lost \in Nat /\ dispatched \in Nat
      /\ refills \in Nat /\ acc.total \in Nat /\ Len(chan) \in Nat
    BY <1>types DEF TypeOK, Stats
<1>natNext.
      /\ budget' \in Nat /\ tokens' \in Nat /\ lost' \in Nat /\ dispatched' \in Nat
      /\ refills' \in Nat /\ acc'.total \in Nat /\ Len(chan') \in Nat
    BY <1>types DEF TypeOK, Stats
<1>parts. CoordinatorOrder /\ DrainClosed /\ ExitCause /\ LossCause /\ ResultOfDrain
    BY DEF IInv
\* Short names for the counts, so that the arithmetic below is linear.
<1>now. PICK h \in Nat, u \in Nat, r \in Nat, n \in Nat, t \in Nat :
        /\ h = Held(vu) /\ u = Unsent(vu) /\ r = Rendering(vu)
        /\ n = Len(chan) /\ t = acc.total
    BY <1>nat, CountsType
<1>next. PICK h2 \in Nat, u2 \in Nat, r2 \in Nat, n2 \in Nat, t2 \in Nat :
        /\ h2 = Held(vu') /\ u2 = Unsent(vu') /\ r2 = Rendering(vu')
        /\ n2 = Len(chan') /\ t2 = acc'.total
    BY <1>natNext, CountsType
<1>counts.
      /\ Total - budget = h + n + t + lost
      /\ dispatched + u + budget <= Total
      /\ Limited => dispatched + r + tokens <= Rps + refills
    BY <1>now, CountsOKIsThem, Zenon DEF IInv, CountsOK
\* It is enough to show the three counts, by their short names, after the step.
<1>keep.
      ASSUME Total - budget' = h2 + n2 + t2 + lost',
             dispatched' + u2 + budget' <= Total,
             Limited => dispatched' + r2 + tokens' <= Rps + refills'
      PROVE  CountsOK'
    BY <1>next, <1>keep, Zenon DEF CountsOK, Limited
<1>1. ASSUME NEW v \in VUs, Claim(v) PROVE IInv'
  <2>1. PICK s \in {"permit", "render"} :
          /\ vu' = [vu EXCEPT ![v] = s] /\ Moves(vu, vu', v, s)
          /\ vu[v] = "claim" /\ (Limited => s = "permit")
    BY <1>types, <1>1 DEF Claim, Moves, TypeOK
  <2>2. CoordinatorOrder' /\ DrainClosed'
    BY <1>types, <1>parts, <1>1, <2>1, VUKeepsOrder DEF Claim
  <2>3. ExitCause'
    BY <1>types, <1>parts, <1>1, <2>1
    DEF Claim, TypeOK, ExitCause, Exited, UnitsLeft
  <2>4. LossCause' /\ ResultOfDrain'
    BY <1>types, <1>parts, <1>1 DEF Claim, TypeOK, LossCause, ResultOfDrain
  <2>5. h2 = h + 1 /\ u2 = u + 1 /\ (Limited => r2 = r)
    BY <1>now, <1>next, <2>1, CountsMove
  <2>6. /\ budget > 0 /\ budget' = budget - 1
        /\ n2 = n /\ t2 = t /\ UNCHANGED <<lost, dispatched, tokens, refills>>
    BY <1>now, <1>next, <1>1 DEF Claim, UnitsLeft
  <2>7. CountsOK'
    BY <1>nat, <1>counts, <1>natNext, <1>keep, <2>5, <2>6
  <2> QED
    BY <1>types, <2>2, <2>3, <2>4, <2>7, CountsOKIsThem DEF IInv
<1>2. ASSUME NEW v \in VUs, BudgetExhausted(v) PROVE IInv'
  <2>1. vu' = [vu EXCEPT ![v] = "exited"] /\ Moves(vu, vu', v, "exited")
    BY <1>types, <1>2 DEF BudgetExhausted, Moves, TypeOK
  <2>2. CoordinatorOrder' /\ DrainClosed'
    BY <1>types, <1>parts, <1>2, <2>1, VUKeepsOrder DEF BudgetExhausted
  <2>3. ExitCause'
    BY <1>types, <1>parts, <1>2, <2>1
    DEF BudgetExhausted, TypeOK, ExitCause, Exited, UnitsLeft
  <2>4. LossCause' /\ ResultOfDrain'
    BY <1>types, <1>parts, <1>2
    DEF BudgetExhausted, TypeOK, LossCause, ResultOfDrain
  <2>5. h2 = h /\ u2 = u /\ r2 = r
    BY <1>now, <1>next, <1>2, <2>1, CountsMove DEF BudgetExhausted
  <2>6. n2 = n /\ t2 = t /\ UNCHANGED <<budget, lost, dispatched, tokens, refills>>
    BY <1>now, <1>next, <1>2 DEF BudgetExhausted
  <2>7. CountsOK'
    BY <1>nat, <1>counts, <1>natNext, <1>keep, <2>5, <2>6
  <2> QED
    BY <1>types, <2>2, <2>3, <2>4, <2>7, CountsOKIsThem DEF IInv
<1>3. ASSUME NEW v \in VUs, AcquirePermit(v) PROVE IInv'
  <2>1. vu' = [vu EXCEPT ![v] = "render"] /\ Moves(vu, vu', v, "render")
    BY <1>types, <1>3 DEF AcquirePermit, Moves, TypeOK
  <2>2. CoordinatorOrder' /\ DrainClosed'
    BY <1>types, <1>parts, <1>3, <2>1, VUKeepsOrder DEF AcquirePermit
  <2>3. ExitCause'
    BY <1>types, <1>parts, <1>3, <2>1 DEF AcquirePermit, TypeOK, ExitCause, Exited
  <2>4. LossCause' /\ ResultOfDrain'
    BY <1>types, <1>parts, <1>3 DEF AcquirePermit, TypeOK, LossCause, ResultOfDrain
  <2>5. h2 = h /\ u2 = u /\ r2 = r + 1
    BY <1>now, <1>next, <1>3, <2>1, CountsMove DEF AcquirePermit
  <2>6. /\ tokens > 0 /\ tokens' = tokens - 1
        /\ n2 = n /\ t2 = t /\ UNCHANGED <<budget, lost, dispatched, refills>>
    BY <1>now, <1>next, <1>3 DEF AcquirePermit
  <2>7. CountsOK'
    BY <1>nat, <1>counts, <1>natNext, <1>keep, <2>5, <2>6
  <2> QED
    BY <1>types, <2>2, <2>3, <2>4, <2>7, CountsOKIsThem DEF IInv
<1>4. ASSUME NEW v \in VUs, Dispatch(v) PROVE IInv'
  <2>1. vu' = [vu EXCEPT ![v] = "inflight"] /\ Moves(vu, vu', v, "inflight")
    BY <1>types, <1>4 DEF Dispatch, Moves, TypeOK
  <2>2. CoordinatorOrder' /\ DrainClosed'
    BY <1>types, <1>parts, <1>4, <2>1, VUKeepsOrder DEF Dispatch
  <2>3. ExitCause'
    BY <1>types, <1>parts, <1>4, <2>1 DEF Dispatch, TypeOK, ExitCause, Exited
  <2>4. LossCause' /\ ResultOfDrain'
    BY <1>types, <1>parts, <1>4 DEF Dispatch, TypeOK, LossCause, ResultOfDrain
  <2>5. h2 = h /\ u2 = u - 1 /\ r2 = r - 1
    BY <1>now, <1>next, <1>4, <2>1, CountsMove DEF Dispatch
  <2>6. /\ dispatched' = dispatched + 1
        /\ n2 = n /\ t2 = t /\ UNCHANGED <<budget, lost, tokens, refills>>
    BY <1>now, <1>next, <1>4 DEF Dispatch
  <2>7. CountsOK'
    BY <1>nat, <1>counts, <1>natNext, <1>keep, <2>5, <2>6
  <2> QED
    BY <1>types, <2>2, <2>3, <2>4, <2>7, CountsOKIsThem DEF IInv
<1>5. ASSUME NEW v \in VUs, RenderFails(v) PROVE IInv'
  <2>1. vu' = [vu EXCEPT ![v] = "claim"] /\ Moves(vu, vu', v, "claim")
    BY <1>types, <1>5 DEF RenderFails, Moves, TypeOK
  <2>2. CoordinatorOrder' /\ DrainClosed'
    BY <1>types, <1>parts, <1>5, <2>1, VUKeepsOrder DEF RenderFails
  <2>3. ExitCause'
    BY <1>types, <1>parts, <1>5, <2>1 DEF RenderFails, TypeOK, ExitCause, Exited
  <2>4. LossCause' /\ ResultOfDrain'
    BY <1>types, <1>parts, <1>5 DEF RenderFails, TypeOK, LossCause, ResultOfDrain
  <2>5. h2 = h - 1 /\ u2 = u - 1 /\ r2 = r - 1
    BY <1>now, <1>next, <1>5, <2>1, CountsMove DEF RenderFails
  <2>6. /\ lost' = lost + 1
        /\ n2 = n /\ t2 = t /\ UNCHANGED <<budget, dispatched, tokens, refills>>
    BY <1>now, <1>next, <1>5 DEF RenderFails
  <2>7. CountsOK'
    BY <1>nat, <1>counts, <1>natNext, <1>keep, <2>5, <2>6
  <2> QED
    BY <1>types, <2>2, <2>3, <2>4, <2>7, CountsOKIsThem DEF IInv
<1>6. ASSUME NEW v \in VUs, vu[v] \in {"permit", "inflight"}, Abandon(v) PROVE IInv'
  <2>1. vu' = [vu EXCEPT ![v] = "exited"] /\ Moves(vu, vu', v, "exited")
    BY <1>types, <1>6 DEF Abandon, Moves, TypeOK
  <2>2. CoordinatorOrder' /\ DrainClosed'
    BY <1>types, <1>parts, <1>6, <2>1, VUKeepsOrder DEF Abandon
  <2>3. ExitCause'
    BY <1>types, <1>parts, <1>6, <2>1 DEF Abandon, TypeOK, ExitCause, Exited
  <2>4. LossCause' /\ ResultOfDrain'
    BY <1>types, <1>parts, <1>6 DEF Abandon, TypeOK, LossCause, ResultOfDrain
  <2>5. h2 = h - 1 /\ u2 \in {u, u - 1} /\ r2 = r
    BY <1>now, <1>next, <1>6, <2>1, CountsMove DEF Abandon
  <2>6. /\ lost' = lost + 1
        /\ n2 = n /\ t2 = t /\ UNCHANGED <<budget, dispatched, tokens, refills>>
    BY <1>now, <1>next, <1>6 DEF Abandon
  <2>7. CountsOK'
    BY <1>nat, <1>counts, <1>natNext, <1>keep, <2>5, <2>6
  <2> QED
    BY <1>types, <2>2, <2>3, <2>4, <2>7, CountsOKIsThem DEF IInv
<1>7. ASSUME NEW v \in VUs, NEW outcome \in {"ok", "failed"},
             Complete(v, outcome) PROVE IInv'
  <2>1. PICK s \in {"claim", "exited"} :
          /\ vu' = [vu EXCEPT ![v] = s] /\ Moves(vu, vu', v, s)
          /\ vu[v] = "inflight"
    BY <1>types, <1>7 DEF Complete, Moves, TypeOK
  <2>2. CoordinatorOrder' /\ DrainClosed'
    BY <1>types, <1>parts, <1>7, <2>1, VUKeepsOrder DEF Complete
  <2>3. ExitCause'
    BY <1>types, <1>parts, <1>7, <2>1 DEF Complete, TypeOK, ExitCause, Exited
  <2>4. LossCause' /\ ResultOfDrain'
    BY <1>types, <1>parts, <1>7 DEF Complete, TypeOK, LossCause, ResultOfDrain
  <2>5. h2 = h - 1 /\ u2 = u /\ r2 = r
    BY <1>now, <1>next, <2>1, CountsMove
  <2>6. /\ (n2 = n /\ lost' = lost + 1) \/ (n2 = n + 1 /\ lost' = lost)
        /\ t2 = t /\ UNCHANGED <<budget, dispatched, tokens, refills>>
    <3>1. chan \in Seq({"ok", "failed"})
        BY <1>types DEF TypeOK
    <3>2. Len(Append(chan, outcome)) = Len(chan) + 1
        BY <3>1, AppendProperties
    <3>3. CASE drain = "panicked"
        BY <1>now, <1>next, <1>7, <3>3 DEF Complete
    <3>4. CASE drain # "panicked"
        BY <1>now, <1>next, <1>7, <3>2, <3>4 DEF Complete
    <3> QED
        BY <3>3, <3>4
  <2>7. CountsOK'
    <3>1. CASE n2 = n /\ lost' = lost + 1
        BY <1>nat, <1>counts, <1>natNext, <1>keep, <2>5, <2>6, <3>1
    <3>2. CASE n2 = n + 1 /\ lost' = lost
        BY <1>nat, <1>counts, <1>natNext, <1>keep, <2>5, <2>6, <3>2
    <3> QED
        BY <2>6, <3>1, <3>2
  <2> QED
    BY <1>types, <2>2, <2>3, <2>4, <2>7, CountsOKIsThem DEF IInv
\* From here on no VU moves, except the one that is spawned.
<1>8. CASE Receive
  <2>1. CoordinatorOrder' /\ DrainClosed'
    BY <1>types, <1>parts, <1>8, HeadTailProperties
    DEF Receive, TypeOK, CoordinatorOrder, DrainClosed, Closed, Exited
  <2>2. ExitCause' /\ LossCause' /\ ResultOfDrain'
    BY <1>types, <1>parts, <1>8, HeadTailProperties
    DEF Receive, TypeOK, CoordinatorOrder, DrainClosed, ExitCause, LossCause, ResultOfDrain, Exited
  <2>3. /\ n2 = n - 1 /\ t2 = t + 1 /\ UNCHANGED <<lost, tokens, refills>>
        /\ h2 = h /\ u2 = u /\ r2 = r /\ UNCHANGED <<budget, dispatched>>
    BY <1>types, <1>now, <1>next, <1>8, RecordRequestType, HeadTailProperties
    DEF Receive, TypeOK
  <2>4. CountsOK'
    BY <1>nat, <1>counts, <1>natNext, <1>keep, <2>3
  <2> QED
    BY <1>types, <2>1, <2>2, <2>4, CountsOKIsThem DEF IInv
<1>9. CASE DrainEnds
  <2>1. CoordinatorOrder' /\ DrainClosed'
    BY <1>types, <1>parts, <1>9
    DEF DrainEnds, TypeOK, CoordinatorOrder, DrainClosed, Closed, Exited
  <2>2. ExitCause' /\ LossCause' /\ ResultOfDrain'
    BY <1>types, <1>parts, <1>9
    DEF DrainEnds, TypeOK, CoordinatorOrder, DrainClosed, ExitCause, LossCause, ResultOfDrain, Exited
  <2>3. /\ n2 = n /\ t2 = t /\ UNCHANGED <<lost, tokens, refills>>
        /\ h2 = h /\ u2 = u /\ r2 = r /\ UNCHANGED <<budget, dispatched>>
    BY <1>types, <1>now, <1>next, <1>9 DEF DrainEnds
  <2>4. CountsOK'
    BY <1>nat, <1>counts, <1>natNext, <1>keep, <2>3
  <2> QED
    BY <1>types, <2>1, <2>2, <2>4, CountsOKIsThem DEF IInv
<1>10. CASE DrainPanics
  <2>1. CoordinatorOrder' /\ DrainClosed'
    BY <1>types, <1>parts, <1>10
    DEF DrainPanics, TypeOK, CoordinatorOrder, DrainClosed, Closed, Exited
  <2>2. ExitCause' /\ LossCause' /\ ResultOfDrain'
    BY <1>types, <1>parts, <1>10
    DEF DrainPanics, TypeOK, CoordinatorOrder, DrainClosed, ExitCause, LossCause, ResultOfDrain, Exited
  <2>3. /\ n2 = 0 /\ lost' = lost + n /\ t2 = t /\ UNCHANGED <<tokens, refills>>
        /\ h2 = h /\ u2 = u /\ r2 = r /\ UNCHANGED <<budget, dispatched>>
    BY <1>types, <1>now, <1>next, <1>10 DEF DrainPanics
  <2>4. CountsOK'
    BY <1>nat, <1>counts, <1>natNext, <1>keep, <2>3
  <2> QED
    BY <1>types, <2>1, <2>2, <2>4, CountsOKIsThem DEF IInv
<1>11. CASE SpawnVU
  <2>1. cursor \in VUs /\ vu[cursor] = "unborn"
    BY <1>types, <1>parts, <1>11 DEF SpawnVU, TypeOK, CoordinatorOrder, VUs
  <2>2. vu' = [vu EXCEPT ![cursor] = "claim"] /\ Moves(vu, vu', cursor, "claim")
    BY <1>types, <1>11, <2>1 DEF SpawnVU, Moves, TypeOK
  <2>3. CoordinatorOrder'
    BY <1>types, <1>parts, <1>11, <2>1, <2>2
    DEF SpawnVU, TypeOK, CoordinatorOrder, VUs
  <2>4. DrainClosed' /\ ResultOfDrain' /\ LossCause'
    BY <1>types, <1>parts, <1>11, <2>1
    DEF SpawnVU, CoordinatorOrder, DrainClosed, Closed, Exited,
       ResultOfDrain, LossCause
  <2>5. ExitCause'
    BY <1>types, <1>parts, <1>11, <2>1, <2>2 DEF SpawnVU, TypeOK, ExitCause, Exited
  <2>6. h2 = h /\ u2 = u /\ r2 = r
    BY <1>now, <1>next, <2>1, <2>2, CountsMove
  <2>7. n2 = n /\ t2 = t /\ UNCHANGED <<budget, lost, dispatched, tokens, refills>>
    BY <1>now, <1>next, <1>11 DEF SpawnVU
  <2>8. CountsOK'
    BY <1>nat, <1>counts, <1>natNext, <1>keep, <2>6, <2>7
  <2> QED
    BY <1>types, <2>3, <2>4, <2>5, <2>8, CountsOKIsThem DEF IInv
<1>12. CASE DropSender
  <2>1. CoordinatorOrder' /\ DrainClosed'
    BY <1>types, <1>parts, <1>12
    DEF DropSender, TypeOK, CoordinatorOrder, DrainClosed, Closed, Exited, VUs
  <2>2. ExitCause' /\ LossCause' /\ ResultOfDrain'
    BY <1>types, <1>parts, <1>12
    DEF DropSender, TypeOK, CoordinatorOrder, DrainClosed, ExitCause, LossCause, ResultOfDrain, Exited
  <2>3. /\ n2 = n /\ t2 = t /\ UNCHANGED <<lost, tokens, refills>>
        /\ h2 = h /\ u2 = u /\ r2 = r /\ UNCHANGED <<budget, dispatched>>
    BY <1>types, <1>now, <1>next, <1>12 DEF DropSender
  <2>4. CountsOK'
    BY <1>nat, <1>counts, <1>natNext, <1>keep, <2>3
  <2> QED
    BY <1>types, <2>1, <2>2, <2>4, CountsOKIsThem DEF IInv
<1>13. CASE JoinVU
  <2>1. CoordinatorOrder' /\ DrainClosed'
    BY <1>types, <1>parts, <1>13
    DEF JoinVU, TypeOK, CoordinatorOrder, DrainClosed, Closed, Exited, VUs
  <2>2. ExitCause' /\ LossCause' /\ ResultOfDrain'
    BY <1>types, <1>parts, <1>13
    DEF JoinVU, TypeOK, CoordinatorOrder, DrainClosed, ExitCause, LossCause, ResultOfDrain, Exited
  <2>3. /\ n2 = n /\ t2 = t /\ UNCHANGED <<lost, tokens, refills>>
        /\ h2 = h /\ u2 = u /\ r2 = r /\ UNCHANGED <<budget, dispatched>>
    BY <1>types, <1>now, <1>next, <1>13 DEF JoinVU
  <2>4. CountsOK'
    BY <1>nat, <1>counts, <1>natNext, <1>keep, <2>3
  <2> QED
    BY <1>types, <2>1, <2>2, <2>4, CountsOKIsThem DEF IInv
<1>14. CASE JoinDrain
  <2>1. CoordinatorOrder' /\ DrainClosed'
    BY <1>types, <1>parts, <1>14
    DEF JoinDrain, TypeOK, CoordinatorOrder, DrainClosed, Closed, Exited, VUs
  <2>2. ExitCause' /\ LossCause' /\ ResultOfDrain'
    BY <1>types, <1>parts, <1>14
    DEF JoinDrain, TypeOK, CoordinatorOrder, DrainClosed, ExitCause, LossCause, ResultOfDrain, Exited
  <2>3. /\ n2 = n /\ t2 = t /\ UNCHANGED <<lost, tokens, refills>>
        /\ h2 = h /\ u2 = u /\ r2 = r /\ UNCHANGED <<budget, dispatched>>
    BY <1>types, <1>now, <1>next, <1>14 DEF JoinDrain
  <2>4. CountsOK'
    BY <1>nat, <1>counts, <1>natNext, <1>keep, <2>3
  <2> QED
    BY <1>types, <2>1, <2>2, <2>4, CountsOKIsThem DEF IInv
<1>15. CASE CtrlC
  <2>1. CoordinatorOrder' /\ DrainClosed'
    BY <1>types, <1>parts, <1>15
    DEF CtrlC, TypeOK, CoordinatorOrder, DrainClosed, Closed, Exited
  <2>2. ExitCause' /\ LossCause' /\ ResultOfDrain'
    BY <1>types, <1>parts, <1>15
    DEF CtrlC, TypeOK, CoordinatorOrder, DrainClosed, ExitCause, LossCause, ResultOfDrain, Exited
  <2>3. /\ n2 = n /\ t2 = t /\ UNCHANGED <<lost, tokens, refills>>
        /\ h2 = h /\ u2 = u /\ r2 = r /\ UNCHANGED <<budget, dispatched>>
    BY <1>types, <1>now, <1>next, <1>15 DEF CtrlC
  <2>4. CountsOK'
    BY <1>nat, <1>counts, <1>natNext, <1>keep, <2>3
  <2> QED
    BY <1>types, <2>1, <2>2, <2>4, CountsOKIsThem DEF IInv
<1>16. CASE Refill
  <2>1. CoordinatorOrder' /\ DrainClosed'
    BY <1>types, <1>parts, <1>16
    DEF Refill, TypeOK, CoordinatorOrder, DrainClosed, Closed, Exited
  <2>2. ExitCause' /\ LossCause' /\ ResultOfDrain'
    BY <1>types, <1>parts, <1>16
    DEF Refill, TypeOK, CoordinatorOrder, DrainClosed, ExitCause, LossCause, ResultOfDrain, Exited
  <2>3. /\ tokens' = tokens + 1 /\ refills' = refills + 1
        /\ n2 = n /\ t2 = t /\ UNCHANGED lost
        /\ h2 = h /\ u2 = u /\ r2 = r /\ UNCHANGED <<budget, dispatched>>
    BY <1>types, <1>now, <1>next, <1>16 DEF Refill
  <2>4. CountsOK'
    BY <1>nat, <1>counts, <1>natNext, <1>keep, <2>3
  <2> QED
    BY <1>types, <2>1, <2>2, <2>4, CountsOKIsThem DEF IInv
<1>17. CASE UNCHANGED vars
  <2>1. CoordinatorOrder' /\ DrainClosed'
    BY <1>types, <1>parts, <1>17
    DEF vars, TypeOK, CoordinatorOrder, DrainClosed, Closed, Exited
  <2>2. ExitCause' /\ LossCause' /\ ResultOfDrain'
    BY <1>types, <1>parts, <1>17
    DEF vars, TypeOK, CoordinatorOrder, DrainClosed, ExitCause, LossCause, ResultOfDrain, Exited
  <2>3. /\ n2 = n /\ t2 = t /\ UNCHANGED <<lost, tokens, refills>>
        /\ h2 = h /\ u2 = u /\ r2 = r /\ UNCHANGED <<budget, dispatched>>
    BY <1>types, <1>now, <1>next, <1>17 DEF vars
  <2>4. CountsOK'
    BY <1>nat, <1>counts, <1>natNext, <1>keep, <2>3
  <2> QED
    BY <1>types, <2>1, <2>2, <2>4, CountsOKIsThem DEF IInv
<1> QED
    BY <1>1, <1>2, <1>3, <1>4, <1>5, <1>6, <1>7, <1>8, <1>9, <1>10, <1>11, <1>12,
       <1>13, <1>14, <1>15, <1>16, <1>17
    DEF Next, VUStep, Answer, CancelAtPermit, CancelInFlight, DrainStep,
        CoordinatorStep, Finished

-----------------------------------------------------------------------------
(* What follows from the invariant *)

\* The inductive invariant of the run.
\* About: all of FixedExecutor::execute and Vu::spawn.
THEOREM InvCorrect == Spec => []IInv
BY InvInit, InvNext, PTL DEF Spec

\* No unit of the budget is claimed twice, recorded twice or forgotten.
\* About: claim_budget, the VU loop and the drain loop.
THEOREM LedgerBalances == Spec => []Ledger
<1>1. IInv => Ledger
    BY DEF IInv
<1> QED
    BY <1>1, InvCorrect, PTL

\* Whatever the number of VUs that race for the last unit, no more requests
\* are started than were asked for.
\* About: fetch_update in claim_budget.
THEOREM WithinBudget == Spec => []NeverOverBudget
<1>1. IInv => NeverOverBudget
  <2> SUFFICES ASSUME IInv PROVE NeverOverBudget
      OBVIOUS
  <2>1. /\ dispatched \in Nat /\ budget \in Nat
        /\ dispatched + Unsent(vu) + budget <= Total
      BY CountsAre, CountsAssumption DEF IInv, TypeOK, StartedWithinBudget
  <2> PICK u \in Nat : u = Unsent(vu)
      BY CountsType
  <2>2. dispatched + u + budget <= Total
      BY <2>1, Zenon
  <2> QED
      BY <2>1, <2>2, CountsAssumption DEF NeverOverBudget
<1> QED
    BY <1>1, InvCorrect, PTL

\* Under a limit, the requests started stay within the burst and the refills,
\* whatever the number of VUs.
\* About: the one limiter the VUs share.
THEOREM WithinRate == Spec => []RateCap
<1>1. IInv => RateCap
  <2> SUFFICES ASSUME IInv, Limited PROVE dispatched <= Rps + refills
      BY DEF RateCap
  <2>1. /\ dispatched \in Nat /\ tokens \in Nat /\ refills \in Nat
        /\ dispatched + Rendering(vu) + tokens <= Rps + refills
      BY CountsAre, RateAssumption DEF IInv, TypeOK, StartedWithPermit
  <2> PICK r \in Nat : r = Rendering(vu)
      BY CountsType
  <2>2. dispatched + r + tokens <= Rps + refills
      BY <2>1, Zenon
  <2> QED
      BY <2>1, <2>2, RateAssumption
<1> QED
    BY <1>1, InvCorrect, PTL

\* A run nobody interrupts reports exactly what it was asked for, less the
\* bodies that failed to render.
\* About: the exit condition of the VU loop, and drain_handle.await.
THEOREM UninterruptedIsExact == Spec => []ExactUnlessCancelled
<1>1. IInv => ExactUnlessCancelled
  <2> SUFFICES ASSUME IInv, result.kind = "stats", ~cancelled, Concurrency > 0
               PROVE  /\ result.stats.total = Total - lost
                      /\ ~TemplateMayFail => lost = 0
      BY DEF ExactUnlessCancelled
  <2>1. co = "returned" /\ drain = "done" /\ result.stats = acc
      BY DEF IInv, ResultOfDrain, Pending
  <2>2. chan = <<>> /\ \A v \in VUs : Exited(v)
      BY <2>1 DEF IInv, DrainClosed, Closed
  <2>3. budget = 0
      BY <2>1, <2>2, CountsAssumption DEF IInv, ExitCause, VUs
  <2>4. Held(vu) = 0
    <3>1. Occupied(vu, {"permit", "render", "inflight"}) = {}
        BY <2>2 DEF Occupied, Exited
    <3> QED
        BY <3>1, FS_EmptySet DEF Held
  <2>5. /\ lost \in Nat /\ acc.total \in Nat /\ Len(chan) = 0
      BY <2>2 DEF IInv, TypeOK, Stats
  <2>6. Total - budget = 0 + 0 + acc.total + lost
      BY <2>4, <2>5, CountsAre DEF IInv, Ledger
  <2> PICK t \in Nat : t = acc.total
      BY <2>5
  <2>7. Total - 0 = 0 + 0 + t + lost
      BY <2>3, <2>6, Zenon
  <2>8. t = Total - lost
      BY <2>5, <2>7, CountsAssumption
  <2>9. result.stats.total = Total - lost
      BY <2>1, <2>8
  <2>10. ~TemplateMayFail => lost = 0
      BY <2>1, <2>5 DEF IInv, LossCause
  <2> QED
      BY <2>9, <2>10
<1> QED
    BY <1>1, InvCorrect, PTL

\* After the drain has ended no request is started and no record is sent.
\* About: drop(tx), then the joins, of FixedExecutor::execute.
THEOREM DrainedIsComplete == Spec => NothingAfterDrain
<1>1. IInv /\ [Next]_vars => (drain = "done" => UNCHANGED <<chan, dispatched>>)
  <2> SUFFICES ASSUME IInv, [Next]_vars, drain = "done" PROVE UNCHANGED <<chan, dispatched>>
      OBVIOUS
  <2>1. chan = <<>> /\ \A v \in VUs : vu[v] = "exited"
      BY DEF IInv, DrainClosed, Closed, Exited
  <2>2. ASSUME NEW v \in VUs, VUStep(v) \/ Answer(v) PROVE FALSE
      BY <2>1, <2>2
      DEF VUStep, Answer, Claim, BudgetExhausted, AcquirePermit, Dispatch,
         RenderFails, CancelAtPermit, CancelInFlight, Complete
  <2>3. CASE DrainStep
      BY <2>3 DEF DrainStep, Receive, DrainEnds, DrainPanics
  <2>4. CASE CoordinatorStep
      BY <2>4 DEF CoordinatorStep, SpawnVU, DropSender, JoinVU, JoinDrain
  <2>5. CASE CtrlC \/ Refill \/ Finished \/ UNCHANGED vars
      BY <2>5 DEF CtrlC, Refill, Finished, vars
  <2> QED
      BY <2>2, <2>3, <2>4, <2>5 DEF Next
<1> QED
    BY <1>1, InvCorrect, PTL DEF Spec, NothingAfterDrain

-----------------------------------------------------------------------------
(* A fixed run implements the pool of units of RequestPool: a claim takes *)
(* a unit, the drain counts one, a unit that is lost is dropped, the last *)
(* join makes the report, and every other step leaves the pool as it is.  *)
(* A record on its way to the drain still counts as held, so that sending *)
(* it is no step of the pool.                                             *)

\* The run starts with a full pool.
LEMMA PoolInit == Init => Pool!Init
<1> SUFFICES ASSUME Init PROVE Pool!Init
    OBVIOUS
<1>1. Holding = {}
    BY DEF Init, Holding, In
<1>2. Cardinality(Holding) = 0 /\ Len(chan) = 0
    BY <1>1, FS_EmptySet DEF Init
<1>3. budget = Total /\ acc.total = 0 /\ lost = 0 /\ cancelled = FALSE
      /\ result = [kind |-> "pending", stats |-> EmptyStats]
    BY EmptyStatsType DEF Init, Pending
<1> QED
    BY <1>2, <1>3, EmptyStatsType DEF Pool!Init

\* Steps that leave every number of the pool as it is.
LEMMA PoolStutters ==
    ASSUME IInv, Held(vu') + Len(chan') = Held(vu) + Len(chan),
           UNCHANGED <<budget, acc, lost, cancelled, result>>
    PROVE  UNCHANGED Pool!poolVars
BY CountsAre DEF Pool!poolVars

\* Every step of the run is a step of the pool, or none.
LEMMA PoolNext == IInv /\ [Next]_vars => [Pool!Next]_(Pool!poolVars)
<1> SUFFICES ASSUME IInv, [Next]_vars PROVE [Pool!Next]_(Pool!poolVars)
    OBVIOUS
<1>types. TypeOK /\ TypeOK'
    BY TypeNext DEF IInv
<1> USE CountsAssumption
<1>nums. Len(chan) \in Nat /\ acc.total \in Nat /\ budget \in Nat /\ lost \in Nat
    BY <1>types DEF TypeOK, Stats
<1>numsNext. Len(chan') \in Nat /\ acc'.total \in Nat
    BY <1>types DEF TypeOK, Stats
<1>now. PICK h \in Nat, n \in Nat, t \in Nat :
        h = Held(vu) /\ n = Len(chan) /\ t = acc.total
    BY <1>nums, CountsType
<1>next. PICK h2 \in Nat, n2 \in Nat, t2 \in Nat :
        h2 = Held(vu') /\ n2 = Len(chan') /\ t2 = acc'.total
    BY <1>numsNext, CountsType
\* The counts by their short names, as the pool sees them.
<1>held. /\ Cardinality(Holding) + Len(chan) = h + n
         /\ (Cardinality(Holding) + Len(chan))' = h2 + n2
    BY <1>now, <1>next, CountsAre
<1>open. co # "returned" => result.kind = "pending"
    BY DEF IInv, ResultOfDrain, Pending
<1>active. ASSUME NEW v \in VUs, vu[v] \notin {"unborn", "exited"}
           PROVE  Pool!Open
  <2>1. co # "returned"
    BY <1>active, ActiveVU DEF IInv
  <2> QED BY <2>1, <1>open DEF Pool!Open
<1>1. ASSUME NEW v \in VUs, Claim(v) PROVE Pool!Take
  <2>1. PICK s \in {"permit", "render"} : Moves(vu, vu', v, s) /\ vu[v] = "claim"
    BY <1>types, <1>1 DEF Claim, Moves, TypeOK
  <2>2. h2 = h + 1
    BY <1>now, <1>next, <2>1, CountsMove
  <2>3. n2 = n /\ budget > 0 /\ budget' = budget - 1
        /\ UNCHANGED <<acc, lost, cancelled, result>>
    BY <1>now, <1>next, <1>1 DEF Claim, UnitsLeft
  <2>4. Pool!Open
    BY <1>active, <2>1
  <2>5. h2 + n2 = h + n + 1
    BY <2>2, <2>3
  <2> QED
    BY <1>held, <2>3, <2>4, <2>5 DEF Pool!Take
\* A unit that is lost leaves the pool for good.
<1>drop. ASSUME Pool!Open, NEW k \in 1..(h + n), h2 + n2 = h + n - k, lost' = lost + k,
                UNCHANGED <<budget, acc, cancelled, result>>
         PROVE  Pool!Drop
    BY <1>held, <1>drop DEF Pool!Drop
<1>2. ASSUME NEW v \in VUs, RenderFails(v) \/ CancelAtPermit(v) \/ CancelInFlight(v)
      PROVE  Pool!Drop
  <2>1. PICK s \in {"claim", "exited"} :
            Moves(vu, vu', v, s) /\ vu[v] \in {"permit", "render", "inflight"}
    BY <1>types, <1>2
    DEF RenderFails, CancelAtPermit, CancelInFlight, Abandon, Moves, TypeOK
  <2>2. h2 = h - 1
    BY <1>now, <1>next, <2>1, CountsMove
  <2>3. n2 = n /\ lost' = lost + 1 /\ UNCHANGED <<budget, acc, cancelled, result>>
    BY <1>now, <1>next, <1>2 DEF RenderFails, CancelAtPermit, CancelInFlight, Abandon
  <2>4. Pool!Open
    BY <1>active, <2>1
  <2>5. 1 \in 1..(h + n) /\ h2 + n2 = h + n - 1
    BY <2>2, <2>3
  <2> QED
    BY <1>drop, <2>3, <2>4, <2>5
<1>3. ASSUME NEW v \in VUs, BudgetExhausted(v) \/ AcquirePermit(v) \/ Dispatch(v)
      PROVE  UNCHANGED Pool!poolVars
  <2>1. h2 = h
    <3>1. CASE BudgetExhausted(v)
      <4>1. Moves(vu, vu', v, "exited") /\ vu[v] = "claim"
        BY <1>types, <3>1 DEF BudgetExhausted, Moves, TypeOK
      <4> QED BY <1>now, <1>next, <4>1, CountsMove
    <3>2. CASE AcquirePermit(v)
      <4>1. Moves(vu, vu', v, "render") /\ vu[v] = "permit"
        BY <1>types, <3>2 DEF AcquirePermit, Moves, TypeOK
      <4> QED BY <1>now, <1>next, <4>1, CountsMove
    <3>3. CASE Dispatch(v)
      <4>1. Moves(vu, vu', v, "inflight") /\ vu[v] = "render"
        BY <1>types, <3>3 DEF Dispatch, Moves, TypeOK
      <4> QED BY <1>now, <1>next, <4>1, CountsMove
    <3> QED BY <1>3, <3>1, <3>2, <3>3
  <2>2. n2 = n /\ UNCHANGED <<budget, acc, lost, cancelled, result>>
    BY <1>now, <1>next, <1>3 DEF BudgetExhausted, AcquirePermit, Dispatch
  <2> QED
    BY <1>now, <1>next, <2>1, <2>2, PoolStutters
<1>4. ASSUME NEW v \in VUs, NEW outcome \in {"ok", "failed"}, Complete(v, outcome)
      PROVE  Pool!Drop \/ UNCHANGED Pool!poolVars
  <2>1. PICK s \in {"claim", "exited"} : Moves(vu, vu', v, s) /\ vu[v] = "inflight"
    BY <1>types, <1>4 DEF Complete, Moves, TypeOK
  <2>2. h2 = h - 1
    BY <1>now, <1>next, <2>1, CountsMove
  <2>3. UNCHANGED <<budget, acc, cancelled, result>>
    BY <1>4 DEF Complete
  <2>4. CASE drain = "panicked"
    <3>1. n2 = n /\ lost' = lost + 1
        BY <1>now, <1>next, <1>4, <2>4 DEF Complete
    <3>2. Pool!Open
        BY <1>active, <2>1
    <3>3. 1 \in 1..(h + n) /\ h2 + n2 = h + n - 1
        BY <2>2, <3>1
    <3> QED BY <1>drop, <2>3, <3>1, <3>2, <3>3
  <2>5. CASE drain # "panicked"
    <3>1. Len(Append(chan, outcome)) = Len(chan) + 1
        BY <1>types, AppendProperties DEF TypeOK
    <3>2. n2 = n + 1 /\ lost' = lost
        BY <1>now, <1>next, <1>4, <2>5, <3>1 DEF Complete
    <3>3. h2 + n2 = h + n
        BY <2>2, <3>2
    <3> QED BY <1>now, <1>next, <2>3, <3>2, <3>3, PoolStutters
  <2> QED BY <2>4, <2>5
<1>5. CASE Receive
  <2>1. /\ co # "returned" /\ h2 = h /\ n > 0 /\ n2 = n - 1 /\ t2 = t + 1
        /\ UNCHANGED <<budget, lost, cancelled, result>>
    BY <1>types, <1>now, <1>next, <1>5, RecordRequestType, HeadTailProperties, EmptySeq
    DEF Receive, TypeOK, IInv, CoordinatorOrder
  <2>2. Pool!Open
    BY <1>open, <2>1 DEF Pool!Open
  <2>3. h + n > 0 /\ h2 + n2 = h + n - 1
    BY <2>1
  <2>4. acc'.total = acc.total + 1
    BY <1>now, <1>next, <2>1
  <2>5. Pool!Count
    BY <1>held, <2>1, <2>2, <2>3, <2>4 DEF Pool!Count
  <2> QED
    BY <2>5 DEF Pool!Next
<1>6. CASE DrainPanics
  <2>1. /\ co # "returned" /\ h2 = h /\ n2 = 0 /\ lost' = lost + n
        /\ UNCHANGED <<budget, acc, cancelled, result>>
    BY <1>now, <1>next, <1>6 DEF DrainPanics, IInv, CoordinatorOrder
  <2>2. n > 0
    BY <1>types, <1>now, <1>6, LenProperties, EmptySeq DEF DrainPanics, TypeOK
  <2>3. Pool!Open
    BY <1>open, <2>1 DEF Pool!Open
  <2>4. n \in 1..(h + n) /\ h2 + n2 = h + n - n
    BY <2>1, <2>2
  <2>5. Pool!Drop
    BY <1>drop, <2>1, <2>3, <2>4
  <2> QED
    BY <2>5 DEF Pool!Next
<1>7. CASE SpawnVU
  <2>1. cursor \in VUs /\ vu[cursor] = "unborn"
    BY <1>types, <1>7 DEF SpawnVU, TypeOK, IInv, CoordinatorOrder, VUs
  <2>2. Moves(vu, vu', cursor, "claim")
    BY <1>types, <1>7, <2>1 DEF SpawnVU, Moves, TypeOK
  <2>3. h2 = h /\ n2 = n /\ UNCHANGED <<budget, acc, lost, cancelled, result>>
    BY <1>now, <1>next, <1>7, <2>1, <2>2, CountsMove DEF SpawnVU
  <2> QED
    BY <1>now, <1>next, <2>3, PoolStutters
<1>8. CASE DrainEnds \/ DropSender \/ JoinVU \/ Refill \/ UNCHANGED vars
  <2>1. UNCHANGED <<vu, chan, budget, acc, lost, cancelled, result>>
    BY <1>8 DEF DrainEnds, DropSender, JoinVU, Refill, vars
  <2> QED
    BY <2>1, PoolStutters
<1>9. CASE CtrlC
  <2>1. UNCHANGED <<vu, chan, budget, acc, lost, result>> /\ ~cancelled /\ cancelled'
        /\ co # "returned" /\ cancelled' = TRUE
    BY <1>9 DEF CtrlC
  <2>2. h2 = h /\ n2 = n /\ Pool!Open
    BY <1>now, <1>next, <1>open, <2>1 DEF Pool!Open
  <2>3. Pool!Interrupt
    BY <1>held, <2>1, <2>2 DEF Pool!Interrupt
  <2> QED
    BY <2>3 DEF Pool!Next
\* The report is made when every VU is gone and nothing is queued.
<1>10. CASE JoinDrain
  <2>1. /\ UNCHANGED <<vu, chan, budget, acc, lost, cancelled>>
        /\ co = "joining" /\ drain \in {"done", "panicked"}
        /\ result' = IF drain = "done" THEN [kind |-> "stats", stats |-> acc]
                                       ELSE [kind |-> "error", stats |-> EmptyStats]
    BY <1>10 DEF JoinDrain
  <2>2. \A v \in VUs : Exited(v)
    BY <1>types, <1>10 DEF JoinDrain, IInv, CoordinatorOrder, TypeOK, VUs
  <2>3. chan = <<>>
    BY <2>1 DEF IInv, DrainClosed
  <2>4. h = 0 /\ n = 0
    <3>1. Occupied(vu, {"permit", "render", "inflight"}) = {}
        BY <2>2 DEF Occupied, Exited
    <3> QED
        BY <1>now, <2>3, <3>1, FS_EmptySet DEF Held
  <2>5. h2 = 0 /\ n2 = 0
    BY <1>now, <1>next, <2>1, <2>4
  <2>6. Pool!Open
    BY <1>open, <2>1 DEF Pool!Open
  <2>7. CASE drain = "done"
    <3>1. budget = 0 \/ cancelled \/ ~(Concurrency > 0)
        BY <2>2, <2>7 DEF IInv, ExitCause, VUs
    <3>2. result'.kind = "stats" /\ result'.stats.total = acc.total
        BY <2>1, <2>7
    <3>3. Pool!Report
        BY <1>held, <2>1, <2>4, <2>5, <2>6, <3>1, <3>2 DEF Pool!Report
    <3> QED BY <3>3 DEF Pool!Next
  <2>8. CASE drain = "panicked"
    <3>1. DrainMayPanic
        BY <2>8 DEF IInv, DrainClosed
    <3>2. result'.kind = "error" /\ result'.stats.total = 0
        BY <2>1, <2>8, EmptyStatsType
    <3>3. Pool!Fail
        BY <1>held, <2>1, <2>4, <2>5, <2>6, <3>1, <3>2 DEF Pool!Fail
    <3> QED BY <3>3 DEF Pool!Next
  <2> QED BY <2>1, <2>7, <2>8
<1> QED
    BY <1>1, <1>2, <1>3, <1>4, <1>5, <1>6, <1>7, <1>8, <1>9, <1>10
    DEF Next, VUStep, Answer, DrainStep, CoordinatorStep, Finished, Pool!Next

\* A fixed run implements the pool of units: no unit is counted that was not
\* taken, none is settled twice, and the report is made when nothing is
\* outstanding and, unless interrupted, the pool is empty.
\* About: the whole of FixedExecutor::execute and Vu::spawn.
THEOREM ImplementsPool == Spec => PoolSpec
BY PoolInit, PoolNext, InvCorrect, PTL DEF Spec, PoolSpec, Pool!Spec
=============================================================================
