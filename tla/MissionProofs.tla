---------------------------- MODULE MissionProofs ----------------------------
(***************************************************************************)
(* Theorems about the life of a mission, for every number of units,        *)
(* findings and routes, every setting of the ceilings and any number of    *)
(* turns, operator verbs and sweeps.                                       *)
(***************************************************************************)
EXTENDS Mission, MissionPhasesProofs

-----------------------------------------------------------------------------
(* Type correctness. *)

LEMMA UnparkType ==
  ASSUME TypeOK, Unpark
  PROVE  unparked' \in [Brakes -> Nat]
<1>1. \A r \in Brakes : unparked[r] \in Nat /\ unparked[r] + 1 \in Nat
  BY DEF TypeOK
<1> QED BY <1>1 DEF Unpark

LEMMA FeedType ==
  ASSUME TypeOK, NEW s \in StepStates, NEW in \in Inputs, Feed(s, in)
  PROVE  /\ m' \in StepStates
         /\ pauses' \in [Ladders -> Nat]
         /\ unparked' \in [Brakes -> Nat]
<1>1. PICK spend \in Spends0 : ApplyTransition(Step(s, in, spend))
  BY DEF Feed
<1>2. m' \in StepStates
  BY <1>1, StepType DEF ApplyTransition
<1>3. pauses' \in [Ladders -> Nat]
  <2>1. \A r \in Ladders : pauses[r] \in Nat /\ pauses[r] + 1 \in Nat
    BY DEF TypeOK
  <2> QED BY <1>1, <2>1 DEF ApplyTransition
<1> QED BY <1>2, <1>3, UnparkType DEF Feed

LEMMA TurnType ==
  ASSUME TypeOK, Turn
  PROVE  TypeOK'
<1>1. m \in StepStates
  BY DEF TypeOK
<1>2. CASE RunDiscover
  BY <1>1, <1>2, FeedType, OtherInputsType DEF RunDiscover, Runs, TypeOK
<1>3. CASE RunPlan
  <2>1. ASSUME NEW p \in NewPlans(m) PROVE [m EXCEPT !.units = p] \in StepStates
    <3>1. p \in Plans
      BY NewPlansType
    <3> QED BY <1>1, <3>1 DEF StepStates
  <2>2. In("phase_complete") \in Inputs
    BY InType DEF Kinds
  <2>3. /\ m' \in StepStates
        /\ pauses' \in [Ladders -> Nat]
        /\ unparked' \in [Brakes -> Nat]
    BY <1>1, <1>3, <2>1, <2>2, FeedType, OtherInputsType DEF RunPlan
  <2> QED BY <1>3, <2>3 DEF RunPlan, Runs, TypeOK
<1>4. CASE RunExecute
  BY <1>1, <1>4, FeedType, ExecuteInputsType DEF RunExecute, Runs, TypeOK
<1>5. CASE RunReview
  BY <1>1, <1>5, FeedType, ReviewInputsType DEF RunReview, Runs, TypeOK
<1>6. CASE RunResult
  BY <1>1, <1>6, FeedType, OtherInputsType DEF RunResult, Runs, TypeOK
<1>7. CASE RunAsks
  BY <1>1, <1>7, FeedType, OtherInputsType DEF RunAsks, TypeOK
<1> QED BY <1>2, <1>3, <1>4, <1>5, <1>6, <1>7 DEF Turn

LEMMA VerbsType ==
  ASSUME TypeOK, Resume \/ Cancel \/ DecidePlan \/ ChangeRouting \/ AutoResume
  PROVE  TypeOK'
<1>1. m \in StepStates
  BY DEF TypeOK
<1>2. \A k \in {"resume", "cancel", "plan_approve", "plan_replan", "plan_rediscover"} :
        In(k) \in Inputs
  BY InType DEF Kinds
<1>3. \A r \in Routes : Plain("route_change", r) \in Inputs
  BY PlainType DEF Kinds
<1>4. CASE Resume
  BY <1>1, <1>2, <1>4, FeedType DEF Resume, Acts, TypeOK
<1>5. CASE Cancel
  BY <1>1, <1>2, <1>5, FeedType DEF Cancel, TypeOK
<1>6. CASE DecidePlan
  BY <1>1, <1>2, <1>6, FeedType DEF DecidePlan, Acts, TypeOK
<1>7. CASE ChangeRouting
  BY <1>1, <1>3, <1>7, FeedType DEF ChangeRouting, TypeOK
<1>8. CASE AutoResume
  BY <1>1, <1>2, <1>8, FeedType DEF AutoResume, TypeOK
<1> QED BY <1>4, <1>5, <1>6, <1>7, <1>8

LEMMA StatusWritesType ==
  ASSUME TypeOK, AnswerAskUser \/ SweepAskTimeouts \/ ClaimWorkSlot
  PROVE  TypeOK'
<1>1. ASSUME NEW st \in Statuses PROVE [m EXCEPT !.status = st] \in StepStates
  BY DEF TypeOK, StepStates
<1>2. /\ [m EXCEPT !.status = "idle"] \in StepStates
      /\ [m EXCEPT !.status = "working"] \in StepStates
  BY <1>1 DEF Statuses
<1>3. CASE ClaimWorkSlot
  BY <1>2, <1>3 DEF ClaimWorkSlot, TypeOK
<1>4. CASE AnswerAskUser
  <2>1. humanActs' \in Nat
    BY <1>4 DEF AnswerAskUser, Acts, TypeOK
  <2> QED BY <1>2, <1>4, <2>1, UnparkType DEF AnswerAskUser, AnswerPendingInput, TypeOK
<1>5. CASE SweepAskTimeouts
  BY <1>2, <1>5, UnparkType DEF SweepAskTimeouts, AnswerPendingInput, TypeOK
<1> QED BY <1>3, <1>4, <1>5

LEMMA CreatedType ==
  ASSUME NEW flow \in Flows, NEW auto \in BOOLEAN
  PROVE  Created(flow, auto) \in StepStates
<1>1. Nothing \in Plans
  <2>1. Nothing \in [{} -> UnitStates]
    BY DEF Nothing
  <2> QED BY <2>1 DEF Plans
<1>2. ResolveAll \in Ledgers
  BY DEF ResolveAll, Ledgers, Closed, FindingStates
<1>3. InitialPhase(flow) \in Phases
  BY DEF InitialPhase, Phases
<1>4. "idle" \in Statuses
  BY DEF Statuses
<1> QED BY <1>1, <1>2, <1>3, <1>4, PhasesAssumption DEF Created, StepStates

LEMMA InitTypeOK == Init => TypeOK
<1> SUFFICES ASSUME Init PROVE TypeOK
  OBVIOUS
<1>1. PICK flow \in Flows0, auto \in Approvals0 : m = Created(flow, auto)
  BY DEF Init
<1>2. m \in StepStates
  BY <1>1, CreatedType, MissionAssumption
<1>3. kind \in MissionKinds
  BY MissionAssumption DEF Init
<1> QED BY <1>2, <1>3 DEF Init, TypeOK

LEMMA NextTypeOK == TypeOK /\ [Next]_vars => TypeOK'
<1>1. ASSUME TypeOK, Next PROVE TypeOK'
  BY <1>1, TurnType, VerbsType, StatusWritesType DEF Next
<1>2. ASSUME TypeOK, UNCHANGED vars PROVE TypeOK'
  BY <1>2 DEF TypeOK, vars
<1> QED BY <1>1, <1>2

\* The row keeps its type through every turn, verb and sweep: no transition
\* writes a phase, status, pause reason or counter that scanMission does not
\* know.
THEOREM TypeCorrect == Spec => []TypeOK
BY InitTypeOK, NextTypeOK, PTL DEF Spec

-----------------------------------------------------------------------------
(* The evidence behind a result. *)

EvidenceInv == TypeOK /\ Evidenced(m)

LEMMA FeedEvidenced ==
  ASSUME NEW s \in StepStates, NEW in \in Inputs, Evidenced(s), Reportable(s, in),
         Feed(s, in)
  PROVE  Evidenced(m')
<1>1. PICK spend \in Spends0 : ApplyTransition(Step(s, in, spend))
  BY DEF Feed
<1> QED BY <1>1, StepEvidenced DEF ApplyTransition

LEMMA TurnEvidenced ==
  ASSUME EvidenceInv, Turn
  PROVE  Evidenced(m')
<1>1. m \in StepStates /\ Evidenced(m)
  BY DEF EvidenceInv, TypeOK
<1>2. CASE RunDiscover
  <2>1. PICK in \in DiscoverInputs : Feed(m, in)
    BY <1>2 DEF RunDiscover
  <2>2. in.kind \in {"review_infra_failure", "worker_failed", "phase_complete"}
    BY ErrorKinds, InKind DEF DiscoverInputs, Kinds
  <2>3. Reportable(m, in)
    BY <1>2, <2>2 DEF RunDiscover, Runs, Drivable, Reportable
  <2> QED BY <1>1, <2>1, <2>3, FeedEvidenced, OtherInputsType
<1>3. CASE RunPlan
  <2>1. CASE \E in \in PlanFailures : Feed(m, in)
    <3>1. PICK in \in PlanFailures : Feed(m, in)
      BY <2>1
    <3>2. in.kind \in {"review_infra_failure", "worker_failed", "plan_infeasible"}
      BY ErrorKinds, InKind DEF PlanFailures, Kinds
    <3>3. Reportable(m, in)
      BY <1>3, <3>2 DEF RunPlan, Runs, Drivable, Reportable
    <3> QED BY <1>1, <3>1, <3>3, FeedEvidenced, OtherInputsType
  <2>2. CASE \E p \in NewPlans(m) : Feed([m EXCEPT !.units = p], In("phase_complete"))
    <3>1. PICK p \in NewPlans(m) : Feed([m EXCEPT !.units = p], In("phase_complete"))
      BY <2>2
    <3> DEFINE s == [m EXCEPT !.units = p]
    <3>2. /\ s \in StepStates
          /\ s.units = p /\ s.phase = m.phase
          /\ s.flow = m.flow /\ s.pauseReason = m.pauseReason
      BY <1>1, NewPlansType DEF StepStates
    <3>3. DOMAIN p # {}
      BY DataAssumption DEF NewPlans, Units
    <3>4. \A x \in DOMAIN p : p[x].passes => p[x].harnessPassed
      BY DEF NewPlans, Restored, Pending
    <3>5. m.phase = "plan" /\ ~Terminal(m.phase)
      BY <1>3 DEF RunPlan, Runs, Drivable
    <3>6. /\ In("phase_complete") \in Inputs
          /\ In("phase_complete").kind = "phase_complete"
      BY InType, InKind DEF Kinds
    <3> HIDE DEF s
    <3>7. Evidenced(s)
      BY <3>2, <3>3, <3>4, <3>5 DEF Evidenced
    <3>8. Reportable(s, In("phase_complete"))
      BY <3>2, <3>3, <3>5, <3>6 DEF Reportable
    <3>9. Feed(s, In("phase_complete"))
      BY <3>1 DEF s
    <3> QED BY <3>2, <3>6, <3>7, <3>8, <3>9, FeedEvidenced
  <2> QED BY <1>3, <2>1, <2>2 DEF RunPlan
<1>4. CASE RunExecute
  <2>1. PICK in \in ExecuteInputs(m, kind) : Feed(m, in)
    BY <1>4 DEF RunExecute
  <2>2. in.kind \in BuildKinds
    BY ExecuteKinds
  <2>3. Reportable(m, in)
    BY <1>4, <2>2 DEF RunExecute, Runs, Drivable, Reportable, BuildKinds
  <2> QED BY <1>1, <2>1, <2>3, FeedEvidenced, ExecuteInputsType
<1>5. CASE RunReview
  <2>1. PICK in \in ReviewInputs(m) : Feed(m, in)
    BY <1>5 DEF RunReview
  <2>2. in.kind \in ProveKinds
    BY ReviewKinds
  <2>3. Reportable(m, in)
    BY <1>5, <2>2 DEF RunReview, Runs, Drivable, Reportable, ProveKinds
  <2> QED BY <1>1, <2>1, <2>3, FeedEvidenced, ReviewInputsType
<1>6. CASE RunResult
  <2>1. PICK in \in ResultInputs : Feed(m, in)
    BY <1>6 DEF RunResult
  <2>2. in.kind \in {"result_complete", "result_failed"} /\ DOMAIN in.verified = {}
    BY InKind DEF ResultInputs, Kinds
  <2>3. Reportable(m, in)
    BY <1>6, <2>2 DEF RunResult, Runs, Drivable, Reportable
  <2> QED BY <1>1, <2>1, <2>3, FeedEvidenced, OtherInputsType
<1>7. CASE RunAsks
  <2>1. Asks.kind = "ask_user" /\ DOMAIN Asks.verified = {}
    BY InKind DEF Asks, Kinds
  <2>2. Reportable(m, Asks)
    BY <1>7, <2>1 DEF RunAsks, Drivable, Reportable
  <2> QED BY <1>1, <1>7, <2>2, FeedEvidenced, OtherInputsType DEF RunAsks
<1> QED BY <1>2, <1>3, <1>4, <1>5, <1>6, <1>7 DEF Turn

LEMMA VerbsEvidenced ==
  ASSUME EvidenceInv, Resume \/ Cancel \/ DecidePlan \/ ChangeRouting \/ AutoResume
  PROVE  Evidenced(m')
<1>1. m \in StepStates /\ Evidenced(m)
  BY DEF EvidenceInv, TypeOK
<1>2. ~Terminal(m.phase)
  BY DEF Resume, Cancel, DecidePlan, ChangeRouting, AutoResume, AwaitingApproval, Terminal
<1>3. ASSUME NEW k \in {"resume", "cancel", "plan_approve", "plan_replan",
                       "plan_rediscover", "route_change"},
             NEW r \in Routes
      PROVE  Plain(k, r) \in Inputs /\ Reportable(m, Plain(k, r))
  <2>1. Plain(k, r) \in Inputs
    BY PlainType DEF Kinds
  <2>2. Plain(k, r).kind = k /\ DOMAIN Plain(k, r).verified = {}
    BY DEF Plain, Nothing
  <2> QED BY <1>2, <2>1, <2>2 DEF Reportable
<1>4. ASSUME NEW k \in {"resume", "cancel", "plan_approve", "plan_replan",
                       "plan_rediscover"}, Feed(m, In(k))
      PROVE  Evidenced(m')
  BY <1>1, <1>3, <1>4, PhasesAssumption, FeedEvidenced DEF In
<1>5. CASE ChangeRouting
  BY <1>1, <1>3, <1>5, FeedEvidenced DEF ChangeRouting
<1> QED BY <1>4, <1>5 DEF Resume, Cancel, DecidePlan, AutoResume

\* D-094, for missions of any size: a planned mission that delivers its result
\* has a plan, and the harness has passed and a review approved every unit of
\* it, after any sequence of turns, operator verbs and sweeps.
THEOREM ResultNeedsEvidence == Spec => []ResultHasEvidence
<1>1. Init => EvidenceInv
  <2> SUFFICES ASSUME Init, TypeOK PROVE Evidenced(m)
    BY InitTypeOK DEF EvidenceInv
  <2>1. PICK flow \in Flows0, auto \in Approvals0 : m = Created(flow, auto)
    BY DEF Init
  <2> QED BY <2>1 DEF Created, InitialPhase, Nothing, NoReason, Evidenced, NeverVisitsPlan
<1>2. EvidenceInv /\ [Next]_vars => EvidenceInv'
  <2> SUFFICES ASSUME EvidenceInv, [Next]_vars PROVE EvidenceInv'
    OBVIOUS
  <2>1. TypeOK'
    BY NextTypeOK DEF EvidenceInv
  <2>2. CASE AnswerAskUser \/ SweepAskTimeouts \/ ClaimWorkSlot
    <3>1. PICK st \in {"idle", "working"} : m' = [m EXCEPT !.status = st]
      BY <2>2 DEF AnswerAskUser, SweepAskTimeouts, AnswerPendingInput, ClaimWorkSlot
    <3>2. Holds(m, m')
      BY <3>1 DEF Holds, EvidenceInv, TypeOK, StepStates
    <3> QED BY <2>1, <3>2, HoldsEvidenced DEF EvidenceInv
  <2>3. CASE UNCHANGED vars
    BY <2>1, <2>3 DEF EvidenceInv, vars
  <2> QED BY <2>1, <2>2, <2>3, TurnEvidenced, VerbsEvidenced DEF Next, EvidenceInv
<1>3. EvidenceInv => ResultHasEvidence
  BY DEF EvidenceInv, Evidenced, ResultHasEvidence, AllPassed
<1> QED BY <1>1, <1>2, <1>3, PTL DEF Spec

-----------------------------------------------------------------------------
(* The brakes.  A mission that is not parked by a brake has room left under it. *)

HeldBy(s, r) == s.status = "paused" /\ s.pauseReason = r

RetryRoom(s, a) ==
  s.harnessRetries + (IF HeldBy(s, "no_progress") THEN 0 ELSE 1)
    <= HarnessRetryCap + (IF s.replanUsed THEN 1 ELSE 0) + a

RoundRoom(s, a, b) ==
  s.reworkRounds
      + (IF HeldBy(s, "no_progress") \/ HeldBy(s, "review_exhausted") THEN 0 ELSE 1)
    <= MaxIterations + a + b

\* A mission under review has not used an iteration, so the one that a rejection
\* spends without looking is below the ceiling.
IterationRoom(s) ==
  /\ ~Terminal(s.phase) => s.iteration < MaxIterations
  /\ s.phase = "prove" => s.iteration = 0

Braked(s, a, b) == RetryRoom(s, a) /\ RoundRoom(s, a, b) /\ IterationRoom(s)

\* How often the step from s to n leaves brake r.
Leaves(s, n, r) == IF HeldBy(s, r) /\ ~HeldBy(n, r) THEN 1 ELSE 0

\* n follows s with no counter spent.
Eases(s, n) ==
  /\ n.harnessRetries = s.harnessRetries
  /\ n.reworkRounds <= s.reworkRounds
  /\ s.replanUsed => n.replanUsed
  /\ \/ n.iteration = 0
     \/ /\ n.iteration = s.iteration
        /\ Terminal(s.phase) => Terminal(n.phase)
        /\ n.phase = "prove" => s.phase = "prove"

LEMMA EasesBraked ==
  ASSUME NEW s \in StepStates, NEW n \in StepStates, NEW a \in Nat, NEW b \in Nat,
         Braked(s, a, b), Eases(s, n)
  PROVE  Braked(n, a + Leaves(s, n, "no_progress"), b + Leaves(s, n, "review_exhausted"))
<1>1. /\ s.harnessRetries \in Nat /\ s.reworkRounds \in Nat /\ s.iteration \in Nat
      /\ n.harnessRetries \in Nat /\ n.reworkRounds \in Nat /\ n.iteration \in Nat
      /\ HarnessRetryCap \in Nat /\ MaxIterations \in Nat /\ MaxIterations > 0
      /\ s.replanUsed \in BOOLEAN /\ n.replanUsed \in BOOLEAN
  BY CeilingsAssumption DEF StepStates
<1>2. RetryRoom(n, a + Leaves(s, n, "no_progress"))
  BY <1>1 DEF Braked, RetryRoom, Eases, Leaves
<1>3. RoundRoom(n, a + Leaves(s, n, "no_progress"), b + Leaves(s, n, "review_exhausted"))
  BY <1>1 DEF Braked, RoundRoom, Eases, Leaves, HeldBy
<1>4. IterationRoom(n)
  BY <1>1 DEF Braked, IterationRoom, Eases
<1> QED BY <1>2, <1>3, <1>4 DEF Braked

LEMMA MovesEase ==
  ASSUME NEW s \in StepStates, NEW p \in Phases, NEW r, NEW st
  PROVE  /\ Eases(s, s)
         /\ Eases(s, Enter(s, p))
         /\ Eases(s, [Enter(s, p) EXCEPT !.pauseReason = r])
         /\ Eases(s, Pause(s, r).next)
         /\ Eases(s, Fail(s).next)
         /\ Eases(s, NoOp(s).next)
         /\ Eases(s, WithStatus(s, st))
         /\ Eases(s, StepResultComplete(s).next)
         /\ Eases(s, StepResume(s).next)
         /\ Eases(s, [s EXCEPT !.reviewRoute = r])
         /\ Eases(s, ReplanTransition(s).next)
<1>1. s.reworkRounds <= s.reworkRounds
  BY DEF StepStates
<1> QED BY <1>1 DEF Eases, Enter, Pause, WithPause, Fail, WithPhaseFailed, NoOp,
     WithStatus, StepResultComplete, StepResume, ReplanTransition, To, Terminal, StepStates

LEMMA PhaseCompleteEases ==
  ASSUME NEW s \in StepStates, NEW in \in Inputs
  PROVE  Eases(s, StepPhaseComplete(s, in).next)
<1> DEFINE t == IF s.phase = "build" /\ in.touched.known
                THEN [s EXCEPT !.findings = MarkUntouched(s.findings, in.touched)]
                ELSE s
           next == NextPhases(t.flow, t.phase)
           Counters(x) == <<x.harnessRetries, x.reworkRounds, x.replanUsed, x.iteration, x.phase>>
<1>1. t \in StepStates
  <2>1. MarkUntouched(s.findings, in.touched) \in Ledgers
    BY MarkUntouchedType DEF StepStates, Inputs
  <2> QED BY <2>1 DEF StepStates
<1>2. Counters(t) = Counters(s)
  BY DEF StepStates
<1>3. next # {} => (CHOOSE p \in next : TRUE) \in Phases
  BY DEF NextPhases
<1>4. ASSUME NEW n, Eases(t, n) PROVE Eases(s, n)
  BY <1>2, <1>4 DEF Eases
<1>5. "build" \in Phases
  BY DEF Phases
<1> HIDE DEF t, next, Counters
<1>6. /\ Eases(t, Pause(t, "approval").next)
      /\ Eases(t, Enter(t, "build"))
      /\ next # {} => Eases(t, Enter(t, CHOOSE p \in next : TRUE))
  BY <1>1, <1>3, <1>5, MovesEase
<1>7. /\ Eases(s, WithPause(t, "approval"))
      /\ Eases(s, Enter(t, "build"))
      /\ next # {} => Eases(s, Enter(t, CHOOSE p \in next : TRUE))
  BY <1>4, <1>6 DEF Pause, To
<1>8. Eases(s, s)
  BY MovesEase, <1>5
<1> QED BY <1>7, <1>8 DEF StepPhaseComplete, t, next, To, NoOp

LEMMA ReviewApproveEases ==
  ASSUME NEW s \in StepStates, ~Terminal(s.phase)
  PROVE  Eases(s, StepReviewApprove(s).next)
<1> DEFINE t == [s EXCEPT !.stallCount = 0, !.lastGapFingerprint = NoFingerprint,
                          !.findings = ResolveAll, !.reworkRounds = 0,
                          !.units = PassHarnessVerified(s.units)]
           n == [t EXCEPT !.phase = "result", !.status = "idle"]
           o == Enter(t, "build")
<1>1. /\ DOMAIN t = DOMAIN s
      /\ t.harnessRetries = s.harnessRetries /\ t.reworkRounds = 0
      /\ t.replanUsed = s.replanUsed /\ t.iteration = s.iteration /\ t.phase = s.phase
  BY DEF StepStates
<1>2. 0 <= s.reworkRounds /\ s \in StepStates
  BY DEF StepStates
<1> HIDE DEF t
<1>3. /\ n.harnessRetries = t.harnessRetries /\ n.reworkRounds = t.reworkRounds
      /\ n.replanUsed = t.replanUsed /\ n.iteration = t.iteration /\ n.phase = "result"
      /\ o.harnessRetries = t.harnessRetries /\ o.reworkRounds = t.reworkRounds
      /\ o.replanUsed = t.replanUsed /\ o.iteration = 0
  BY <1>1, <1>2 DEF StepStates, Enter
<1>4. StepReviewApprove(s).next \in {n, o}
  BY DEF StepReviewApprove, t, To
<1> HIDE DEF n, o
<1> QED BY <1>1, <1>2, <1>3, <1>4 DEF Eases

\* Everything but the two retries and a rejection spends no counter.
Spending == {"worker_failed", "worker_retry", "review_rework"}

LEMMA SwitchEases ==
  ASSUME NEW s \in StepStates, NEW in \in Inputs, in.kind \notin Spending,
         ~Terminal(s.phase)
  PROVE  Eases(s, StepSwitch(s, in).next)
<1>1. "build" \in Phases /\ "plan" \in Phases /\ "discover" \in Phases
  BY DEF Phases
<1>2. /\ Eases(s, StepPlanApprove(s).next)
      /\ Eases(s, StepPlanReplan(s).next)
      /\ Eases(s, StepPlanRediscover(s).next)
  BY <1>1, MovesEase DEF StepPlanApprove, StepPlanReplan, StepPlanRediscover, To, NoOp
<1>3. /\ Eases(s, StepWorkerBlocked(s).next)
      /\ Eases(s, To(WithStatus(s, "waiting_for_input"), "none").next)
      /\ Eases(s, StepRouteChange(s, in).next)
  BY <1>1, MovesEase DEF StepWorkerBlocked, StepRouteChange, To, NoOp
<1>4. /\ Eases(s, NoOp(s).next) /\ Eases(s, StepResume(s).next) /\ Eases(s, Fail(s).next)
      /\ Eases(s, StepResultComplete(s).next) /\ Eases(s, ReplanTransition(s).next)
      /\ \A r : Eases(s, Pause(s, r).next)
  BY <1>1, MovesEase
<1> QED BY <1>2, <1>3, <1>4, PhaseCompleteEases, ReviewApproveEases
        DEF StepSwitch, Spending

\* The retries and rejections spend a counter, and park the mission where the
\* room ends.
Counted(s, t) ==
  /\ t.harnessRetries = s.harnessRetries \/ t.harnessRetries = s.harnessRetries + 1
  /\ t.reworkRounds = s.reworkRounds
  /\ t.replanUsed = s.replanUsed
  /\ t.phase = s.phase

LEMMA CountCounted ==
  ASSUME NEW s \in StepStates, NEW in \in Inputs
  PROVE  /\ CountHarnessRetry(s, in).harnessRetries =
              s.harnessRetries + (IF in.harnessCaused THEN 1 ELSE 0)
         /\ CountHarnessRetry(s, in).iteration = s.iteration
         /\ Counted(s, CountHarnessRetry(s, in))
         /\ CountIteration(s, in).iteration = s.iteration + (IF in.harnessCaused THEN 0 ELSE 1)
         /\ CountIteration(s, in).harnessRetries = s.harnessRetries
         /\ Counted(s, CountIteration(s, in))
BY DEF CountHarnessRetry, CountIteration, Counted, StepStates, Inputs

\* What a pause or a failure does to the counters.
LEMMA ParkCounters ==
  ASSUME NEW t \in StepStates, NEW r
  PROVE  LET n == Pause(t, r).next
             f == Fail(t).next
         IN  /\ n.harnessRetries = t.harnessRetries /\ n.reworkRounds = t.reworkRounds
             /\ n.replanUsed = t.replanUsed /\ n.iteration = t.iteration /\ n.phase = t.phase
             /\ n.status = "paused" /\ n.pauseReason = r
             /\ f.harnessRetries = t.harnessRetries /\ f.reworkRounds = t.reworkRounds
             /\ f.replanUsed = t.replanUsed /\ f.phase = "failed" /\ f.status = "error"
BY DEF Pause, WithPause, Fail, WithPhaseFailed, To, StepStates

\* A retry whose counters are t, from a mission with room that is not parked.
LEMMA RetryBraked ==
  ASSUME NEW s \in StepStates, NEW t \in StepStates, NEW in \in Inputs,
         NEW a \in Nat, NEW b \in Nat, NEW o,
         Braked(s, a, b), s.status # "paused", s.phase # "prove", ~Terminal(s.phase),
         t.harnessRetries = s.harnessRetries + (IF in.harnessCaused THEN 1 ELSE 0),
         t.iteration = s.iteration + (IF in.harnessCaused THEN 0 ELSE 1),
         t.reworkRounds = s.reworkRounds, t.replanUsed = s.replanUsed, t.phase = s.phase,
         o = To(t, "retry") \/ o = Pause(t, "backoff"),
         t.status = s.status
  PROVE  Braked(Retry(t, in, o).next, a, b)
<1>1. /\ s.harnessRetries \in Nat /\ s.reworkRounds \in Nat /\ s.iteration \in Nat
      /\ HarnessRetryCap \in Nat /\ MaxIterations \in Nat
      /\ s.replanUsed \in BOOLEAN
  BY CeilingsAssumption DEF StepStates
<1>2. /\ s.harnessRetries + 1 <= HarnessRetryCap + (IF s.replanUsed THEN 1 ELSE 0) + a
      /\ s.reworkRounds + 1 <= MaxIterations + a + b
      /\ s.iteration < MaxIterations
  BY DEF Braked, RetryRoom, RoundRoom, IterationRoom, HeldBy
<1> DEFINE n == Pause(t, "no_progress").next
           f == Fail(t).next
           k == Pause(t, "backoff").next
<1>3. /\ n.harnessRetries = t.harnessRetries /\ n.reworkRounds = t.reworkRounds
      /\ n.replanUsed = t.replanUsed /\ n.iteration = t.iteration /\ n.phase = t.phase
      /\ HeldBy(n, "no_progress")
      /\ f.harnessRetries = t.harnessRetries /\ f.reworkRounds = t.reworkRounds
      /\ f.replanUsed = t.replanUsed /\ f.phase = "failed"
      /\ k.harnessRetries = t.harnessRetries /\ k.reworkRounds = t.reworkRounds
      /\ k.replanUsed = t.replanUsed /\ k.iteration = t.iteration /\ k.phase = t.phase
  BY ParkCounters DEF HeldBy
<1> HIDE DEF n, f, k
<1>4. CASE in.harnessCaused
  <2>1. Braked(n, a, b)
    BY <1>1, <1>2, <1>3, <1>4 DEF Braked, RetryRoom, RoundRoom, IterationRoom
  <2>2. ASSUME t.harnessRetries < HarnessRetryCap PROVE Braked(t, a, b) /\ Braked(k, a, b)
    BY <1>1, <1>2, <1>3, <1>4, <2>2 DEF Braked, RetryRoom, RoundRoom, IterationRoom
  <2>3. ~HarnessRetryExhausted(t) => t.harnessRetries < HarnessRetryCap
    BY <1>1 DEF HarnessRetryExhausted
  <2> QED BY <1>4, <2>1, <2>2, <2>3 DEF Retry, To, n, k
<1>5. CASE ~in.harnessCaused
  <2>1. Braked(f, a, b)
    BY <1>1, <1>2, <1>3, <1>5 DEF Braked, RetryRoom, RoundRoom, IterationRoom, Terminal
  <2>2. ASSUME t.iteration < MaxIterations PROVE Braked(t, a, b) /\ Braked(k, a, b)
    BY <1>1, <1>2, <1>3, <1>5, <2>2 DEF Braked, RetryRoom, RoundRoom, IterationRoom
  <2>3. ~IterationsExhausted(t) => t.iteration < MaxIterations
    BY <1>1 DEF IterationsExhausted
  <2> QED BY <1>5, <2>1, <2>2, <2>3 DEF Retry, To, f, k
<1> QED BY <1>4, <1>5

LEMMA WorkerFailedBraked ==
  ASSUME NEW s \in StepStates, NEW in \in Inputs, NEW a \in Nat, NEW b \in Nat,
         Braked(s, a, b), s.status # "paused", s.phase # "prove", ~Terminal(s.phase)
  PROVE  Braked(StepWorkerFailed(s, in).next, a, b)
<1> DEFINE failed == [s EXCEPT !.consecutiveFailures = @ + 1]
           c == CountHarnessRetry(failed, in)
           t == CountIteration(c, in)
           o == IF t.consecutiveFailures >= BackoffFailures
                THEN Pause(t, "backoff") ELSE To(t, "retry")
<1>1. /\ failed \in StepStates
      /\ failed.harnessRetries = s.harnessRetries /\ failed.iteration = s.iteration
      /\ failed.reworkRounds = s.reworkRounds /\ failed.replanUsed = s.replanUsed
      /\ failed.phase = s.phase /\ failed.status = s.status
  BY DEF StepStates
<1> HIDE DEF failed
<1>2. c \in StepStates /\ t \in StepStates
  BY <1>1, CountType
<1>3. c.status = failed.status
  BY <1>1 DEF CountHarnessRetry, StepStates
<1>4. /\ c.harnessRetries = failed.harnessRetries + (IF in.harnessCaused THEN 1 ELSE 0)
      /\ c.iteration = failed.iteration /\ Counted(failed, c)
  BY <1>1, CountCounted
<1> HIDE DEF c
<1>5. t.status = c.status
  BY <1>2 DEF CountIteration, StepStates
<1>6. /\ t.iteration = c.iteration + (IF in.harnessCaused THEN 0 ELSE 1)
      /\ t.harnessRetries = c.harnessRetries /\ Counted(c, t)
  BY <1>2, CountCounted
<1>7. o = To(t, "retry") \/ o = Pause(t, "backoff")
  OBVIOUS
<1> HIDE DEF t, o
<1>8. Braked(Retry(t, in, o).next, a, b)
  BY <1>1, <1>2, <1>3, <1>4, <1>5, <1>6, <1>7, RetryBraked DEF Counted
<1> QED BY <1>8 DEF StepWorkerFailed, o, t, c, failed

LEMMA WorkerRetryBraked ==
  ASSUME NEW s \in StepStates, NEW in \in Inputs, NEW a \in Nat, NEW b \in Nat,
         Braked(s, a, b), s.status # "paused", s.phase # "prove", ~Terminal(s.phase)
  PROVE  Braked(StepWorkerRetry(s, in).next, a, b)
<1> DEFINE stalls == in.fingerprint # NoFingerprint
           tracked == [s EXCEPT
             !.consecutiveFailures = 0,
             !.stallCount = IF ~stalls THEN @
                            ELSE IF in.fingerprint = s.lastGapFingerprint
                            THEN @ + 1 ELSE 1,
             !.lastGapFingerprint = IF stalls THEN in.fingerprint ELSE @]
           t == CountHarnessRetry(tracked, in)
           spent == CountIteration(t, in)
<1>1. tracked \in StepStates
  BY TrackedType
<1>2. /\ tracked.harnessRetries = s.harnessRetries /\ tracked.iteration = s.iteration
      /\ tracked.reworkRounds = s.reworkRounds /\ tracked.replanUsed = s.replanUsed
      /\ tracked.phase = s.phase /\ tracked.status = s.status
  BY DEF StepStates
<1> HIDE DEF tracked
<1>3. t \in StepStates /\ spent \in StepStates
  BY <1>1, CountType
<1>4. /\ t.harnessRetries = s.harnessRetries + (IF in.harnessCaused THEN 1 ELSE 0)
      /\ t.iteration = s.iteration /\ t.reworkRounds = s.reworkRounds
      /\ t.replanUsed = s.replanUsed /\ t.phase = s.phase /\ t.status = s.status
  <2>1. t.status = tracked.status
    BY <1>1 DEF CountHarnessRetry, StepStates
  <2> QED BY <1>1, <1>2, <2>1, CountCounted DEF Counted
<1> HIDE DEF t
<1>5. /\ spent.harnessRetries = t.harnessRetries
      /\ spent.iteration = t.iteration + (IF in.harnessCaused THEN 0 ELSE 1)
      /\ spent.reworkRounds = t.reworkRounds
      /\ spent.replanUsed = t.replanUsed /\ spent.phase = t.phase /\ spent.status = t.status
  <2>1. spent.status = t.status
    BY <1>3 DEF CountIteration, StepStates
  <2> QED BY <1>3, <2>1, CountCounted DEF Counted
<1> HIDE DEF spent
<1>6. Braked(Retry(spent, in, To(spent, "retry")).next, a, b)
  BY <1>3, <1>4, <1>5, RetryBraked
<1>7. /\ s.harnessRetries \in Nat /\ s.reworkRounds \in Nat /\ s.iteration \in Nat
      /\ HarnessRetryCap \in Nat /\ MaxIterations \in Nat /\ MaxIterations > 0
      /\ s.replanUsed \in BOOLEAN
      /\ s.harnessRetries + 1 <= HarnessRetryCap + (IF s.replanUsed THEN 1 ELSE 0) + a
      /\ s.reworkRounds + 1 <= MaxIterations + a + b
      /\ s.iteration < MaxIterations
  BY CeilingsAssumption DEF StepStates, Braked, RetryRoom, RoundRoom, IterationRoom, HeldBy
<1> DEFINE n == Pause(t, "no_progress").next
           p == ReplanTransition(t).next
<1>8. /\ n.harnessRetries = t.harnessRetries /\ n.reworkRounds = t.reworkRounds
      /\ n.replanUsed = t.replanUsed /\ n.iteration = t.iteration /\ n.phase = t.phase
      /\ HeldBy(n, "no_progress")
  BY <1>3, ParkCounters DEF HeldBy
<1>9. /\ p.harnessRetries = t.harnessRetries /\ p.reworkRounds = t.reworkRounds
      /\ p.replanUsed = TRUE /\ p.iteration = 0 /\ p.phase = "plan"
  BY <1>3 DEF ReplanTransition, Enter, To, StepStates
<1> HIDE DEF n, p
<1>10. Braked(n, a, b)
  BY <1>4, <1>7, <1>8 DEF Braked, RetryRoom, RoundRoom, IterationRoom
<1>11. CanReplan(t) => Braked(p, a, b)
  BY <1>4, <1>7, <1>9 DEF CanReplan, Braked, RetryRoom, RoundRoom, IterationRoom
<1> QED BY <1>6, <1>10, <1>11 DEF StepWorkerRetry, n, p, spent, t, tracked

\* A rejection spends an iteration; the mission under review had not used any.
LEMMA ReviewReworkBraked ==
  ASSUME NEW s \in StepStates, NEW in \in Inputs, NEW a \in Nat, NEW b \in Nat,
         Braked(s, a, b), s.status # "paused", s.phase = "prove", MaxIterations >= 2
  PROVE  Braked(StepReviewRework(s, in).next, a, b)
<1> DEFINE t == [s EXCEPT
             !.reworkRounds = @ + 1,
             !.findings = MergeFindings(s.findings, in.reported, in.resolved),
             !.phase = "build", !.status = "idle"]
           n == Pause(t, "no_progress").next
           x == Pause(t, "review_exhausted").next
           o == [t EXCEPT !.iteration = @ + 1]
<1>1. t \in StepStates
  BY ReworkedType
<1>2. /\ t.harnessRetries = s.harnessRetries /\ t.reworkRounds = s.reworkRounds + 1
      /\ t.replanUsed = s.replanUsed /\ t.iteration = s.iteration
      /\ t.phase = "build" /\ t.status = "idle"
  BY DEF StepStates
<1> HIDE DEF t
<1>3. /\ s.harnessRetries \in Nat /\ s.reworkRounds \in Nat
      /\ HarnessRetryCap \in Nat /\ MaxIterations \in Nat
      /\ s.replanUsed \in BOOLEAN
      /\ s.harnessRetries + 1 <= HarnessRetryCap + (IF s.replanUsed THEN 1 ELSE 0) + a
      /\ s.reworkRounds + 1 <= MaxIterations + a + b
      /\ s.iteration = 0
  BY CeilingsAssumption DEF StepStates, Braked, RetryRoom, RoundRoom, IterationRoom, HeldBy
<1>4. /\ n.harnessRetries = t.harnessRetries /\ n.reworkRounds = t.reworkRounds
      /\ n.replanUsed = t.replanUsed /\ n.iteration = t.iteration /\ n.phase = t.phase
      /\ HeldBy(n, "no_progress")
      /\ x.harnessRetries = t.harnessRetries /\ x.reworkRounds = t.reworkRounds
      /\ x.replanUsed = t.replanUsed /\ x.iteration = t.iteration /\ x.phase = t.phase
      /\ HeldBy(x, "review_exhausted")
  BY <1>1, ParkCounters DEF HeldBy
<1>5. /\ o.harnessRetries = t.harnessRetries /\ o.reworkRounds = t.reworkRounds
      /\ o.replanUsed = t.replanUsed /\ o.iteration = t.iteration + 1 /\ o.phase = t.phase
  BY <1>1 DEF StepStates
<1> HIDE DEF n, x, o
<1>6. Braked(n, a, b) /\ Braked(x, a, b)
  BY <1>2, <1>3, <1>4 DEF Braked, RetryRoom, RoundRoom, IterationRoom
<1>7. ~ReworkExhausted(t) => Braked(o, a, b)
  BY <1>2, <1>3, <1>5
     DEF ReworkExhausted, Braked, RetryRoom, RoundRoom, IterationRoom
<1> QED BY <1>6, <1>7 DEF StepReviewRework, n, x, o, t, To

\* The inputs that spend a counter come from the phases that report them, and
\* from a mission that is not parked.
Affordable(s, in) ==
  /\ ~Terminal(s.phase)
  /\ in.kind \in Spending => s.status # "paused"
  /\ in.kind \in {"worker_failed", "worker_retry"} => s.phase # "prove"
  /\ in.kind = "review_rework" => s.phase = "prove"

LEMMA StepBraked ==
  ASSUME NEW s \in StepStates, NEW in \in Inputs, NEW spend, NEW a \in Nat, NEW b \in Nat,
         Braked(s, a, b), Affordable(s, in), MaxIterations >= 2
  PROVE  LET n == Step(s, in, spend).next
         IN  Braked(n, a + Leaves(s, n, "no_progress"), b + Leaves(s, n, "review_exhausted"))
<1> DEFINE t == [s EXCEPT !.units = ApplyVerification(s.units, in.verified)]
           n == Step(s, in, spend).next
<1> SUFFICES Braked(n, a + Leaves(s, n, "no_progress"), b + Leaves(s, n, "review_exhausted"))
  OBVIOUS
<1>1. t \in StepStates
  <2>1. ApplyVerification(s.units, in.verified) \in Plans
    BY ApplyVerificationType DEF StepStates, Inputs
  <2> QED BY <2>1 DEF StepStates
<1>2. /\ t.harnessRetries = s.harnessRetries /\ t.reworkRounds = s.reworkRounds
      /\ t.replanUsed = s.replanUsed /\ t.iteration = s.iteration
      /\ t.phase = s.phase /\ t.status = s.status /\ t.pauseReason = s.pauseReason
  BY DEF StepStates
<1> HIDE DEF t
<1>3. n \in StepStates
  BY StepType
<1>4. n = IF in.kind = "cancel" THEN Fail(s).next ELSE StepInput(t, in, spend).next
  BY DEF Step, t, Affordable
<1> HIDE DEF n
<1>5. Braked(t, a, b) /\ Affordable(t, in)
  BY <1>2 DEF Braked, RetryRoom, RoundRoom, IterationRoom, HeldBy, Affordable
<1>6. ASSUME Eases(s, n) \/ Eases(t, n)
      PROVE  Braked(n, a + Leaves(s, n, "no_progress"), b + Leaves(s, n, "review_exhausted"))
  <2>1. Eases(s, n)
    BY <1>2, <1>6 DEF Eases
  <2> QED BY <1>3, <2>1, EasesBraked
<1>7. CASE in.kind = "cancel"
  <2>1. Eases(s, Fail(s).next)
    BY MovesEase DEF Phases
  <2> QED BY <1>4, <1>6, <1>7, <2>1
<1>8. CASE in.kind # "cancel" /\ spend \in {"mixed", "over"}
  <2>1. /\ Eases(t, Pause(t, "mixed_currency").next)
        /\ Eases(t, Pause(t, "budget").next)
    BY <1>1, MovesEase DEF Phases
  <2>2. n \in {Pause(t, "mixed_currency").next, Pause(t, "budget").next}
    BY <1>4, <1>5, <1>8 DEF StepInput, Affordable
  <2> QED BY <1>6, <2>1, <2>2
<1>9. CASE in.kind # "cancel" /\ spend \notin {"mixed", "over"}
  <2>1. n = StepSwitch(t, in).next
    BY <1>4, <1>9 DEF StepInput
  <2>2. CASE in.kind \notin Spending
    BY <1>1, <1>5, <1>6, <2>1, <2>2, SwitchEases DEF Affordable
  <2>3. CASE in.kind \in Spending
    <3>1. Braked(n, a, b)
      <4>1. CASE in.kind = "worker_failed"
        <5>1. n = StepWorkerFailed(t, in).next
          BY <2>1, <4>1 DEF StepSwitch
        <5> QED BY <1>1, <1>5, <4>1, <5>1, WorkerFailedBraked DEF Affordable, Spending
      <4>2. CASE in.kind = "worker_retry"
        <5>1. n = StepWorkerRetry(t, in).next
          BY <2>1, <4>2 DEF StepSwitch
        <5> QED BY <1>1, <1>5, <4>2, <5>1, WorkerRetryBraked DEF Affordable, Spending
      <4>3. CASE in.kind = "review_rework"
        <5>1. n = StepReviewRework(t, in).next
          BY <2>1, <4>3 DEF StepSwitch
        <5> QED BY <1>1, <1>5, <4>3, <5>1, ReviewReworkBraked DEF Affordable, Spending
      <4> QED BY <2>3, <4>1, <4>2, <4>3 DEF Spending
    <3>2. Leaves(s, n, "no_progress") = 0 /\ Leaves(s, n, "review_exhausted") = 0
      BY <2>3 DEF Affordable, Leaves, HeldBy
    <3> QED BY <3>1, <3>2
  <2> QED BY <2>2, <2>3
<1> QED BY <1>7, <1>8, <1>9

BrakeInv ==
  TypeOK /\ Braked(m, unparked["no_progress"], unparked["review_exhausted"])

\* A turn on s, the row with the plan it stored, keeps the brakes.
LEMMA FeedBraked ==
  ASSUME BrakeInv, MaxIterations >= 2, NEW s \in StepStates, NEW in \in Inputs,
         s.harnessRetries = m.harnessRetries, s.reworkRounds = m.reworkRounds,
         s.replanUsed = m.replanUsed, s.iteration = m.iteration, s.phase = m.phase,
         s.status = m.status, s.pauseReason = m.pauseReason,
         Affordable(s, in), Feed(s, in)
  PROVE  Braked(m', unparked'["no_progress"], unparked'["review_exhausted"])
<1> DEFINE a == unparked["no_progress"]
           b == unparked["review_exhausted"]
<1>1. PICK spend \in Spends0 : m' = Step(s, in, spend).next
  BY DEF Feed, ApplyTransition
<1>2. a \in Nat /\ b \in Nat
  BY DEF BrakeInv, TypeOK, Brakes
<1>3. Braked(s, a, b)
  BY DEF BrakeInv, Braked, RetryRoom, RoundRoom, IterationRoom, HeldBy
<1>4. Braked(m', a + Leaves(s, m', "no_progress"), b + Leaves(s, m', "review_exhausted"))
  BY <1>1, <1>2, <1>3, StepBraked
<1>5. /\ unparked'["no_progress"] = a + Leaves(s, m', "no_progress")
      /\ unparked'["review_exhausted"] = b + Leaves(s, m', "review_exhausted")
  BY <1>2 DEF Feed, Unpark, Brakes, Leaves, HeldBy
<1> QED BY <1>4, <1>5

LEMMA TurnBraked ==
  ASSUME BrakeInv, MaxIterations >= 2, Turn
  PROVE  Braked(m', unparked'["no_progress"], unparked'["review_exhausted"])
<1>1. m \in StepStates
  BY DEF BrakeInv, TypeOK
<1>2. ASSUME NEW in \in Inputs, Feed(m, in), Drivable(m),
             in.kind \in {"worker_failed", "worker_retry"} => m.phase # "prove",
             in.kind = "review_rework" => m.phase = "prove"
      PROVE  Braked(m', unparked'["no_progress"], unparked'["review_exhausted"])
  BY <1>1, <1>2, FeedBraked DEF Affordable, Drivable
<1>3. CASE RunDiscover
  <2>1. PICK in \in DiscoverInputs : Feed(m, in)
    BY <1>3 DEF RunDiscover
  <2>2. in.kind \in {"review_infra_failure", "worker_failed", "phase_complete"}
    BY ErrorKinds, InKind DEF DiscoverInputs, Kinds
  <2> QED BY <1>2, <1>3, <2>1, <2>2, OtherInputsType DEF RunDiscover, Runs
<1>4. CASE RunPlan
  <2>1. CASE \E in \in PlanFailures : Feed(m, in)
    <3>1. PICK in \in PlanFailures : Feed(m, in)
      BY <2>1
    <3>2. in.kind \in {"review_infra_failure", "worker_failed", "plan_infeasible"}
      BY ErrorKinds, InKind DEF PlanFailures, Kinds
    <3> QED BY <1>2, <1>4, <3>1, <3>2, OtherInputsType DEF RunPlan, Runs
  <2>2. CASE \E p \in NewPlans(m) : Feed([m EXCEPT !.units = p], In("phase_complete"))
    <3>1. PICK p \in NewPlans(m) : Feed([m EXCEPT !.units = p], In("phase_complete"))
      BY <2>2
    <3> DEFINE s == [m EXCEPT !.units = p]
    <3>2. /\ s \in StepStates
          /\ s.harnessRetries = m.harnessRetries /\ s.reworkRounds = m.reworkRounds
          /\ s.replanUsed = m.replanUsed /\ s.iteration = m.iteration
          /\ s.phase = m.phase /\ s.status = m.status /\ s.pauseReason = m.pauseReason
      BY <1>1, NewPlansType DEF StepStates
    <3>3. Feed(s, In("phase_complete"))
      BY <3>1
    <3> HIDE DEF s
    <3>4. /\ In("phase_complete") \in Inputs
          /\ In("phase_complete").kind = "phase_complete"
      BY InType, InKind DEF Kinds
    <3>5. Affordable(s, In("phase_complete"))
      BY <1>4, <3>2, <3>4 DEF RunPlan, Runs, Drivable, Affordable, Spending
    <3> QED BY <3>2, <3>3, <3>4, <3>5, FeedBraked
  <2> QED BY <1>4, <2>1, <2>2 DEF RunPlan
<1>5. CASE RunExecute
  <2>1. PICK in \in ExecuteInputs(m, kind) : Feed(m, in)
    BY <1>5 DEF RunExecute
  <2>2. in.kind \in BuildKinds
    BY ExecuteKinds
  <2> QED BY <1>2, <1>5, <2>1, <2>2, ExecuteInputsType DEF RunExecute, Runs, BuildKinds
<1>6. CASE RunReview
  <2>1. PICK in \in ReviewInputs(m) : Feed(m, in)
    BY <1>6 DEF RunReview
  <2>2. in.kind \in ProveKinds
    BY ReviewKinds
  <2> QED BY <1>2, <1>6, <2>1, <2>2, ReviewInputsType DEF RunReview, Runs, ProveKinds
<1>7. CASE RunResult
  <2>1. PICK in \in ResultInputs : Feed(m, in)
    BY <1>7 DEF RunResult
  <2>2. in.kind \in {"result_complete", "result_failed"}
    BY InKind DEF ResultInputs, Kinds
  <2> QED BY <1>2, <1>7, <2>1, <2>2, OtherInputsType DEF RunResult, Runs
<1>8. CASE RunAsks
  <2>1. Asks.kind = "ask_user"
    BY InKind DEF Asks, Kinds
  <2> QED BY <1>2, <1>8, <2>1, OtherInputsType DEF RunAsks
<1> QED BY <1>3, <1>4, <1>5, <1>6, <1>7, <1>8 DEF Turn

LEMMA VerbsBraked ==
  ASSUME BrakeInv, MaxIterations >= 2,
         Resume \/ Cancel \/ DecidePlan \/ ChangeRouting \/ AutoResume
  PROVE  Braked(m', unparked'["no_progress"], unparked'["review_exhausted"])
<1>1. m \in StepStates
  BY DEF BrakeInv, TypeOK
<1>2. ~Terminal(m.phase)
  BY DEF Resume, Cancel, DecidePlan, ChangeRouting, AutoResume, AwaitingApproval, Terminal
<1>3. ASSUME NEW k \in {"resume", "cancel", "plan_approve", "plan_replan",
                       "plan_rediscover", "route_change"},
             NEW r \in Routes
      PROVE  Plain(k, r) \in Inputs /\ Affordable(m, Plain(k, r))
  <2>1. Plain(k, r) \in Inputs
    BY PlainType DEF Kinds
  <2>2. Plain(k, r).kind = k
    BY DEF Plain
  <2> QED BY <1>2, <2>1, <2>2 DEF Affordable, Spending
<1>4. ASSUME NEW k \in {"resume", "cancel", "plan_approve", "plan_replan",
                       "plan_rediscover"}, Feed(m, In(k))
      PROVE  Braked(m', unparked'["no_progress"], unparked'["review_exhausted"])
  BY <1>1, <1>3, <1>4, PhasesAssumption, FeedBraked DEF In
<1>5. CASE ChangeRouting
  BY <1>1, <1>3, <1>5, FeedBraked DEF ChangeRouting
<1> QED BY <1>4, <1>5 DEF Resume, Cancel, DecidePlan, AutoResume

\* An answer and a claimed slot change the status only.
LEMMA StatusBraked ==
  ASSUME BrakeInv, AnswerAskUser \/ SweepAskTimeouts \/ ClaimWorkSlot
  PROVE  Braked(m', unparked'["no_progress"], unparked'["review_exhausted"])
<1> DEFINE a == unparked["no_progress"]
           b == unparked["review_exhausted"]
<1>1. m \in StepStates /\ a \in Nat /\ b \in Nat
  BY DEF BrakeInv, TypeOK, Brakes
<1>2. PICK st \in {"idle", "working"} : m' = WithStatus(m, st)
  BY DEF AnswerAskUser, SweepAskTimeouts, AnswerPendingInput, ClaimWorkSlot, WithStatus
<1>3. m' \in StepStates
  BY <1>1, <1>2 DEF WithStatus, StepStates, Statuses
<1>4. Eases(m, m')
  BY <1>1, <1>2, MovesEase DEF Phases
<1>5. Braked(m', a + Leaves(m, m', "no_progress"), b + Leaves(m, m', "review_exhausted"))
  BY <1>1, <1>3, <1>4, EasesBraked DEF BrakeInv
<1>6. /\ unparked'["no_progress"] = a + Leaves(m, m', "no_progress")
      /\ unparked'["review_exhausted"] = b + Leaves(m, m', "review_exhausted")
  <2>1. CASE ClaimWorkSlot
    BY <1>1, <2>1 DEF ClaimWorkSlot, Leaves, HeldBy
  <2>2. CASE AnswerAskUser \/ SweepAskTimeouts
    BY <1>1, <2>2 DEF AnswerAskUser, SweepAskTimeouts, AnswerPendingInput, Unpark, Brakes,
                      Leaves, HeldBy
  <2> QED BY <2>1, <2>2
<1> QED BY <1>5, <1>6

\* max_iterations, the harness-retry cap and the rework cap hold together on every
\* path through retries, rejections, replans, resumes and answers: a round beyond a
\* cap is bought by taking the mission out of the brake.  A ceiling of one iteration
\* is left out: a rejection spends it without looking.
THEOREM BrakesStand ==
  ASSUME MaxIterations >= 2
  PROVE  Spec => []BrakesHold
<1>1. Init => BrakeInv
  <2> SUFFICES ASSUME Init, TypeOK
               PROVE  Braked(m, unparked["no_progress"], unparked["review_exhausted"])
    BY InitTypeOK DEF BrakeInv
  <2>1. PICK flow \in Flows0, auto \in Approvals0 : m = Created(flow, auto)
    BY DEF Init
  <2>2. /\ m.harnessRetries = 0 /\ m.reworkRounds = 0 /\ m.iteration = 0
        /\ m.status = "idle" /\ m.replanUsed = FALSE
    BY <2>1 DEF Created
  <2>3. unparked["no_progress"] = 0 /\ unparked["review_exhausted"] = 0
    BY DEF Init, Brakes
  <2> QED BY <2>2, <2>3, CeilingsAssumption
          DEF Braked, RetryRoom, RoundRoom, IterationRoom, HeldBy
<1>2. BrakeInv /\ [Next]_vars => BrakeInv'
  <2> SUFFICES ASSUME BrakeInv, [Next]_vars PROVE BrakeInv'
    OBVIOUS
  <2>1. TypeOK'
    BY NextTypeOK DEF BrakeInv
  <2>2. CASE UNCHANGED vars
    BY <2>1, <2>2 DEF BrakeInv, vars, Braked, RetryRoom, RoundRoom, IterationRoom, HeldBy
  <2> QED BY <2>1, <2>2, TurnBraked, VerbsBraked, StatusBraked DEF Next, BrakeInv
<1>3. BrakeInv => BrakesHold
  <2> SUFFICES ASSUME BrakeInv PROVE BrakesHold
    OBVIOUS
  <2>1. /\ m \in StepStates /\ unparked["no_progress"] \in Nat
        /\ unparked["review_exhausted"] \in Nat
    BY DEF BrakeInv, TypeOK, Brakes
  <2>2. /\ m.harnessRetries \in Nat /\ m.reworkRounds \in Nat
        /\ HarnessRetryCap \in Nat /\ MaxIterations \in Nat
    BY <2>1, CeilingsAssumption DEF StepStates
  <2>3. HarnessRetriesBounded
    BY <2>1, <2>2 DEF BrakeInv, Braked, RetryRoom, HarnessRetriesBounded
  <2>4. ReworkBounded
    BY <2>1, <2>2 DEF BrakeInv, Braked, RoundRoom, ReworkBounded
  <2> QED BY <2>3, <2>4 DEF BrakeInv, Braked, IterationRoom, IterationCeiling, BrakesHold
<1> QED BY <1>1, <1>2, <1>3, PTL DEF Spec

-----------------------------------------------------------------------------
(* Reviews are not skipped. *)

\* n follows s with the findings as they were, and enters neither a result nor,
\* unless s plans, an earlier phase.
Stays(s, n) ==
  /\ n.findings = s.findings
  /\ \/ n.phase \in {s.phase, "done", "failed"}
     \/ n.phase \in {"discover", "plan", "build"} /\ (s.phase = "plan" \/ ~NeverVisitsPlan(s))

LEMMA MovesStay ==
  ASSUME NEW s \in StepStates, NEW r, NEW st
  PROVE  /\ Stays(s, s)
         /\ Stays(s, NoOp(s).next)
         /\ Stays(s, Pause(s, r).next)
         /\ Stays(s, Fail(s).next)
         /\ Stays(s, WithStatus(s, st))
         /\ Stays(s, StepResultComplete(s).next)
         /\ Stays(s, StepResume(s).next)
         /\ Stays(s, [s EXCEPT !.reviewRoute = r])
         /\ CanReplan(s) => Stays(s, ReplanTransition(s).next)
BY DEF Stays, NoOp, Pause, WithPause, Fail, WithPhaseFailed, WithStatus,
       StepResultComplete, StepResume, CanReplan, ReplanTransition, Enter, To, StepStates

\* The counters of a retry are of no account.
LEMMA RetriesStay ==
  ASSUME NEW s \in StepStates, NEW in \in Inputs
  PROVE  Stays(s, StepWorkerFailed(s, in).next) /\ Stays(s, StepWorkerRetry(s, in).next)
<1> DEFINE Alike(x, y) == y.findings = x.findings /\ y.phase = x.phase
                          /\ y.flow = x.flow /\ y.replanUsed = x.replanUsed
<1>1. ASSUME NEW t \in StepStates
      PROVE  /\ Alike(t, CountHarnessRetry(t, in))
             /\ Alike(t, CountIteration(t, in))
             /\ CountHarnessRetry(t, in) \in StepStates
             /\ CountIteration(t, in) \in StepStates
  BY CountType DEF CountHarnessRetry, CountIteration, StepStates
<1>2. ASSUME NEW x, NEW y, NEW n, Alike(x, y), Stays(y, n) PROVE Stays(x, n)
  BY <1>2 DEF Stays, NeverVisitsPlan
<1>3. ASSUME NEW t \in StepStates, NEW o, Stays(t, o.next) PROVE Stays(t, Retry(t, in, o).next)
  BY <1>3, MovesStay DEF Retry
<1>4. Stays(s, StepWorkerFailed(s, in).next)
  <2> DEFINE failed == [s EXCEPT !.consecutiveFailures = @ + 1]
             c == CountHarnessRetry(failed, in)
             t == CountIteration(c, in)
             o == IF t.consecutiveFailures >= BackoffFailures
                  THEN Pause(t, "backoff") ELSE To(t, "retry")
  <2>1. failed \in StepStates /\ Alike(s, failed)
    BY DEF StepStates
  <2> HIDE DEF failed
  <2>2. c \in StepStates /\ Alike(failed, c)
    BY <1>1, <2>1
  <2> HIDE DEF c
  <2>3. t \in StepStates /\ Alike(c, t)
    BY <1>1, <2>2
  <2>4. Alike(s, t)
    BY <2>1, <2>2, <2>3
  <2>5. Stays(t, o.next)
    BY <2>3, MovesStay DEF To
  <2> HIDE DEF t, o, Alike
  <2>6. Stays(s, Retry(t, in, o).next)
    BY <1>2, <1>3, <2>3, <2>4, <2>5
  <2> QED BY <2>6 DEF StepWorkerFailed, o, t, c, failed
<1>5. Stays(s, StepWorkerRetry(s, in).next)
  <2> DEFINE stalls == in.fingerprint # NoFingerprint
             tracked == [s EXCEPT
               !.consecutiveFailures = 0,
               !.stallCount = IF ~stalls THEN @
                              ELSE IF in.fingerprint = s.lastGapFingerprint
                              THEN @ + 1 ELSE 1,
               !.lastGapFingerprint = IF stalls THEN in.fingerprint ELSE @]
             t == CountHarnessRetry(tracked, in)
             spent == CountIteration(t, in)
  <2>1. tracked \in StepStates
    BY TrackedType
  <2>2. Alike(s, tracked)
    BY DEF StepStates
  <2> HIDE DEF tracked
  <2>3. t \in StepStates /\ Alike(tracked, t)
    BY <1>1, <2>1
  <2> HIDE DEF t
  <2>4. spent \in StepStates /\ Alike(t, spent)
    BY <1>1, <2>3
  <2>5. Alike(s, t) /\ Alike(s, spent)
    BY <2>2, <2>3, <2>4
  <2> HIDE DEF spent, Alike
  <2>6. Stays(spent, To(spent, "retry").next)
    BY <2>4, MovesStay DEF To
  <2>7. Stays(s, Retry(spent, in, To(spent, "retry")).next)
    BY <1>2, <1>3, <2>4, <2>5, <2>6
  <2>8. /\ CanReplan(t) => Stays(t, ReplanTransition(t).next)
        /\ Stays(t, Pause(t, "no_progress").next)
    BY <2>3, MovesStay
  <2>9. /\ CanReplan(t) => Stays(s, ReplanTransition(t).next)
        /\ Stays(s, Pause(t, "no_progress").next)
    BY <1>2, <2>5, <2>8
  <2> QED BY <2>7, <2>9 DEF StepWorkerRetry, spent, t, tracked
<1> QED BY <1>4, <1>5

\* What the inputs that move a mission on do.
LEMMA PhaseCompleteMoves ==
  ASSUME NEW s \in StepStates, NEW in \in Inputs
  PROVE  LET n == StepPhaseComplete(s, in).next
         IN  /\ OpenFindings(n.findings) \subseteq OpenFindings(s.findings)
             /\ n.phase \in {s.phase, "plan", "build", "prove"}
             /\ s.phase = "discover" /\ s.flow = "discover_build"
                  => n.phase \in {"discover", "build"}
<1> DEFINE t == IF s.phase = "build" /\ in.touched.known
                THEN [s EXCEPT !.findings = MarkUntouched(s.findings, in.touched)]
                ELSE s
           next == NextPhases(t.flow, t.phase)
           n == StepPhaseComplete(s, in).next
<1>1. t \in StepStates
  <2>1. MarkUntouched(s.findings, in.touched) \in Ledgers
    BY MarkUntouchedType DEF StepStates, Inputs
  <2> QED BY <2>1 DEF StepStates
<1>2. t.phase = s.phase /\ t.flow = s.flow
  BY DEF StepStates
<1>3. OpenFindings(t.findings) \subseteq OpenFindings(s.findings)
  <2>1. OpenFindings(MarkUntouched(s.findings, in.touched)) \subseteq OpenFindings(s.findings)
    <3>1. ASSUME NEW k \in FindingKeys
          PROVE  MarkUntouched(s.findings, in.touched)[k].open = s.findings[k].open
      <4>1. s.findings[k] \in FindingStates
        BY DEF StepStates, Ledgers
      <4> QED BY <4>1 DEF MarkUntouched, FindingStates
    <3> QED BY <3>1 DEF OpenFindings
  <2> QED BY <2>1 DEF StepStates
<1>4. next # {} => (CHOOSE p \in next : TRUE) \in next
  OBVIOUS
<1>5. next \subseteq {"plan", "build", "prove"}
      /\ (s.phase = "discover" /\ s.flow = "discover_build" => next \subseteq {"build"})
  BY <1>2 DEF NextPhases, Ordered
<1> HIDE DEF t, next
<1>6. \A p : Enter(t, p).findings = t.findings /\ Enter(t, p).phase = p
  BY <1>1 DEF Enter, StepStates
<1>7. WithPause(t, "approval").findings = t.findings /\ WithPause(t, "approval").phase = t.phase
  BY <1>1 DEF WithPause, StepStates
<1>8. \/ n = WithPause(t, "approval") \/ n = s
      \/ n = Enter(t, "build") /\ t.phase = "build"
      \/ n = Enter(t, CHOOSE p \in next : TRUE) /\ next # {}
  BY DEF StepPhaseComplete, t, next, To, NoOp
<1> SUFFICES /\ OpenFindings(n.findings) \subseteq OpenFindings(s.findings)
             /\ n.phase \in {s.phase, "plan", "build", "prove"}
             /\ s.phase = "discover" /\ s.flow = "discover_build"
                  => n.phase \in {"discover", "build"}
  OBVIOUS
<1> HIDE DEF n
<1>9. (CHOOSE p \in next : TRUE) \in {"plan", "build", "prove"} \/ next = {}
  BY <1>4, <1>5
<1>10. OpenFindings(n.findings) \subseteq OpenFindings(s.findings)
  BY <1>3, <1>6, <1>7, <1>8
<1>11. n.phase \in {s.phase, "plan", "build", "prove"}
  BY <1>2, <1>6, <1>7, <1>8, <1>9
<1>12. s.phase = "discover" /\ s.flow = "discover_build" => n.phase \in {"discover", "build"}
  BY <1>2, <1>4, <1>5, <1>6, <1>7, <1>8
<1> QED BY <1>10, <1>11, <1>12

LEMMA ReviewApproveMoves ==
  ASSUME NEW s \in StepStates
  PROVE  LET n == StepReviewApprove(s).next
         IN  OpenFindings(n.findings) = {} /\ n.phase \in {"result", "build"}
<1>1. OpenFindings(ResolveAll) = {}
  BY DEF OpenFindings, ResolveAll, Closed
<1>2. StepReviewApprove(s).next.findings = ResolveAll
  BY DEF StepReviewApprove, Enter, To, StepStates
<1>3. StepReviewApprove(s).next.phase \in {"result", "build"}
  BY DEF StepReviewApprove, Enter, To, StepStates
<1> QED BY <1>1, <1>2, <1>3

\* Every other input but a rejection leaves the findings and the way forward alone.
LEMMA SwitchStays ==
  ASSUME NEW s \in StepStates, NEW in \in Inputs,
         in.kind \notin {"phase_complete", "review_approve", "review_rework"}
  PROVE  Stays(s, StepSwitch(s, in).next)
<1>1. ASSUME NEW p \in {"discover", "plan", "build"}, AwaitingApproval(s)
      PROVE  Stays(s, [Enter(s, p) EXCEPT !.pauseReason = NoReason])
  BY <1>1 DEF AwaitingApproval, Enter, Stays, StepStates
<1>2. /\ Stays(s, StepPlanApprove(s).next)
      /\ Stays(s, StepPlanReplan(s).next)
      /\ Stays(s, StepPlanRediscover(s).next)
  BY <1>1, MovesStay DEF StepPlanApprove, StepPlanReplan, StepPlanRediscover, To, NoOp
<1>3. /\ Stays(s, StepWorkerBlocked(s).next)
      /\ Stays(s, To(WithStatus(s, "waiting_for_input"), "none").next)
      /\ Stays(s, StepRouteChange(s, in).next)
  BY MovesStay DEF StepWorkerBlocked, StepRouteChange, To, NoOp
<1> QED BY <1>2, <1>3, MovesStay, RetriesStay DEF StepSwitch

\* A mission that never visits a plan is never reviewed either: it has no open
\* findings, and a turn of it that builds does not report the phase complete.
RouteInv ==
  /\ TypeOK
  /\ LegalFlow(kind, m.flow)
  /\ NeverVisitsPlan(m) =>
       /\ m.phase \notin {"plan", "prove"}
       /\ m.flow = "light" => m.phase # "discover"
       /\ OpenFindings(m.findings) = {}

\* The inputs that move a mission on come from the phases that report them, and an
\* approval without a review from a mission that owes none.
Routed(s, in) ==
  /\ ~Terminal(s.phase)
  /\ in.kind = "review_rework" => s.phase = "prove"
  /\ in.kind = "phase_complete" => s.phase \in {"discover", "plan"} \/ ~NeverVisitsPlan(s)
  /\ in.kind = "phase_complete" => s.phase \in {"discover", "plan", "build"}
  /\ in.kind = "review_approve" =>
       \/ s.phase = "prove"
       \/ NeverVisitsPlan(s)
       \/ kind # "coding" /\ OpenFindings(s.findings) = {}

LEMMA StepRouted ==
  ASSUME RouteInv, NEW s \in StepStates, NEW in \in Inputs, NEW spend, Routed(s, in),
         s.flow = m.flow, s.phase = m.phase, s.findings = m.findings,
         s.replanUsed = m.replanUsed
  PROVE  LET n == Step(s, in, spend).next
         IN  /\ n.flow = s.flow
             /\ NeverVisitsPlan(n) =>
                  /\ n.phase \notin {"plan", "prove"}
                  /\ n.flow = "light" => n.phase # "discover"
                  /\ OpenFindings(n.findings) = {}
             /\ n.phase = "result" /\ s.phase # "result" =>
                  \/ s.phase = "prove"
                  \/ kind # "coding" /\ OpenFindings(s.findings) = {}
<1> DEFINE t == [s EXCEPT !.units = ApplyVerification(s.units, in.verified)]
           n == Step(s, in, spend).next
           Good == /\ NeverVisitsPlan(n) =>
                        /\ n.phase \notin {"plan", "prove"}
                        /\ n.flow = "light" => n.phase # "discover"
                        /\ OpenFindings(n.findings) = {}
                   /\ n.phase = "result" /\ s.phase # "result" =>
                        \/ s.phase = "prove"
                        \/ kind # "coding" /\ OpenFindings(s.findings) = {}
<1>1. t \in StepStates
  BY VerifyKeeps
<1>2. /\ t.findings = s.findings /\ t.phase = s.phase /\ t.flow = s.flow
      /\ t.replanUsed = s.replanUsed
  BY DEF StepStates
<1> HIDE DEF t
<1>3. n.flow = s.flow
  BY StepKeepsPolicy DEF SamePolicy
<1>4. n = IF in.kind = "cancel" THEN Fail(s).next ELSE StepInput(t, in, spend).next
  BY DEF Step, t, Routed
<1>5. /\ NeverVisitsPlan(s) =>
           /\ s.phase \notin {"plan", "prove"}
           /\ s.flow = "light" => s.phase # "discover"
           /\ OpenFindings(s.findings) = {}
      /\ NeverVisitsPlan(s) => kind # "coding"
      /\ NeverVisitsPlan(n) => NeverVisitsPlan(s)
  BY <1>3 DEF RouteInv, NeverVisitsPlan, LegalFlow
<1> SUFFICES Good
  BY <1>3
<1> HIDE DEF n
<1>6. ASSUME Stays(s, n) \/ Stays(t, n) PROVE Good
  <2>1. Stays(s, n)
    BY <1>2, <1>6 DEF Stays, NeverVisitsPlan
  <2> QED BY <1>3, <1>5, <2>1 DEF Stays
<1>7. CASE in.kind = "cancel"
  BY <1>4, <1>6, <1>7, MovesStay
<1>8. CASE in.kind # "cancel" /\ spend \in {"mixed", "over"}
  <2>1. n \in {Pause(t, "mixed_currency").next, Pause(t, "budget").next}
    BY <1>2, <1>4, <1>8 DEF StepInput, Routed
  <2>2. Stays(t, Pause(t, "mixed_currency").next) /\ Stays(t, Pause(t, "budget").next)
    BY <1>1, MovesStay
  <2>3. Stays(t, n)
    BY <2>1, <2>2
  <2> QED BY <1>6, <2>3
<1>9. CASE in.kind # "cancel" /\ spend \notin {"mixed", "over"}
  <2>1. n = StepSwitch(t, in).next
    BY <1>4, <1>9 DEF StepInput
  <2>2. CASE in.kind \notin {"phase_complete", "review_approve", "review_rework"}
    <3>1. Stays(t, n)
      BY <1>1, <2>1, <2>2, SwitchStays
    <3> QED BY <1>6, <3>1
  <2>3. CASE in.kind = "phase_complete"
    <3>1. n = StepPhaseComplete(t, in).next
      BY <2>1, <2>3 DEF StepSwitch
    <3>2. /\ OpenFindings(n.findings) \subseteq OpenFindings(s.findings)
          /\ n.phase \in {s.phase, "plan", "build", "prove"}
          /\ s.phase = "discover" /\ s.flow = "discover_build" => n.phase \in {"discover", "build"}
      BY <1>1, <1>2, <3>1, PhaseCompleteMoves
    <3>3. NeverVisitsPlan(s) => s.phase = "discover" /\ s.flow = "discover_build"
      BY <1>5, <2>3 DEF Routed, NeverVisitsPlan
    <3> QED BY <1>3, <1>5, <3>2, <3>3
  <2>4. CASE in.kind = "review_approve"
    <3>1. n = StepReviewApprove(t).next
      BY <2>1, <2>4 DEF StepSwitch
    <3>2. OpenFindings(n.findings) = {} /\ n.phase \in {"result", "build"}
      BY <1>1, <3>1, ReviewApproveMoves
    <3> QED BY <1>5, <2>4, <3>2 DEF Routed
  <2>5. CASE in.kind = "review_rework"
    <3>1. n = StepReviewRework(t, in).next
      BY <2>1, <2>5 DEF StepSwitch
    <3>2. s.phase = "prove"
      BY <2>5 DEF Routed
    <3>3. ~NeverVisitsPlan(n)
      BY <1>5, <3>2
    <3> QED BY <3>2, <3>3
  <2> QED BY <2>2, <2>3, <2>4, <2>5
<1> QED BY <1>7, <1>8, <1>9

\* A build turn claims an approval without a review only where none is owed.
LEMMA ExecuteRouted ==
  ASSUME NEW s, s.phase = "build", NEW in \in ExecuteInputs(s, kind)
  PROVE  Routed(s, in)
<1>1. \A k \in BuildKinds : In(k).kind = k
  BY InKind DEF BuildKinds, Kinds
<1>2. ASSUME NEW v \in Verifications, NEW i, i.kind = RouteVerified(s, kind, v).kind,
             ~NeverVisitsPlan(s)
      PROVE  Routed(s, i)
  <2>1. RouteVerified(s, kind, v).kind =
          (IF SkipsReview(s, kind, v) THEN "review_approve" ELSE "phase_complete")
    <3> DEFINE k == IF SkipsReview(s, kind, v) THEN "review_approve" ELSE "phase_complete"
    <3>1. In(k) \in Inputs /\ In(k).kind = k
      BY InType, InKind DEF Kinds
    <3> QED BY <3>1, FieldsKeepKind DEF RouteVerified
  <2> QED BY <1>2, <2>1 DEF Routed, SkipsReview, AlwaysReview, Terminal
<1>3. CASE SkipsBuild(s)
  <2>1. in = RouteVerified(s, kind, Nothing) /\ ~NeverVisitsPlan(s)
    BY <1>3 DEF ExecuteInputs, SkipsBuild
  <2> QED BY <1>2, <2>1, NothingType
<1>4. CASE ~SkipsBuild(s)
  <2>1. in.kind \in BuildKinds \ {"phase_complete", "review_approve"} => Routed(s, in)
    BY DEF Routed, BuildKinds, Terminal
  <2>2. in.kind \in BuildKinds
    BY ExecuteKinds
  <2>3. ASSUME in \in DoneInputs(s, kind) PROVE Routed(s, in)
    <3>1. CASE NeverVisitsPlan(s)
      <4>1. in.kind = "review_approve"
        BY <1>1, <2>3, <3>1 DEF DoneInputs, BuildKinds
      <4> QED BY <3>1, <4>1 DEF Routed, Terminal
    <3>2. CASE ~NeverVisitsPlan(s)
      <4>1. CASE \E v \in Passes(s.units) : in = VerifyFailed(s, v)
        <5>1. in.kind = "worker_retry"
          BY <1>1, <4>1, InType, FieldsKeepKind DEF VerifyFailed, BuildKinds, Kinds
        <5> QED BY <2>1, <5>1 DEF BuildKinds
      <4>2. CASE \E v \in Passes(s.units), t \in TouchedBy(kind) : in = VerifyPassed(s, kind, v, t)
        <5>1. PICK v \in Passes(s.units), t \in TouchedBy(kind) : in = VerifyPassed(s, kind, v, t)
          BY <4>2
        <5>2. v \in Verifications
          BY DEF Passes
        <5>3. in.kind = RouteVerified(s, kind, v).kind
          BY <5>1, <5>2, RouteVerifiedType, FieldsKeepKind DEF VerifyPassed
        <5> QED BY <1>2, <3>2, <5>2, <5>3
      <4> QED BY <2>3, <3>2, <4>1, <4>2 DEF DoneInputs
    <3> QED BY <3>1, <3>2
  <2>4. ASSUME in \notin DoneInputs(s, kind)
        PROVE  in.kind \notin {"phase_complete", "review_approve"}
    <3>1. ASSUME in \in ForcedRetries \cup SkippedPaths(kind) PROVE in.kind = "worker_retry"
      <4>1. In("worker_retry") \in Inputs /\ In("worker_retry").kind = "worker_retry"
        BY <1>1, InType DEF BuildKinds, Kinds
      <4>2. ASSUME NEW f
            PROVE  /\ [In("worker_retry") EXCEPT !.harnessCaused = TRUE,
                                                 !.fingerprint = f].kind = "worker_retry"
                   /\ [In("worker_retry") EXCEPT !.fingerprint = f].kind = "worker_retry"
        BY <4>1, FieldsKeepKind
      <4> QED BY <3>1, <4>2 DEF ForcedRetries, SkippedPaths
    <3>2. \/ in \in WorkerErrors
          \/ in \in ForcedRetries \cup SkippedPaths(kind)
          \/ \E k \in {"worker_retry", "worker_blocked", "plan_defect"} : in = In(k)
      BY <1>4, <2>4 DEF ExecuteInputs
    <3>3. \A k \in {"worker_retry", "worker_blocked", "plan_defect"} : In(k).kind = k
      BY <1>1 DEF BuildKinds
    <3>4. CASE in \in WorkerErrors
      BY <3>4, ErrorKinds
    <3> QED BY <3>1, <3>2, <3>3, <3>4
  <2> QED BY <2>1, <2>2, <2>3, <2>4
<1> QED BY <1>3, <1>4

\* What every step of the mission must show: it keeps the invariant, and skips no
\* review.
RouteKept ==
  /\ LegalFlow(kind, m'.flow)
  /\ NeverVisitsPlan(m') =>
       /\ m'.phase \notin {"plan", "prove"}
       /\ m'.flow = "light" => m'.phase # "discover"
       /\ OpenFindings(m'.findings) = {}
  /\ m'.phase = "result" /\ m.phase # "result" =>
       \/ m.phase = "prove"
       \/ kind # "coding" /\ OpenFindings(m.findings) = {}

LEMMA FeedRouted ==
  ASSUME RouteInv, NEW s \in StepStates, NEW in \in Inputs, Routed(s, in), Feed(s, in),
         s.flow = m.flow, s.phase = m.phase, s.findings = m.findings,
         s.replanUsed = m.replanUsed
  PROVE  RouteKept
<1>1. PICK spend \in Spends0 : m' = Step(s, in, spend).next
  BY DEF Feed, ApplyTransition
<1>2. /\ m'.flow = s.flow
      /\ NeverVisitsPlan(m') =>
           /\ m'.phase \notin {"plan", "prove"}
           /\ m'.flow = "light" => m'.phase # "discover"
           /\ OpenFindings(m'.findings) = {}
      /\ m'.phase = "result" /\ s.phase # "result" =>
           \/ s.phase = "prove"
           \/ kind # "coding" /\ OpenFindings(s.findings) = {}
  BY <1>1, StepRouted
<1>3. LegalFlow(kind, m'.flow)
  BY <1>2 DEF RouteInv
<1> QED BY <1>2, <1>3 DEF RouteKept

LEMMA TurnRouted ==
  ASSUME RouteInv, Turn
  PROVE  RouteKept
<1>1. m \in StepStates
  BY DEF RouteInv, TypeOK
<1>2. ASSUME NEW in \in Inputs, Routed(m, in), Feed(m, in)
      PROVE  RouteKept
  BY <1>1, <1>2, FeedRouted
<1>3. CASE RunDiscover
  <2>1. PICK in \in DiscoverInputs : Feed(m, in)
    BY <1>3 DEF RunDiscover
  <2>2. in.kind \in {"review_infra_failure", "worker_failed", "phase_complete"}
    BY ErrorKinds, InKind DEF DiscoverInputs, Kinds
  <2>3. Routed(m, in)
    BY <1>3, <2>2 DEF RunDiscover, Runs, Drivable, Routed
  <2> QED BY <1>2, <2>1, <2>3, OtherInputsType
<1>4. CASE RunPlan
  <2>1. CASE \E in \in PlanFailures : Feed(m, in)
    <3>1. PICK in \in PlanFailures : Feed(m, in)
      BY <2>1
    <3>2. in.kind \in {"review_infra_failure", "worker_failed", "plan_infeasible"}
      BY ErrorKinds, InKind DEF PlanFailures, Kinds
    <3>3. Routed(m, in)
      BY <1>4, <3>2 DEF RunPlan, Runs, Drivable, Routed
    <3> QED BY <1>2, <3>1, <3>3, OtherInputsType
  <2>2. CASE \E p \in NewPlans(m) : Feed([m EXCEPT !.units = p], In("phase_complete"))
    <3>1. PICK p \in NewPlans(m) : Feed([m EXCEPT !.units = p], In("phase_complete"))
      BY <2>2
    <3> DEFINE s == [m EXCEPT !.units = p]
    <3>2. /\ s \in StepStates
          /\ s.flow = m.flow /\ s.phase = m.phase
          /\ s.findings = m.findings /\ s.replanUsed = m.replanUsed
      BY <1>1, NewPlansType DEF StepStates
    <3>3. Feed(s, In("phase_complete"))
      BY <3>1
    <3> HIDE DEF s
    <3>4. /\ In("phase_complete") \in Inputs
          /\ In("phase_complete").kind = "phase_complete"
      BY InType, InKind DEF Kinds
    <3>5. Routed(s, In("phase_complete"))
      BY <1>4, <3>2, <3>4 DEF RunPlan, Runs, Drivable, Routed
    <3> QED BY <3>2, <3>3, <3>4, <3>5, FeedRouted
  <2> QED BY <1>4, <2>1, <2>2 DEF RunPlan
<1>5. CASE RunExecute
  <2>1. PICK in \in ExecuteInputs(m, kind) : Feed(m, in)
    BY <1>5 DEF RunExecute
  <2>2. m.phase = "build"
    BY <1>5 DEF RunExecute, Runs
  <2>3. Routed(m, in)
    BY <2>2, ExecuteRouted
  <2> QED BY <1>2, <2>1, <2>3, ExecuteInputsType
<1>6. CASE RunReview
  <2>1. PICK in \in ReviewInputs(m) : Feed(m, in)
    BY <1>6 DEF RunReview
  <2>2. in.kind \in ProveKinds
    BY ReviewKinds
  <2>3. Routed(m, in)
    BY <1>6, <2>2 DEF RunReview, Runs, Drivable, Routed, ProveKinds
  <2> QED BY <1>2, <2>1, <2>3, ReviewInputsType
<1>7. CASE RunResult
  <2>1. PICK in \in ResultInputs : Feed(m, in)
    BY <1>7 DEF RunResult
  <2>2. in.kind \in {"result_complete", "result_failed"}
    BY InKind DEF ResultInputs, Kinds
  <2>3. Routed(m, in)
    BY <1>7, <2>2 DEF RunResult, Runs, Drivable, Routed
  <2> QED BY <1>2, <2>1, <2>3, OtherInputsType
<1>8. CASE RunAsks
  <2>1. Asks.kind = "ask_user"
    BY InKind DEF Asks, Kinds
  <2>2. Routed(m, Asks)
    BY <1>8, <2>1 DEF RunAsks, Drivable, Routed
  <2> QED BY <1>2, <1>8, <2>2, OtherInputsType DEF RunAsks
<1> QED BY <1>3, <1>4, <1>5, <1>6, <1>7, <1>8 DEF Turn

LEMMA VerbsRouted ==
  ASSUME RouteInv, Resume \/ Cancel \/ DecidePlan \/ ChangeRouting \/ AutoResume
  PROVE  RouteKept
<1>1. m \in StepStates
  BY DEF RouteInv, TypeOK
<1>2. ~Terminal(m.phase)
  BY DEF Resume, Cancel, DecidePlan, ChangeRouting, AutoResume, AwaitingApproval, Terminal
<1>3. ASSUME NEW k \in {"resume", "cancel", "plan_approve", "plan_replan",
                       "plan_rediscover", "route_change"},
             NEW r \in Routes, Feed(m, Plain(k, r))
      PROVE  RouteKept
  <2>1. Plain(k, r) \in Inputs
    BY PlainType DEF Kinds
  <2>2. Plain(k, r).kind = k
    BY DEF Plain
  <2>3. Routed(m, Plain(k, r))
    BY <1>2, <2>2 DEF Routed
  <2> QED BY <1>1, <1>3, <2>1, <2>3, FeedRouted
<1> QED BY <1>3, PhasesAssumption DEF Resume, Cancel, DecidePlan, ChangeRouting, AutoResume, In

\* An answer and a claimed slot change the status only.
LEMMA StatusRouted ==
  ASSUME RouteInv, AnswerAskUser \/ SweepAskTimeouts \/ ClaimWorkSlot
  PROVE  RouteKept
<1>1. PICK st \in {"idle", "working"} : m' = [m EXCEPT !.status = st]
  BY DEF AnswerAskUser, SweepAskTimeouts, AnswerPendingInput, ClaimWorkSlot
<1>2. m'.flow = m.flow /\ m'.phase = m.phase /\ m'.findings = m.findings
  BY <1>1 DEF RouteInv, TypeOK, StepStates
<1> QED BY <1>2 DEF RouteInv, RouteKept, NeverVisitsPlan

LEMMA NextRouted ==
  ASSUME RouteInv, Next
  PROVE  RouteInv' /\ RouteKept
<1>1. TypeOK'
  BY NextTypeOK DEF RouteInv
<1>2. RouteKept
  BY TurnRouted, VerbsRouted, StatusRouted DEF Next
<1>3. kind' = kind
  BY DEF Next, Turn, RunDiscover, RunPlan, RunExecute, RunReview, RunResult, RunAsks, Runs,
         Resume, Cancel, DecidePlan, ChangeRouting, AnswerAskUser, AnswerPendingInput,
         ClaimWorkSlot, AutoResume, SweepAskTimeouts
<1> QED BY <1>1, <1>2, <1>3 DEF RouteInv, RouteKept

\* For missions of any size: a coding mission reaches its result only from prove,
\* and no mission reaches it from build while a review finding is open, whatever
\* rejections, replans and resumes came before.
THEOREM NoReviewSkipped == Spec => ReviewNotSkipped
<1>1. Init => RouteInv
  <2> SUFFICES ASSUME Init, TypeOK PROVE RouteInv
    BY InitTypeOK
  <2>1. PICK flow \in Flows0, auto \in Approvals0 :
          LegalFlow(kind, flow) /\ m = Created(flow, auto)
    BY DEF Init
  <2>2. OpenFindings(ResolveAll) = {}
    BY DEF OpenFindings, ResolveAll, Closed
  <2>3. /\ m.flow = flow /\ m.findings = ResolveAll
        /\ m.phase = (IF flow = "light" THEN "build" ELSE "discover")
    BY <2>1 DEF Created, InitialPhase
  <2> QED BY <2>1, <2>2, <2>3 DEF RouteInv
<1>2. RouteInv /\ [Next]_vars => RouteInv'
  <2>1. ASSUME RouteInv, UNCHANGED vars PROVE RouteInv'
    BY <2>1, NextTypeOK DEF RouteInv, vars, NeverVisitsPlan
  <2> QED BY <2>1, NextRouted
<1>3. RouteInv /\ [Next]_vars =>
        [m'.phase = "result" /\ m.phase # "result" =>
           \/ m.phase = "prove"
           \/ kind # "coding" /\ OpenFindings(m.findings) = {}]_vars
  BY NextRouted DEF RouteKept
<1> QED BY <1>1, <1>2, <1>3, PTL DEF Spec, ReviewNotSkipped

-----------------------------------------------------------------------------
(* What every transition leaves alone, and how it pauses and ends a row. *)

\* What every transition tr from s shows: the plan keeps its units, a pause is
\* counted where it is entered, and only an ended row is done or in error.
Shaped(s, tr) ==
  /\ DOMAIN tr.next.units = DOMAIN s.units
  /\ tr.event = "paused" => tr.next.status = "paused"
  /\ tr.next.status = "paused" =>
       \/ tr.event = "paused"
       \/ tr.next.pauseReason = "approval"
       \/ s.status = "paused" /\ tr.next.pauseReason = s.pauseReason
  /\ tr.next.status \in {"done", "error"} =>
       \/ Terminal(tr.next.phase)
       \/ tr.next.status = s.status /\ tr.next.phase = s.phase

\* t differs from s in nothing that Shaped speaks of.
SameShape(s, t) ==
  /\ DOMAIN t.units = DOMAIN s.units
  /\ t.status = s.status /\ t.pauseReason = s.pauseReason /\ t.phase = s.phase

LEMMA ShapeCarries ==
  ASSUME NEW s, NEW t, NEW tr, SameShape(s, t), Shaped(t, tr)
  PROVE  Shaped(s, tr)
BY DEF SameShape, Shaped

LEMMA ParksShaped ==
  ASSUME NEW s \in StepStates, NEW r
  PROVE  /\ Shaped(s, NoOp(s))
         /\ Shaped(s, Pause(s, r))
         /\ Shaped(s, Fail(s))
         /\ Shaped(s, StepResultComplete(s))
         /\ Shaped(s, StepResume(s))
         /\ Shaped(s, ReplanTransition(s))
BY DEF Shaped, NoOp, To, Pause, WithPause, Fail, WithPhaseFailed, Enter, StepResultComplete,
       StepResume, ReplanTransition, Terminal, StepStates

LEMMA MovesShaped ==
  ASSUME NEW s \in StepStates, NEW p, NEW r, NEW e, e # "paused"
  PROVE  /\ Shaped(s, To(s, e))
         /\ Shaped(s, To(Enter(s, p), e))
         /\ Shaped(s, To([Enter(s, p) EXCEPT !.pauseReason = NoReason], e))
         /\ Shaped(s, To(WithStatus(s, "waiting_for_input"), e))
         /\ Shaped(s, To([s EXCEPT !.reviewRoute = r], e))
         /\ Shaped(s, To(WithPause(s, "approval"), e))
BY DEF Shaped, To, WithPause, WithStatus, Enter, StepStates

\* The counters of a retry are of no account.
LEMMA CountKeepsShape ==
  ASSUME NEW s \in StepStates, NEW in \in Inputs
  PROVE  /\ SameShape(s, CountHarnessRetry(s, in))
         /\ SameShape(s, CountIteration(s, in))
BY DEF SameShape, CountHarnessRetry, CountIteration, StepStates

LEMMA RetriesShaped ==
  ASSUME NEW s \in StepStates, NEW in \in Inputs
  PROVE  Shaped(s, StepWorkerFailed(s, in)) /\ Shaped(s, StepWorkerRetry(s, in))
<1>1. ASSUME NEW t \in StepStates, NEW o, Shaped(t, o) PROVE Shaped(t, Retry(t, in, o))
  BY <1>1, ParksShaped DEF Retry
<1>2. Shaped(s, StepWorkerFailed(s, in))
  <2> DEFINE failed == [s EXCEPT !.consecutiveFailures = @ + 1]
             c == CountHarnessRetry(failed, in)
             t == CountIteration(c, in)
             o == IF t.consecutiveFailures >= BackoffFailures
                  THEN Pause(t, "backoff") ELSE To(t, "retry")
  <2>1. failed \in StepStates /\ SameShape(s, failed)
    BY DEF StepStates, SameShape
  <2> HIDE DEF failed
  <2>2. c \in StepStates /\ SameShape(failed, c)
    BY <2>1, CountType, CountKeepsShape
  <2> HIDE DEF c
  <2>3. t \in StepStates /\ SameShape(c, t)
    BY <2>2, CountType, CountKeepsShape
  <2>4. SameShape(s, t)
    BY <2>1, <2>2, <2>3 DEF SameShape
  <2>5. Shaped(t, o)
    <3>1. "retry" # "paused"
      OBVIOUS
    <3> QED BY <2>3, <3>1, MovesShaped, ParksShaped
  <2> HIDE DEF t, o
  <2>6. Shaped(s, Retry(t, in, o))
    BY <1>1, <2>3, <2>4, <2>5, ShapeCarries
  <2> QED BY <2>6 DEF StepWorkerFailed, o, t, c, failed
<1>3. Shaped(s, StepWorkerRetry(s, in))
  <2> DEFINE stalls == in.fingerprint # NoFingerprint
             tracked == [s EXCEPT
               !.consecutiveFailures = 0,
               !.stallCount = IF ~stalls THEN @
                              ELSE IF in.fingerprint = s.lastGapFingerprint
                              THEN @ + 1 ELSE 1,
               !.lastGapFingerprint = IF stalls THEN in.fingerprint ELSE @]
             t == CountHarnessRetry(tracked, in)
             spent == CountIteration(t, in)
  <2>1. tracked \in StepStates
    BY TrackedType
  <2>2. SameShape(s, tracked)
    BY DEF StepStates, SameShape
  <2> HIDE DEF tracked
  <2>3. t \in StepStates /\ SameShape(tracked, t)
    BY <2>1, CountType, CountKeepsShape
  <2> HIDE DEF t
  <2>4. spent \in StepStates /\ SameShape(t, spent)
    BY <2>3, CountType, CountKeepsShape
  <2>5. SameShape(s, t) /\ SameShape(s, spent)
    BY <2>2, <2>3, <2>4 DEF SameShape
  <2> HIDE DEF spent
  <2>6. /\ Shaped(spent, To(spent, "retry"))
        /\ Shaped(t, ReplanTransition(t))
        /\ Shaped(t, Pause(t, "no_progress"))
    <3>1. "retry" # "paused"
      OBVIOUS
    <3> QED BY <2>3, <2>4, <3>1, MovesShaped, ParksShaped
  <2>7. /\ Shaped(s, Retry(spent, in, To(spent, "retry")))
        /\ Shaped(s, ReplanTransition(t))
        /\ Shaped(s, Pause(t, "no_progress"))
    BY <1>1, <2>4, <2>5, <2>6, ShapeCarries
  <2> QED BY <2>7 DEF StepWorkerRetry, spent, t, tracked
<1> QED BY <1>2, <1>3

LEMMA PhaseCompleteShaped ==
  ASSUME NEW s \in StepStates, NEW in \in Inputs
  PROVE  Shaped(s, StepPhaseComplete(s, in))
<1> DEFINE t == IF s.phase = "build" /\ in.touched.known
                THEN [s EXCEPT !.findings = MarkUntouched(s.findings, in.touched)]
                ELSE s
<1>1. t \in StepStates
  <2>1. MarkUntouched(s.findings, in.touched) \in Ledgers
    BY MarkUntouchedType DEF StepStates, Inputs
  <2> QED BY <2>1 DEF StepStates
<1>2. SameShape(s, t)
  BY DEF StepStates, SameShape
<1> HIDE DEF t
<1>3. /\ \A p : Shaped(t, To(Enter(t, p), "generate_continued"))
      /\ \A p : Shaped(t, To(Enter(t, p), "phase_started"))
      /\ Shaped(t, To(WithPause(t, "approval"), "plan_awaiting_approval"))
      /\ Shaped(s, NoOp(s))
  <2>1. /\ "generate_continued" # "paused" /\ "phase_started" # "paused"
        /\ "plan_awaiting_approval" # "paused"
    OBVIOUS
  <2> QED BY <1>1, <2>1, MovesShaped, ParksShaped
<1>4. /\ \A p : Shaped(s, To(Enter(t, p), "generate_continued"))
      /\ \A p : Shaped(s, To(Enter(t, p), "phase_started"))
      /\ Shaped(s, To(WithPause(t, "approval"), "plan_awaiting_approval"))
  BY <1>2, <1>3, ShapeCarries
<1> QED BY <1>3, <1>4 DEF StepPhaseComplete, t

LEMMA ReviewsShaped ==
  ASSUME NEW s \in StepStates, NEW in \in Inputs
  PROVE  Shaped(s, StepReviewApprove(s)) /\ Shaped(s, StepReviewRework(s, in))
<1>1. Shaped(s, StepReviewApprove(s))
  <2>1. DOMAIN PassHarnessVerified(s.units) = DOMAIN s.units
    BY PassHarnessVerifiedType DEF StepStates
  <2> DEFINE tr == StepReviewApprove(s)
  <2>2. /\ tr.next.units = PassHarnessVerified(s.units)
        /\ tr.next.status = "idle"
        /\ tr.event \in {"phase_started", "unit_verified"}
    BY DEF StepReviewApprove, Enter, To, StepStates
  <2> HIDE DEF tr
  <2> QED BY <2>1, <2>2 DEF Shaped, tr
<1>2. Shaped(s, StepReviewRework(s, in))
  <2> DEFINE t == [s EXCEPT
               !.reworkRounds = @ + 1,
               !.findings = MergeFindings(s.findings, in.reported, in.resolved),
               !.phase = "build", !.status = "idle"]
  <2>1. t \in StepStates
    BY ReworkedType
  <2>2. t.units = s.units /\ t.status = "idle"
    BY DEF StepStates
  <2> HIDE DEF t
  <2>3. /\ Shaped(t, Pause(t, "no_progress"))
        /\ Shaped(t, Pause(t, "review_exhausted"))
    BY <2>1, ParksShaped
  <2>4. Shaped(t, To([t EXCEPT !.iteration = @ + 1], "review_verdict"))
    BY <2>1 DEF Shaped, To, StepStates
  <2>5. ASSUME NEW tr, Shaped(t, tr) PROVE Shaped(s, tr)
    BY <2>2, <2>5 DEF Shaped
  <2> QED BY <2>3, <2>4, <2>5 DEF StepReviewRework, t
<1> QED BY <1>1, <1>2

LEMMA StepShaped ==
  ASSUME NEW s \in StepStates, NEW in \in Inputs, NEW spend
  PROVE  Shaped(s, Step(s, in, spend))
<1> DEFINE t == [s EXCEPT !.units = ApplyVerification(s.units, in.verified)]
<1>1. t \in StepStates
  BY VerifyKeeps
<1>2. SameShape(s, t)
  <2>1. DOMAIN ApplyVerification(s.units, in.verified) = DOMAIN s.units
    BY DEF ApplyVerification
  <2> QED BY <2>1 DEF SameShape, StepStates
<1> HIDE DEF t
<1>3. /\ Shaped(t, NoOp(t)) /\ Shaped(t, Fail(t)) /\ Shaped(t, StepResume(t))
      /\ Shaped(t, StepResultComplete(t)) /\ Shaped(t, ReplanTransition(t))
      /\ \A r : Shaped(t, Pause(t, r))
      /\ Shaped(s, NoOp(s)) /\ Shaped(s, Fail(s))
  BY <1>1, ParksShaped
<1>4. /\ Shaped(t, StepPlanApprove(t))
      /\ Shaped(t, StepPlanReplan(t))
      /\ Shaped(t, StepPlanRediscover(t))
      /\ Shaped(t, StepRouteChange(t, in))
      /\ Shaped(t, StepWorkerBlocked(t))
      /\ Shaped(t, To(WithStatus(t, "waiting_for_input"), "none"))
  <2>1. \A e \in {"plan_approved", "plan_replan_requested", "rediscover_requested",
                  "route_changed", "blocked", "none"} : e # "paused"
    OBVIOUS
  <2>2. ASSUME NEW e \in {"plan_approved", "plan_replan_requested", "rediscover_requested",
                          "route_changed", "blocked", "none"}
        PROVE  /\ \A p : Shaped(t, To([Enter(t, p) EXCEPT !.pauseReason = NoReason], e))
               /\ \A r : Shaped(t, To([t EXCEPT !.reviewRoute = r], e))
               /\ Shaped(t, To(WithStatus(t, "waiting_for_input"), e))
    BY <1>1, <2>1, MovesShaped, ParksShaped
  <2> QED BY <1>3, <2>2 DEF StepPlanApprove, StepPlanReplan, StepPlanRediscover,
                            StepRouteChange, StepWorkerBlocked
<1>5. Shaped(t, StepSwitch(t, in))
  BY <1>1, <1>3, <1>4, RetriesShaped, PhaseCompleteShaped, ReviewsShaped DEF StepSwitch
<1>6. Shaped(t, StepInput(t, in, spend))
  BY <1>3, <1>5 DEF StepInput
<1>7. Shaped(s, StepInput(t, in, spend))
  BY <1>2, <1>6, ShapeCarries
<1> QED BY <1>3, <1>7 DEF Step, t

-----------------------------------------------------------------------------
(* Everything a mission does by itself uses something up. *)

\* Where the turns' measure falls.
LEMMA TurnsLess ==
  ASSUME NEW s, NEW n,
         \/ ~s.replanUsed /\ n.replanUsed
         \/ /\ n.replanUsed = s.replanUsed
            /\ \/ Left(HarnessRetryCap, n.harnessRetries) < Left(HarnessRetryCap, s.harnessRetries)
               \/ /\ n.harnessRetries = s.harnessRetries
                  /\ \/ s.phase # "result" /\ n.phase = "result"
                     \/ /\ s.phase # "result" /\ n.phase # "result"
                        /\ \/ Left(MaxIterations, n.reworkRounds) < Left(MaxIterations, s.reworkRounds)
                           \/ n.reworkRounds = s.reworkRounds /\ Round[n.phase] < Round[s.phase]
                     \/ /\ n.phase = s.phase /\ n.reworkRounds = s.reworkRounds
                        /\ \/ Left(MaxIterations, n.iteration) < Left(MaxIterations, s.iteration)
                           \/ n.iteration = s.iteration /\ s.status = "idle" /\ n.status # "idle"
  PROVE  Less(TurnsLeft(n), TurnsLeft(s))
<1> DEFINE d == TurnsLeft(n)
           e == TurnsLeft(s)
<1>1. /\ DOMAIN e = 1 .. 7
      /\ \A x : /\ TurnsLeft(x)[1] = (IF x.replanUsed THEN 0 ELSE 1)
                /\ TurnsLeft(x)[2] = Left(HarnessRetryCap, x.harnessRetries)
                /\ TurnsLeft(x)[3] = (IF x.phase = "result" THEN 0 ELSE 1)
                /\ TurnsLeft(x)[4] = Left(MaxIterations, x.reworkRounds)
                /\ TurnsLeft(x)[5] = Round[x.phase]
                /\ TurnsLeft(x)[6] = Left(MaxIterations, x.iteration)
                /\ TurnsLeft(x)[7] = (IF x.status = "idle" THEN 1 ELSE 0)
  BY DEF TurnsLeft
<1>2. /\ d[1] = (IF n.replanUsed THEN 0 ELSE 1) /\ e[1] = (IF s.replanUsed THEN 0 ELSE 1)
      /\ d[2] = Left(HarnessRetryCap, n.harnessRetries) /\ e[2] = Left(HarnessRetryCap, s.harnessRetries)
      /\ d[3] = (IF n.phase = "result" THEN 0 ELSE 1) /\ e[3] = (IF s.phase = "result" THEN 0 ELSE 1)
      /\ d[4] = Left(MaxIterations, n.reworkRounds) /\ e[4] = Left(MaxIterations, s.reworkRounds)
      /\ d[5] = Round[n.phase] /\ e[5] = Round[s.phase]
      /\ d[6] = Left(MaxIterations, n.iteration) /\ e[6] = Left(MaxIterations, s.iteration)
      /\ d[7] = (IF n.status = "idle" THEN 1 ELSE 0) /\ e[7] = (IF s.status = "idle" THEN 1 ELSE 0)
  BY <1>1
<1> HIDE DEF d, e
<1>3. \/ d[1] < e[1]
      \/ d[2] < e[2] /\ d[1] = e[1]
      \/ d[3] < e[3] /\ d[1] = e[1] /\ d[2] = e[2]
      \/ d[4] < e[4] /\ d[1] = e[1] /\ d[2] = e[2] /\ d[3] = e[3]
      \/ d[5] < e[5] /\ d[1] = e[1] /\ d[2] = e[2] /\ d[3] = e[3] /\ d[4] = e[4]
      \/ d[6] < e[6] /\ d[1] = e[1] /\ d[2] = e[2] /\ d[3] = e[3] /\ d[4] = e[4] /\ d[5] = e[5]
      \/ d[7] < e[7] /\ d[1] = e[1] /\ d[2] = e[2] /\ d[3] = e[3] /\ d[4] = e[4] /\ d[5] = e[5]
                     /\ d[6] = e[6]
  BY <1>2
<1>4. \E k \in 1 .. 7 : d[k] < e[k] /\ \A j \in 1 .. k - 1 : d[j] = e[j]
  BY <1>3
<1> QED BY <1>1, <1>4 DEF Less, d, e

LEMMA LeftFalls ==
  ASSUME NEW max \in Nat, NEW u \in Nat, u < max
  PROVE  Left(max, u + 1) < Left(max, u)
BY DEF Left

\* A plan with unverified units has a current one.
LEMMA FirstUnit ==
  ASSUME NEW units \in Plans, UnverifiedUnits(units) # {}
  PROVE  CurrentUnits(units) # {}
<1>1. UnverifiedUnits(units) \subseteq Nat
  BY PlanIsFunction, DataAssumption DEF UnverifiedUnits, Units
<1>2. PICK x \in UnverifiedUnits(units) :
        \A y \in UnverifiedUnits(units) : ~(<<y, x>> \in OpToRel(<, Nat))
  BY <1>1, NatLessThanWellFounded, WFMin
<1>3. ASSUME NEW y \in Nat, NEW z \in Nat, y < z
      PROVE  <<y, z>> \in OpToRel(<, Nat)
  BY <1>3 DEF OpToRel
<1>4. \A y \in UnverifiedUnits(units) : x <= y
  <2>1. \A y \in UnverifiedUnits(units) : ~(y < x)
    BY <1>1, <1>2, <1>3
  <2> QED BY <1>1, <2>1
<1> QED BY <1>4 DEF CurrentUnits

\* A batch pass without failures that covers the current unit verifies it, and
\* takes back nothing.
Covers(s, in) ==
  /\ FailedUnits(in.verified) = {}
  /\ CurrentUnits(s.units) \subseteq DOMAIN in.verified

LEMMA CoveredUnits ==
  ASSUME NEW s \in StepStates, NEW in \in Inputs, Covers(s, in),
         NEW after, after \subseteq UnverifiedUnits(ApplyVerification(s.units, in.verified)),
         after # {}
  PROVE  \E x \in CurrentUnits(s.units) : x \notin after
<1> DEFINE p == ApplyVerification(s.units, in.verified)
<1>1. /\ in.verified \in [DOMAIN in.verified -> BOOLEAN]
      /\ \A x \in DOMAIN in.verified : in.verified[x]
  BY DEF Inputs, Verifications, Covers, FailedUnits
<1>2. s.units \in [DOMAIN s.units -> UnitStates] /\ s.units \in Plans
  BY PlanIsFunction DEF StepStates
<1>3. \A x \in DOMAIN s.units : x \in DOMAIN in.verified => Verified(p[x])
  BY <1>1, <1>2 DEF ApplyVerification, Verified, UnitStates
<1>4. \A x \in DOMAIN s.units : x \notin DOMAIN in.verified => p[x] = s.units[x]
  BY DEF ApplyVerification
<1>5. DOMAIN p = DOMAIN s.units
  BY DEF ApplyVerification
<1> HIDE DEF p
<1>6. UnverifiedUnits(p) \subseteq UnverifiedUnits(s.units) \ DOMAIN in.verified
  BY <1>3, <1>4, <1>5 DEF UnverifiedUnits
<1>7. after \subseteq UnverifiedUnits(p)
  BY DEF p
<1>8. PICK x \in CurrentUnits(s.units) : TRUE
  BY <1>2, <1>6, <1>7, FirstUnit
<1>9. x \in DOMAIN in.verified
  BY DEF Covers
<1> QED BY <1>6, <1>7, <1>9

-----------------------------------------------------------------------------

\* A retry's counters: t is s with one more harness retry or iteration.
LEMMA RetryDown ==
  ASSUME NEW s \in StepStates, NEW t \in StepStates, NEW in \in Inputs, NEW o,
         t.harnessRetries = s.harnessRetries + (IF in.harnessCaused THEN 1 ELSE 0),
         t.iteration = s.iteration + (IF in.harnessCaused THEN 0 ELSE 1),
         t.reworkRounds = s.reworkRounds, t.replanUsed = s.replanUsed, t.phase = s.phase,
         o = To(t, "retry") \/ o = Pause(t, "backoff"),
         Drivable(Retry(t, in, o).next)
  PROVE  Less(TurnsLeft(Retry(t, in, o).next), TurnsLeft(s))
<1>1. ~Drivable(Pause(t, "no_progress").next) /\ ~Drivable(Pause(t, "backoff").next)
      /\ ~Drivable(Fail(t).next)
  BY ParkCounters DEF Drivable
<1>2. Retry(t, in, o).next = t
  BY <1>1 DEF Retry, To
<1>3. /\ s.harnessRetries \in Nat /\ s.iteration \in Nat
      /\ HarnessRetryCap \in Nat /\ MaxIterations \in Nat
  BY CeilingsAssumption DEF StepStates
<1>4. CASE in.harnessCaused
  <2>1. ~HarnessRetryExhausted(t)
    BY <1>1, <1>4 DEF Retry
  <2>2. t.harnessRetries = s.harnessRetries + 1 /\ s.harnessRetries < HarnessRetryCap
    BY <1>3, <1>4, <2>1 DEF HarnessRetryExhausted
  <2>3. Left(HarnessRetryCap, t.harnessRetries) < Left(HarnessRetryCap, s.harnessRetries)
    BY <1>3, <2>2, LeftFalls
  <2> QED BY <1>2, <2>3, TurnsLess
<1>5. CASE ~in.harnessCaused
  <2>1. ~IterationsExhausted(t)
    BY <1>1, <1>5 DEF Retry
  <2>2. t.iteration = s.iteration + 1 /\ s.iteration < MaxIterations
    BY <1>3, <1>5, <2>1 DEF IterationsExhausted
  <2>3. Left(MaxIterations, t.iteration) < Left(MaxIterations, s.iteration)
    BY <1>3, <2>2, LeftFalls
  <2>4. t.harnessRetries = s.harnessRetries
    BY <1>3, <1>5
  <2> QED BY <1>2, <2>3, <2>4, TurnsLess
<1> QED BY <1>4, <1>5

LEMMA WorkerFailedDown ==
  ASSUME NEW s \in StepStates, NEW in \in Inputs, Drivable(StepWorkerFailed(s, in).next)
  PROVE  Less(TurnsLeft(StepWorkerFailed(s, in).next), TurnsLeft(s))
<1> DEFINE failed == [s EXCEPT !.consecutiveFailures = @ + 1]
           c == CountHarnessRetry(failed, in)
           t == CountIteration(c, in)
           o == IF t.consecutiveFailures >= BackoffFailures
                THEN Pause(t, "backoff") ELSE To(t, "retry")
<1>1. /\ failed \in StepStates
      /\ failed.harnessRetries = s.harnessRetries /\ failed.iteration = s.iteration
      /\ failed.reworkRounds = s.reworkRounds /\ failed.replanUsed = s.replanUsed
      /\ failed.phase = s.phase
  BY DEF StepStates
<1> HIDE DEF failed
<1>2. c \in StepStates /\ t \in StepStates
  BY <1>1, CountType
<1>3. /\ c.harnessRetries = failed.harnessRetries + (IF in.harnessCaused THEN 1 ELSE 0)
      /\ c.iteration = failed.iteration /\ Counted(failed, c)
  BY <1>1, CountCounted
<1> HIDE DEF c
<1>4. /\ t.iteration = c.iteration + (IF in.harnessCaused THEN 0 ELSE 1)
      /\ t.harnessRetries = c.harnessRetries /\ Counted(c, t)
  BY <1>2, CountCounted
<1>5. o = To(t, "retry") \/ o = Pause(t, "backoff")
  OBVIOUS
<1> HIDE DEF t, o
<1>6. StepWorkerFailed(s, in) = Retry(t, in, o)
  BY DEF StepWorkerFailed, o, t, c, failed
<1> QED BY <1>1, <1>2, <1>3, <1>4, <1>5, <1>6, RetryDown DEF Counted

LEMMA ReplanDown ==
  ASSUME NEW s \in StepStates, CanReplan(s)
  PROVE  Less(TurnsLeft(ReplanTransition(s).next), TurnsLeft(s))
<1>1. ReplanTransition(s).next.replanUsed
  BY DEF ReplanTransition, Enter, To, StepStates
<1> QED BY <1>1, TurnsLess DEF CanReplan

LEMMA WorkerRetryDown ==
  ASSUME NEW s \in StepStates, NEW in \in Inputs, Drivable(StepWorkerRetry(s, in).next)
  PROVE  Less(TurnsLeft(StepWorkerRetry(s, in).next), TurnsLeft(s))
<1> DEFINE stalls == in.fingerprint # NoFingerprint
           tracked == [s EXCEPT
             !.consecutiveFailures = 0,
             !.stallCount = IF ~stalls THEN @
                            ELSE IF in.fingerprint = s.lastGapFingerprint
                            THEN @ + 1 ELSE 1,
             !.lastGapFingerprint = IF stalls THEN in.fingerprint ELSE @]
           t == CountHarnessRetry(tracked, in)
           spent == CountIteration(t, in)
           n == StepWorkerRetry(s, in).next
<1>1. tracked \in StepStates
  BY TrackedType
<1>2. /\ tracked.harnessRetries = s.harnessRetries /\ tracked.iteration = s.iteration
      /\ tracked.reworkRounds = s.reworkRounds /\ tracked.replanUsed = s.replanUsed
      /\ tracked.phase = s.phase
  BY DEF StepStates
<1> HIDE DEF tracked
<1>3. t \in StepStates /\ spent \in StepStates
  BY <1>1, CountType
<1>4. /\ t.harnessRetries = s.harnessRetries + (IF in.harnessCaused THEN 1 ELSE 0)
      /\ t.iteration = s.iteration /\ t.reworkRounds = s.reworkRounds
      /\ t.replanUsed = s.replanUsed /\ t.phase = s.phase
  BY <1>1, <1>2, CountCounted DEF Counted
<1> HIDE DEF t
<1>5. /\ spent.harnessRetries = t.harnessRetries
      /\ spent.iteration = t.iteration + (IF in.harnessCaused THEN 0 ELSE 1)
      /\ spent.reworkRounds = t.reworkRounds
      /\ spent.replanUsed = t.replanUsed /\ spent.phase = t.phase
  BY <1>3, CountCounted DEF Counted
<1> HIDE DEF spent
<1>6. \/ n = Retry(spent, in, To(spent, "retry")).next
      \/ n = ReplanTransition(t).next /\ CanReplan(t)
      \/ n = Pause(t, "no_progress").next
  BY DEF StepWorkerRetry, spent, t, tracked
<1>7. Drivable(n)
  OBVIOUS
<1> SUFFICES Less(TurnsLeft(n), TurnsLeft(s))
  OBVIOUS
<1> HIDE DEF n
<1>8. CASE n = Retry(spent, in, To(spent, "retry")).next
  BY <1>3, <1>4, <1>5, <1>7, <1>8, RetryDown
<1>9. CASE n = ReplanTransition(t).next /\ CanReplan(t)
  <2>1. n.replanUsed
    BY <1>3, <1>9 DEF ReplanTransition, Enter, To, StepStates
  <2>2. ~s.replanUsed
    BY <1>4, <1>9 DEF CanReplan
  <2> QED BY <2>1, <2>2, TurnsLess
<1>10. CASE n = Pause(t, "no_progress").next
  BY <1>3, <1>7, <1>10, ParkCounters DEF Drivable
<1> QED BY <1>6, <1>8, <1>9, <1>10

LEMMA PhaseCompleteDown ==
  ASSUME NEW s \in StepStates, NEW in \in Inputs,
         \/ s.phase = "discover"
         \/ s.phase \in {"plan", "build"} /\ ~NeverVisitsPlan(s),
         Drivable(StepPhaseComplete(s, in).next)
  PROVE  LET n == StepPhaseComplete(s, in).next
         IN  \/ Less(TurnsLeft(n), TurnsLeft(s))
             \/ s.phase = "build" /\ n.units = s.units /\ UnverifiedUnits(s.units) # {}
<1> DEFINE t == IF s.phase = "build" /\ in.touched.known
                THEN [s EXCEPT !.findings = MarkUntouched(s.findings, in.touched)]
                ELSE s
           next == NextPhases(t.flow, t.phase)
           q == CHOOSE p \in next : TRUE
           n == StepPhaseComplete(s, in).next
<1>1. t \in StepStates
  <2>1. MarkUntouched(s.findings, in.touched) \in Ledgers
    BY MarkUntouchedType DEF StepStates, Inputs
  <2> QED BY <2>1 DEF StepStates
<1>2. /\ t.phase = s.phase /\ t.flow = s.flow /\ t.units = s.units
      /\ t.replanUsed = s.replanUsed /\ t.harnessRetries = s.harnessRetries
      /\ t.reworkRounds = s.reworkRounds
  BY DEF StepStates
<1>3. next # {} /\ next \subseteq {p \in Phases : p # "result" /\ Round[p] < Round[s.phase]}
  <2>1. CASE s.phase = "discover"
    BY <1>2, <2>1 DEF NextPhases, Ordered, Phases, Round
  <2>2. CASE s.phase \in {"plan", "build"} /\ ~NeverVisitsPlan(s)
    BY <1>2, <2>2 DEF NextPhases, Ordered, Phases, Round, NeverVisitsPlan
  <2> QED BY <2>1, <2>2
<1>4. s.phase # "result"
  OBVIOUS
<1>5. q \in Phases /\ q # "result" /\ Round[q] < Round[s.phase]
  BY <1>3
<1>6. \/ n = WithPause(t, "approval")
      \/ n = Enter(t, "build") /\ t.phase = "build" /\ UnverifiedUnits(t.units) # {}
      \/ n = Enter(t, q)
  BY <1>3 DEF StepPhaseComplete, t, next, q, To, NoOp
<1>7. Drivable(n)
  OBVIOUS
<1> SUFFICES \/ Less(TurnsLeft(n), TurnsLeft(s))
             \/ s.phase = "build" /\ n.units = s.units /\ UnverifiedUnits(s.units) # {}
  OBVIOUS
<1> HIDE DEF n, q, next, t
<1>8. CASE n = WithPause(t, "approval")
  <2>1. n.status = "paused"
    BY <1>1, <1>8 DEF WithPause, StepStates
  <2> QED BY <1>7, <2>1 DEF Drivable
<1>9. CASE n = Enter(t, "build") /\ t.phase = "build" /\ UnverifiedUnits(t.units) # {}
  <2>1. n.units = t.units
    BY <1>1, <1>9 DEF Enter, StepStates
  <2> QED BY <1>2, <1>9, <2>1
<1>10. CASE n = Enter(t, q)
  <2>1. /\ n.phase = q /\ n.replanUsed = t.replanUsed
        /\ n.harnessRetries = t.harnessRetries /\ n.reworkRounds = t.reworkRounds
    BY <1>1, <1>10 DEF Enter, StepStates
  <2> QED BY <1>2, <1>4, <1>5, <2>1, TurnsLess
<1> QED BY <1>6, <1>8, <1>9, <1>10

LEMMA ReviewApproveDown ==
  ASSUME NEW s \in StepStates, s.phase # "result"
  PROVE  LET n == StepReviewApprove(s).next
         IN  \/ Less(TurnsLeft(n), TurnsLeft(s))
             \/ /\ UnverifiedUnits(n.units) # {}
                /\ UnverifiedUnits(n.units) \subseteq UnverifiedUnits(s.units)
<1> DEFINE p == PassHarnessVerified(s.units)
           t == [s EXCEPT !.stallCount = 0, !.lastGapFingerprint = NoFingerprint,
                          !.findings = ResolveAll, !.reworkRounds = 0, !.units = p]
           r == [t EXCEPT !.phase = "result", !.status = "idle"]
           b == Enter(t, "build")
           n == StepReviewApprove(s).next
<1>1. p \in Plans /\ DOMAIN p = DOMAIN s.units
  BY PassHarnessVerifiedType DEF StepStates
<1>2. \A x \in DOMAIN s.units :
        /\ p[x].passes <=> s.units[x].passes \/ s.units[x].harnessPassed
        /\ p[x].harnessPassed = s.units[x].harnessPassed
        /\ p[x].passes \in BOOLEAN
  <2>1. s.units \in [DOMAIN s.units -> UnitStates]
    BY PlanIsFunction DEF StepStates
  <2> QED BY <2>1 DEF PassHarnessVerified, UnitStates
<1> HIDE DEF p
<1>3. /\ t \in StepStates
      /\ t.units = p /\ t.replanUsed = s.replanUsed /\ t.harnessRetries = s.harnessRetries
  <2>1. ResolveAll \in Ledgers
    BY DEF ResolveAll, Ledgers, Closed, FindingStates
  <2> QED BY <1>1, <2>1 DEF StepStates
<1>4. n = IF AllPassed(p) THEN r ELSE b
  BY <1>3 DEF StepReviewApprove, t, p, To
<1> HIDE DEF t
<1>5. /\ r.phase = "result" /\ r.replanUsed = t.replanUsed /\ r.harnessRetries = t.harnessRetries
      /\ b.units = t.units
  BY <1>3 DEF Enter, StepStates
<1> HIDE DEF r, b, n
<1>6. CASE AllPassed(p)
  <2>1. Less(TurnsLeft(n), TurnsLeft(s))
    BY <1>3, <1>4, <1>5, <1>6, TurnsLess
  <2> QED BY <2>1 DEF n
<1>7. CASE ~AllPassed(p)
  <2>1. n.units = p
    BY <1>3, <1>4, <1>5, <1>7
  <2>2. UnverifiedUnits(p) # {} /\ UnverifiedUnits(p) \subseteq UnverifiedUnits(s.units)
    BY <1>1, <1>2, <1>7 DEF AllPassed, UnverifiedUnits, Verified
  <2> QED BY <2>1, <2>2 DEF n
<1> QED BY <1>6, <1>7

LEMMA ReviewReworkDown ==
  ASSUME NEW s \in StepStates, NEW in \in Inputs, s.phase = "prove",
         Drivable(StepReviewRework(s, in).next)
  PROVE  Less(TurnsLeft(StepReviewRework(s, in).next), TurnsLeft(s))
<1> DEFINE t == [s EXCEPT
             !.reworkRounds = @ + 1,
             !.findings = MergeFindings(s.findings, in.reported, in.resolved),
             !.phase = "build", !.status = "idle"]
           o == [t EXCEPT !.iteration = @ + 1]
           n == StepReviewRework(s, in).next
<1>1. t \in StepStates
  BY ReworkedType
<1>2. /\ t.harnessRetries = s.harnessRetries /\ t.reworkRounds = s.reworkRounds + 1
      /\ t.replanUsed = s.replanUsed /\ t.phase = "build"
  BY DEF StepStates
<1> HIDE DEF t
<1>3. /\ o.harnessRetries = t.harnessRetries /\ o.reworkRounds = t.reworkRounds
      /\ o.replanUsed = t.replanUsed /\ o.phase = t.phase
  BY <1>1 DEF StepStates
<1> HIDE DEF o
<1>4. \/ n = Pause(t, "no_progress").next
      \/ n = Pause(t, "review_exhausted").next
      \/ n = o /\ ~ReworkExhausted(t)
  BY DEF StepReviewRework, t, o, To
<1>5. Drivable(n)
  OBVIOUS
<1> SUFFICES Less(TurnsLeft(n), TurnsLeft(s))
  OBVIOUS
<1> HIDE DEF n
<1>6. n = o /\ ~ReworkExhausted(t)
  BY <1>1, <1>4, <1>5, ParkCounters DEF Drivable
<1>7. /\ s.reworkRounds \in Nat /\ MaxIterations \in Nat
      /\ s.reworkRounds < MaxIterations
  BY <1>2, <1>6, CeilingsAssumption DEF StepStates, ReworkExhausted
<1>8. Left(MaxIterations, n.reworkRounds) < Left(MaxIterations, s.reworkRounds)
  BY <1>2, <1>3, <1>6, <1>7, LeftFalls
<1> QED BY <1>2, <1>3, <1>6, <1>8, TurnsLess

\* What a turn of a mission in state s may report, as far as its progress goes.
Own(s, in) ==
  /\ Drivable(s)
  /\ in.kind \in {"phase_complete", "worker_retry", "worker_blocked", "plan_defect",
                  "worker_failed", "review_approve", "review_rework",
                  "review_infra_failure", "review_budget", "plan_infeasible",
                  "result_complete", "result_failed", "ask_user"}
  /\ in.kind = "plan_infeasible" => s.phase = "plan"
  /\ in.kind = "phase_complete" =>
       \/ s.phase \in {"discover", "plan"}
       \/ s.phase = "build" /\ Covers(s, in)
  /\ in.kind = "phase_complete" /\ s.phase # "discover" => ~NeverVisitsPlan(s)
  /\ in.kind = "review_approve" => s.phase \in {"build", "prove"} /\ Covers(s, in)
  /\ in.kind = "review_rework" => s.phase = "prove"

\* Every turn that leaves the mission drivable uses up one of its bounds or
\* completes a unit.
LEMMA StepDown ==
  ASSUME NEW s \in StepStates, NEW in \in Inputs, NEW spend, Own(s, in),
         Drivable(Step(s, in, spend).next)
  PROVE  LET n == Step(s, in, spend).next
         IN  \/ Less(TurnsLeft(n), TurnsLeft(s))
             \/ s.phase # "plan" /\ UnitDone(s, n)
<1> DEFINE p == ApplyVerification(s.units, in.verified)
           t == [s EXCEPT !.units = p]
           n == Step(s, in, spend).next
<1>1. t \in StepStates
  BY VerifyKeeps
<1>2. /\ t.units = p /\ t.phase = s.phase /\ t.flow = s.flow /\ t.status = s.status
      /\ TurnsLeft(t) = TurnsLeft(s)
  BY DEF StepStates, TurnsLeft
<1>3. n = StepInput(t, in, spend).next
  BY DEF Step, Own
<1>4. ASSUME NEW k \in StepStates, Covers(s, in), s.phase # "plan",
             UnverifiedUnits(k.units) # {},
             UnverifiedUnits(k.units) \subseteq UnverifiedUnits(p)
      PROVE  s.phase # "plan" /\ UnitDone(s, k)
  BY <1>4, CoveredUnits DEF UnitDone
<1>5. Drivable(n) /\ n \in StepStates
  BY StepType
<1> SUFFICES \/ Less(TurnsLeft(n), TurnsLeft(s))
             \/ s.phase # "plan" /\ UnitDone(s, n)
  OBVIOUS
<1> HIDE DEF n, t, p
<1>6. ~Terminal(t.phase) /\ t.phase = s.phase
  BY <1>2 DEF Own, Drivable
<1>7. /\ \A r : ~Drivable(Pause(t, r).next)
      /\ ~Drivable(Fail(t).next)
      /\ ~Drivable(StepWorkerBlocked(t).next)
      /\ ~Drivable(To(WithStatus(t, "waiting_for_input"), "none").next)
      /\ ~Drivable(StepResultComplete(t).next)
  <2>1. \A r : ~Drivable(Pause(t, r).next) /\ ~Drivable(Fail(t).next)
    BY <1>1, ParkCounters DEF Drivable
  <2>2. /\ ~Drivable(StepWorkerBlocked(t).next)
        /\ ~Drivable(To(WithStatus(t, "waiting_for_input"), "none").next)
        /\ ~Drivable(StepResultComplete(t).next)
    BY <1>1 DEF Drivable, StepWorkerBlocked, WithStatus, StepResultComplete, To, StepStates
  <2> QED BY <2>1, <2>2
<1>8. n = StepSwitch(t, in).next
  BY <1>3, <1>5, <1>6, <1>7 DEF StepInput
<1>9. CASE in.kind = "phase_complete"
  <2>1. n = StepPhaseComplete(t, in).next
    BY <1>8, <1>9 DEF StepSwitch
  <2>2. \/ t.phase = "discover"
        \/ t.phase \in {"plan", "build"} /\ ~NeverVisitsPlan(t)
    BY <1>2, <1>9 DEF Own, NeverVisitsPlan
  <2>3. \/ Less(TurnsLeft(n), TurnsLeft(t))
        \/ t.phase = "build" /\ n.units = t.units /\ UnverifiedUnits(t.units) # {}
    BY <1>1, <1>5, <2>1, <2>2, PhaseCompleteDown
  <2> QED BY <1>2, <1>4, <1>5, <1>9, <2>3 DEF Own
<1>10. CASE in.kind = "review_approve"
  <2>1. n = StepReviewApprove(t).next
    BY <1>8, <1>10 DEF StepSwitch
  <2>2. \/ Less(TurnsLeft(n), TurnsLeft(t))
        \/ /\ UnverifiedUnits(n.units) # {}
           /\ UnverifiedUnits(n.units) \subseteq UnverifiedUnits(t.units)
    BY <1>1, <1>2, <1>10, <2>1, ReviewApproveDown DEF Own
  <2> QED BY <1>2, <1>4, <1>5, <1>10, <2>2 DEF Own
<1>11. CASE in.kind = "review_rework"
  <2>1. n = StepReviewRework(t, in).next
    BY <1>8, <1>11 DEF StepSwitch
  <2> QED BY <1>1, <1>2, <1>5, <1>11, <2>1, ReviewReworkDown DEF Own
<1>12. CASE in.kind = "worker_failed"
  <2>1. n = StepWorkerFailed(t, in).next
    BY <1>8, <1>12 DEF StepSwitch
  <2> QED BY <1>1, <1>2, <1>5, <2>1, WorkerFailedDown
<1>13. CASE in.kind = "worker_retry"
  <2>1. n = StepWorkerRetry(t, in).next
    BY <1>8, <1>13 DEF StepSwitch
  <2> QED BY <1>1, <1>2, <1>5, <2>1, WorkerRetryDown
<1>14. CASE in.kind = "plan_defect"
  <2>1. n = IF CanReplan(t) THEN ReplanTransition(t).next ELSE StepWorkerBlocked(t).next
    BY <1>8, <1>14 DEF StepSwitch
  <2> QED BY <1>1, <1>2, <1>5, <1>7, <2>1, ReplanDown
<1>15. CASE in.kind \in {"worker_blocked", "review_infra_failure", "review_budget",
                         "plan_infeasible", "result_complete", "result_failed", "ask_user"}
  <2>1. \/ \E r : n = Pause(t, r).next
        \/ n = Fail(t).next
        \/ n = StepWorkerBlocked(t).next
        \/ n = To(WithStatus(t, "waiting_for_input"), "none").next
        \/ n = StepResultComplete(t).next
    BY <1>2, <1>8, <1>15 DEF StepSwitch, Own
  <2> QED BY <1>5, <1>7, <2>1
<1> QED BY <1>9, <1>10, <1>11, <1>12, <1>13, <1>14, <1>15 DEF Own

\* Only a turn that finishes its work reports the phase complete or approved.
LEMMA OtherExecuteKinds ==
  ASSUME NEW s, NEW knd, NEW in \in ExecuteInputs(s, knd), ~SkipsBuild(s),
         in \notin DoneInputs(s, knd)
  PROVE  in.kind \notin {"phase_complete", "review_approve"}
<1>1. \A k \in BuildKinds : In(k).kind = k
  BY InKind DEF BuildKinds, Kinds
<1>2. ASSUME in \in ForcedRetries \cup SkippedPaths(knd) PROVE in.kind = "worker_retry"
  <2>1. In("worker_retry") \in Inputs /\ In("worker_retry").kind = "worker_retry"
    BY <1>1, InType DEF BuildKinds, Kinds
  <2>2. ASSUME NEW f
        PROVE  /\ [In("worker_retry") EXCEPT !.harnessCaused = TRUE,
                                             !.fingerprint = f].kind = "worker_retry"
               /\ [In("worker_retry") EXCEPT !.fingerprint = f].kind = "worker_retry"
    BY <2>1, FieldsKeepKind
  <2> QED BY <1>2, <2>2 DEF ForcedRetries, SkippedPaths
<1>3. \/ in \in WorkerErrors
      \/ in \in ForcedRetries \cup SkippedPaths(knd)
      \/ \E k \in {"worker_retry", "worker_blocked", "plan_defect"} : in = In(k)
  BY DEF ExecuteInputs
<1>4. \A k \in {"worker_retry", "worker_blocked", "plan_defect"} : In(k).kind = k
  BY <1>1 DEF BuildKinds
<1>5. CASE in \in WorkerErrors
  BY <1>5, ErrorKinds
<1> QED BY <1>2, <1>3, <1>4, <1>5

LEMMA PassCovers ==
  ASSUME NEW s, NEW in, in.verified \in Passes(s.units), FailedUnits(in.verified) = {}
  PROVE  Covers(s, in)
BY DEF Covers, Passes, CurrentUnits, UnverifiedUnits

LEMMA NothingCovers ==
  ASSUME NEW s, NEW in, in.verified = Nothing, UnverifiedUnits(s.units) = {}
  PROVE  Covers(s, in)
BY DEF Covers, FailedUnits, Nothing, CurrentUnits

LEMMA ExecuteOwn ==
  ASSUME NEW s \in StepStates, s.phase = "build", Drivable(s),
         NeverVisitsPlan(s) => DOMAIN s.units = {},
         NEW in \in ExecuteInputs(s, kind)
  PROVE  Own(s, in)
<1>1. in.kind \in BuildKinds
  BY ExecuteKinds
<1>2. in.kind = "phase_complete" => ~NeverVisitsPlan(s)
  BY ExecuteRouted DEF Routed
<1>3. ASSUME NEW v \in Verifications, NEW t
      PROVE  /\ RouteVerified(s, kind, v).verified = v
             /\ VerifyPassed(s, kind, v, t).verified = v
  <2>1. \A k \in {"review_approve", "phase_complete"} : In(k) \in Inputs
    BY InType DEF Kinds
  <2>2. ASSUME NEW i \in Inputs PROVE [i EXCEPT !.verified = v].verified = v
    BY DEF Inputs
  <2>3. RouteVerified(s, kind, v).verified = v
    BY <2>1, <2>2 DEF RouteVerified
  <2>4. RouteVerified(s, kind, v) \in Inputs
    BY RouteVerifiedType
  <2>5. [RouteVerified(s, kind, v) EXCEPT !.touched = t].verified = v
    BY <2>3, <2>4 DEF Inputs
  <2> QED BY <2>3, <2>5 DEF VerifyPassed
<1>4. in.kind \in {"phase_complete", "review_approve"} => Covers(s, in)
  <2>1. CASE SkipsBuild(s)
    <3>1. in = RouteVerified(s, kind, Nothing) /\ UnverifiedUnits(s.units) = {}
      BY <2>1 DEF ExecuteInputs, SkipsBuild
    <3>2. in.verified = Nothing
      BY <1>3, <3>1, NothingType
    <3> QED BY <3>1, <3>2, NothingCovers
  <2>2. CASE ~SkipsBuild(s) /\ in \notin DoneInputs(s, kind)
    BY <2>2, OtherExecuteKinds
  <2>3. CASE in \in DoneInputs(s, kind) /\ NeverVisitsPlan(s)
    <3>1. in = In("review_approve")
      BY <2>3 DEF DoneInputs
    <3>2. in.verified = Nothing
      BY <3>1 DEF In, Plain
    <3>3. UnverifiedUnits(s.units) = {}
      BY <2>3 DEF UnverifiedUnits
    <3> QED BY <3>2, <3>3, NothingCovers
  <2>4. CASE in \in DoneInputs(s, kind) /\ ~NeverVisitsPlan(s)
    <3>1. CASE \E v \in Passes(s.units) : in = VerifyFailed(s, v)
      <4>1. In("worker_retry") \in Inputs /\ In("worker_retry").kind = "worker_retry"
        BY InType, InKind DEF Kinds
      <4>2. in.kind = "worker_retry"
        BY <3>1, <4>1, FieldsKeepKind DEF VerifyFailed
      <4> QED BY <4>2
    <3>2. CASE \E v \in Passes(s.units), t \in TouchedBy(kind) :
                 FailedUnits(v) = {} /\ in = VerifyPassed(s, kind, v, t)
      <4>1. PICK v \in Passes(s.units), t \in TouchedBy(kind) :
                   FailedUnits(v) = {} /\ in = VerifyPassed(s, kind, v, t)
        BY <3>2
      <4>2. in.verified = v
        BY <1>3, <4>1 DEF Passes
      <4> QED BY <4>1, <4>2, PassCovers
    <3> QED BY <2>4, <3>1, <3>2 DEF DoneInputs
  <2> QED BY <2>1, <2>2, <2>3, <2>4
<1> QED BY <1>1, <1>2, <1>4 DEF Own, BuildKinds

LEMMA ReviewOwn ==
  ASSUME NEW s \in StepStates, s.phase = "prove", Drivable(s), NEW in \in ReviewInputs(s)
  PROVE  Own(s, in)
<1>1. in.kind \in ProveKinds
  BY ReviewKinds
<1>2. in.kind = "review_approve" => Covers(s, in)
  <2>1. CASE in \in Approvals(s)
    <3>1. PICK v \in Passes(s.units) : in = Approval(v)
      BY <2>1 DEF Approvals
    <3> DEFINE k == IF FailedUnits(v) = {} THEN "review_approve" ELSE "review_rework"
               r == [x \in {"harness"} \X FailedUnits(v) |-> TRUE]
    <3>2. In(k) \in Inputs /\ In(k).kind = k
      BY InType, InKind DEF Kinds
    <3>3. in = [In(k) EXCEPT !.verified = v, !.reported = r]
      BY <3>1 DEF Approval
    <3> HIDE DEF r
    <3>4. in.kind = k /\ in.verified = v
      BY <3>2, <3>3, FieldsKeepKind DEF Inputs
    <3> QED BY <3>1, <3>4, PassCovers
  <2>2. CASE in \notin Approvals(s)
    <3>1. /\ In("review_infra_failure").kind = "review_infra_failure"
          /\ In("review_budget").kind = "review_budget"
          /\ In("review_rework") \in Inputs
          /\ In("review_rework").kind = "review_rework"
      BY InType, InKind DEF Kinds
    <3>2. \A r, c : Rejection(r, c).kind = "review_rework"
      BY <3>1, FieldsKeepKind DEF Rejection
    <3> QED BY <2>2, <3>1, <3>2 DEF ReviewInputs, InfraErrors, Rejections
  <2> QED BY <2>1, <2>2
<1> QED BY <1>1, <1>2 DEF Own, ProveKinds

\* Where the measure of the parks falls.
LEMMA ParksLess ==
  ASSUME \/ QuestionsLeft' < QuestionsLeft
         \/ QuestionsLeft' = QuestionsLeft /\ ResumesLeft' < ResumesLeft
         \/ QuestionsLeft' = QuestionsLeft /\ ResumesLeft' = ResumesLeft /\ Standing' < Standing
  PROVE  Less(ParksLeft', ParksLeft)
<1> DEFINE d == <<QuestionsLeft', ResumesLeft', Standing'>>
           e == <<QuestionsLeft, ResumesLeft, Standing>>
<1>1. \E k \in 1 .. 3 : d[k] < e[k] /\ \A j \in 1 .. k - 1 : d[j] = e[j]
  OBVIOUS
<1>2. DOMAIN e = 1 .. 3
  OBVIOUS
<1>3. ParksLeft' = d /\ ParksLeft = e
  BY DEF ParksLeft
<1> QED BY <1>1, <1>2, <1>3 DEF Less

\* Where a row stands.
LEMMA StandingIs ==
  /\ Terminal(m.phase) => Standing = 0
  /\ ~Terminal(m.phase) /\ Resumable => Standing = 3
  /\ Drivable(m) => Standing = 2
  /\ ~Terminal(m.phase) /\ ~Resumable /\ ~Drivable(m) => Standing = 1
BY DEF Standing, Drivable, Resumable

LEMMA StandingIsNext ==
  /\ Terminal(m'.phase) => Standing' = 0
  /\ ~Terminal(m'.phase) /\ Resumable' => Standing' = 3
  /\ Drivable(m') => Standing' = 2
  /\ ~Terminal(m'.phase) /\ ~Resumable' /\ ~Drivable(m') => Standing' = 1
BY DEF Standing, Drivable, Resumable

\* A transition counts at most the pause it enters.
LEMMA FeedPauses ==
  ASSUME TypeOK, NEW s \in StepStates, NEW in \in Inputs, Feed(s, in)
  PROVE  /\ \A r \in Ladders :
              \/ pauses'[r] = pauses[r]
              \/ pauses'[r] = pauses[r] + 1 /\ m'.status = "paused" /\ m'.pauseReason = r
         /\ m'.status = "paused" /\ m'.pauseReason \in Ladders =>
              \/ pauses'[m'.pauseReason] = pauses[m'.pauseReason] + 1
              \/ s.status = "paused" /\ s.pauseReason = m'.pauseReason
         /\ m'.status \in {"done", "error"} =>
              \/ Terminal(m'.phase)
              \/ m'.status = s.status /\ m'.phase = s.phase
         /\ DOMAIN m'.units = DOMAIN s.units
<1>1. PICK spend \in Spends0 : ApplyTransition(Step(s, in, spend))
  BY DEF Feed
<1> DEFINE tr == Step(s, in, spend)
<1>2. Shaped(s, tr)
  BY StepShaped
<1>3. m' = tr.next
      /\ pauses' = [r \in Ladders |->
           IF tr.event = "paused" /\ tr.next.pauseReason = r THEN pauses[r] + 1 ELSE pauses[r]]
  BY <1>1 DEF ApplyTransition
<1> HIDE DEF tr
<1> QED BY <1>2, <1>3 DEF Shaped, Ladders

\* Pauses counted leave fewer resumes, and none counted as many.
LEMMA ResumesFall ==
  ASSUME TypeOK, \A r \in Ladders : pauses'[r] = pauses[r] \/ pauses'[r] = pauses[r] + 1
  PROVE  /\ ResumesLeft' <= ResumesLeft
         /\ \A r \in Ladders : pauses'[r] = pauses[r] + 1 /\ pauses[r] < LadderMax(r)
              => ResumesLeft' < ResumesLeft
         /\ (\A r \in Ladders : pauses'[r] = pauses[r]) => ResumesLeft' = ResumesLeft
         /\ ResumesLeft \in Nat /\ ResumesLeft' \in Nat
<1> DEFINE b == pauses["backoff"]
           i == pauses["infra"]
           c == pauses'["backoff"]
           j == pauses'["infra"]
<1>1. b \in Nat /\ i \in Nat /\ (c = b \/ c = b + 1) /\ (j = i \/ j = i + 1)
      /\ BackoffMax \in Nat /\ InfraMax \in Nat
  BY MissionAssumption DEF TypeOK, Ladders
<1>2. /\ Left(BackoffMax, b) \in Nat /\ Left(InfraMax, i) \in Nat
      /\ Left(BackoffMax, c) \in Nat /\ Left(InfraMax, j) \in Nat
      /\ Left(BackoffMax, c) <= Left(BackoffMax, b)
      /\ Left(InfraMax, j) <= Left(InfraMax, i)
      /\ c = b + 1 /\ b < BackoffMax => Left(BackoffMax, c) < Left(BackoffMax, b)
      /\ j = i + 1 /\ i < InfraMax => Left(InfraMax, j) < Left(InfraMax, i)
  BY <1>1 DEF Left
<1>3. ResumesLeft = Left(BackoffMax, b) + Left(InfraMax, i)
      /\ ResumesLeft' = Left(BackoffMax, c) + Left(InfraMax, j)
  BY DEF ResumesLeft
<1> HIDE DEF b, i, c, j
<1>4. /\ ResumesLeft' <= ResumesLeft
      /\ ResumesLeft \in Nat /\ ResumesLeft' \in Nat
      /\ c = b + 1 /\ b < BackoffMax => ResumesLeft' < ResumesLeft
      /\ j = i + 1 /\ i < InfraMax => ResumesLeft' < ResumesLeft
      /\ c = b /\ j = i => ResumesLeft' = ResumesLeft
  BY <1>2, <1>3
<1> QED BY <1>4 DEF Ladders, LadderMax, b, i, c, j

\* A turn from s, the row with the plan it stored.
LEMMA FeedDown ==
  ASSUME TypeOK, NEW s \in StepStates, NEW in \in Inputs, Own(s, in), Feed(s, in),
         UNCHANGED <<pendingInput, asksUsed>>,
         s.phase = m.phase, s.status = m.status, TurnsLeft(s) = TurnsLeft(m),
         s = m \/ m.phase = "plan"
  PROVE  RanDown
<1>1. Drivable(m) /\ Standing = 2
  BY StandingIs DEF Own, Drivable
<1>2. QuestionsLeft' = QuestionsLeft
  BY DEF QuestionsLeft
<1>3. /\ \A r \in Ladders :
           \/ pauses'[r] = pauses[r]
           \/ pauses'[r] = pauses[r] + 1 /\ m'.status = "paused" /\ m'.pauseReason = r
      /\ m'.status = "paused" /\ m'.pauseReason \in Ladders =>
           \/ pauses'[m'.pauseReason] = pauses[m'.pauseReason] + 1
           \/ s.status = "paused" /\ s.pauseReason = m'.pauseReason
  BY FeedPauses
<1>4. /\ ResumesLeft' <= ResumesLeft
      /\ \A r \in Ladders : pauses'[r] = pauses[r] + 1 /\ pauses[r] < LadderMax(r)
           => ResumesLeft' < ResumesLeft
      /\ (\A r \in Ladders : pauses'[r] = pauses[r]) => ResumesLeft' = ResumesLeft
      /\ ResumesLeft \in Nat /\ ResumesLeft' \in Nat
  <2>1. \A r \in Ladders : pauses'[r] = pauses[r] \/ pauses'[r] = pauses[r] + 1
    BY <1>3
  <2> QED BY <2>1, ResumesFall
<1>5. CASE Drivable(m')
  <2>1. ResumesLeft' = ResumesLeft
    BY <1>3, <1>4, <1>5 DEF Drivable
  <2>2. Standing' = Standing
    BY <1>1, <1>5, StandingIsNext
  <2>3. ParksLeft' = ParksLeft
    BY <1>2, <2>1, <2>2 DEF ParksLeft
  <2>4. PICK spend \in Spends0 : m' = Step(s, in, spend).next
    BY DEF Feed, ApplyTransition
  <2>5. \/ Less(TurnsLeft(m'), TurnsLeft(s))
        \/ s.phase # "plan" /\ UnitDone(s, m')
    BY <1>5, <2>4, StepDown
  <2> QED BY <2>3, <2>5 DEF RanDown
<1>6. CASE ~Drivable(m') /\ ~Terminal(m'.phase) /\ Resumable'
  <2>1. /\ m'.status = "paused" /\ m'.pauseReason \in Ladders
        /\ pauses'[m'.pauseReason] < LadderMax(m'.pauseReason)
    BY <1>6 DEF Resumable, LadderMax
  <2>2. pauses'[m'.pauseReason] = pauses[m'.pauseReason] + 1
    BY <1>1, <1>3, <2>1 DEF Drivable
  <2>3. pauses[m'.pauseReason] \in Nat /\ LadderMax(m'.pauseReason) \in Nat
    BY <2>1, MissionAssumption DEF TypeOK, LadderMax
  <2>4. pauses[m'.pauseReason] < LadderMax(m'.pauseReason)
    BY <2>1, <2>2, <2>3
  <2>5. ResumesLeft' < ResumesLeft
    BY <1>4, <2>1, <2>2, <2>4
  <2> QED BY <1>2, <2>5, ParksLess DEF RanDown
<1>7. CASE Terminal(m'.phase) \/ (~Drivable(m') /\ ~Resumable')
  <2>1. Standing' < Standing
    BY <1>1, <1>7, StandingIsNext
  <2>2. ResumesLeft' < ResumesLeft \/ ResumesLeft' = ResumesLeft
    BY <1>4
  <2> QED BY <1>2, <2>1, <2>2, ParksLess DEF RanDown
<1> QED BY <1>5, <1>6, <1>7

\* A mission that never plans has no units.
DownInv ==
  /\ RouteInv
  /\ NeverVisitsPlan(m) => DOMAIN m.units = {}

LEMMA TurnDown ==
  ASSUME DownInv, Turn
  PROVE  RanDown
<1>1. TypeOK /\ m \in StepStates
  BY DEF DownInv, RouteInv, TypeOK
<1>2. ASSUME NEW in \in Inputs, Own(m, in), Feed(m, in), UNCHANGED <<pendingInput, asksUsed>>
      PROVE  RanDown
  BY <1>1, <1>2, FeedDown
<1>3. CASE RunDiscover
  <2>1. PICK in \in DiscoverInputs : Feed(m, in)
    BY <1>3 DEF RunDiscover
  <2>2. in.kind \in {"review_infra_failure", "worker_failed", "phase_complete"}
    BY ErrorKinds, InKind DEF DiscoverInputs, Kinds
  <2>3. Own(m, in)
    BY <1>3, <2>2 DEF RunDiscover, Runs, Own
  <2> QED BY <1>2, <1>3, <2>1, <2>3, OtherInputsType DEF RunDiscover, Runs
<1>4. CASE RunPlan
  <2>1. CASE \E in \in PlanFailures : Feed(m, in)
    <3>1. PICK in \in PlanFailures : Feed(m, in)
      BY <2>1
    <3>2. in.kind \in {"review_infra_failure", "worker_failed", "plan_infeasible"}
      BY ErrorKinds, InKind DEF PlanFailures, Kinds
    <3>3. Own(m, in)
      BY <1>4, <3>2 DEF RunPlan, Runs, Own
    <3> QED BY <1>2, <1>4, <3>1, <3>3, OtherInputsType DEF RunPlan, Runs
  <2>2. CASE \E p \in NewPlans(m) : Feed([m EXCEPT !.units = p], In("phase_complete"))
    <3>1. PICK p \in NewPlans(m) : Feed([m EXCEPT !.units = p], In("phase_complete"))
      BY <2>2
    <3> DEFINE s == [m EXCEPT !.units = p]
    <3>2. /\ s \in StepStates
          /\ s.flow = m.flow /\ s.phase = m.phase /\ s.status = m.status
          /\ TurnsLeft(s) = TurnsLeft(m)
      BY <1>1, NewPlansType DEF StepStates, TurnsLeft
    <3>3. Feed(s, In("phase_complete"))
      BY <3>1
    <3> HIDE DEF s
    <3>4. /\ In("phase_complete") \in Inputs
          /\ In("phase_complete").kind = "phase_complete"
      BY InType, InKind DEF Kinds
    <3>5. ~NeverVisitsPlan(s)
      BY <1>4, <3>2 DEF RunPlan, Runs, DownInv, RouteInv, NeverVisitsPlan
    <3>6. Own(s, In("phase_complete"))
      BY <1>4, <3>2, <3>4, <3>5 DEF RunPlan, Runs, Drivable, Own
    <3> QED BY <1>1, <1>4, <3>2, <3>3, <3>4, <3>6, FeedDown DEF RunPlan, Runs
  <2> QED BY <1>4, <2>1, <2>2 DEF RunPlan
<1>5. CASE RunExecute
  <2>1. PICK in \in ExecuteInputs(m, kind) : Feed(m, in)
    BY <1>5 DEF RunExecute
  <2>2. m.phase = "build" /\ Drivable(m)
    BY <1>5 DEF RunExecute, Runs
  <2>3. Own(m, in)
    BY <1>1, <2>2, ExecuteOwn DEF DownInv
  <2> QED BY <1>2, <1>5, <2>1, <2>3, ExecuteInputsType DEF RunExecute, Runs
<1>6. CASE RunReview
  <2>1. PICK in \in ReviewInputs(m) : Feed(m, in)
    BY <1>6 DEF RunReview
  <2>2. Own(m, in)
    BY <1>1, <1>6, ReviewOwn DEF RunReview, Runs
  <2> QED BY <1>2, <1>6, <2>1, <2>2, ReviewInputsType DEF RunReview, Runs
<1>7. CASE RunResult
  <2>1. PICK in \in ResultInputs : Feed(m, in)
    BY <1>7 DEF RunResult
  <2>2. in.kind \in {"result_complete", "result_failed"}
    BY InKind DEF ResultInputs, Kinds
  <2>3. Own(m, in)
    BY <1>7, <2>2 DEF RunResult, Runs, Own
  <2> QED BY <1>2, <1>7, <2>1, <2>3, OtherInputsType DEF RunResult, Runs
<1>8. CASE RunAsks
  <2>1. /\ asksUsed \in Nat /\ AskBudget \in Nat /\ asksUsed < AskBudget
        /\ asksUsed' = asksUsed + 1 /\ pendingInput' = TRUE /\ pendingInput \in BOOLEAN
    BY <1>1, <1>8, MissionAssumption DEF RunAsks, TypeOK
  <2>2. Left(AskBudget, asksUsed') < Left(AskBudget, asksUsed)
        /\ Left(AskBudget, asksUsed') \in Nat /\ Left(AskBudget, asksUsed) \in Nat
    BY <2>1 DEF Left
  <2>3. QuestionsLeft' < QuestionsLeft
    BY <2>1, <2>2 DEF QuestionsLeft
  <2> QED BY <2>3, ParksLess DEF RanDown
<1> QED BY <1>3, <1>4, <1>5, <1>6, <1>7, <1>8 DEF Turn

\* A verb or a sweep on a row that is not ended: the budget brake parks it, or the
\* verb has its way.
LEMMA VerbSteps ==
  ASSUME TypeOK, ~Terminal(m.phase), NEW r \in Routes,
         NEW k \in {"resume", "cancel", "route_change"}, Feed(m, Plain(k, r))
  PROVE  /\ m' \in StepStates
         /\ k = "cancel" => m'.phase = "failed" /\ UNCHANGED pauses
         /\ k \in {"resume", "route_change"} =>
              /\ UNCHANGED pauses
              /\ \/ m'.status = "paused" /\ m'.pauseReason \notin Ladders
                 \/ k = "resume" /\ m'.status = "idle"
                 \/ k = "route_change" /\ m.status = "paused" /\ m'.status = "paused"
                      /\ m'.pauseReason = m.pauseReason
                 \/ k = "route_change" /\ m.status # "paused"
              /\ m'.phase = m.phase
              /\ m.status = "paused" /\ m'.status = "paused" => TurnsLeft(m') = TurnsLeft(m)
<1> DEFINE in == Plain(k, r)
           t == [m EXCEPT !.units = ApplyVerification(m.units, in.verified)]
<1>1. PICK spend \in Spends0 : ApplyTransition(Step(m, in, spend))
  BY DEF Feed
<1>2. m \in StepStates /\ pauses \in [Ladders -> Nat]
  BY DEF TypeOK
<1>3. in.kind = k /\ in \in Inputs /\ in.route = r
  BY PlainType DEF Plain, Kinds
<1>4. m' \in StepStates
  BY <1>1, <1>2, <1>3, StepType DEF ApplyTransition
<1>5. t \in StepStates
  BY <1>2, <1>3, VerifyKeeps
<1>6. /\ t.phase = m.phase /\ t.status = m.status /\ t.pauseReason = m.pauseReason
      /\ t.replanUsed = m.replanUsed /\ t.harnessRetries = m.harnessRetries
      /\ t.reworkRounds = m.reworkRounds /\ t.iteration = m.iteration
  BY <1>2 DEF StepStates
<1> DEFINE tr == Step(m, in, spend)
<1>7. tr = IF k = "cancel" THEN Fail(m) ELSE StepInput(t, in, spend)
  BY <1>3 DEF Step
<1> HIDE DEF t, in
<1>8. m' = tr.next /\ pauses' = [x \in Ladders |->
         IF tr.event = "paused" /\ tr.next.pauseReason = x THEN pauses[x] + 1 ELSE pauses[x]]
  BY <1>1 DEF ApplyTransition, in
<1> HIDE DEF tr
<1>9. ASSUME tr.event # "paused" \/ tr.next.pauseReason \notin Ladders
      PROVE  UNCHANGED pauses
  BY <1>2, <1>8, <1>9
<1>10. CASE k = "cancel"
  <2>1. tr.next.phase = "failed" /\ tr.event = "failed"
    BY <1>2, <1>7, <1>10 DEF Fail, WithPhaseFailed, To, StepStates
  <2> QED BY <1>4, <1>8, <1>9, <1>10, <2>1
<1>11. CASE k # "cancel"
  <2>1. \/ tr = Pause(t, "mixed_currency") \/ tr = Pause(t, "budget")
        \/ tr = StepSwitch(t, in)
    BY <1>7, <1>11 DEF StepInput
  <2>2. ASSUME NEW x \in {"mixed_currency", "budget"}, tr = Pause(t, x)
        PROVE  /\ m'.status = "paused" /\ m'.pauseReason = x /\ m'.phase = m.phase
               /\ UNCHANGED pauses
               /\ m.status = "paused" => TurnsLeft(m') = TurnsLeft(m)
    <3>1. /\ tr.next.status = "paused" /\ tr.next.pauseReason = x
          /\ tr.next.phase = t.phase /\ tr.next.replanUsed = t.replanUsed
          /\ tr.next.harnessRetries = t.harnessRetries
          /\ tr.next.reworkRounds = t.reworkRounds /\ tr.next.iteration = t.iteration
      BY <1>5, <2>2, ParkCounters
    <3>2. UNCHANGED pauses
      BY <1>9, <2>2, <3>1 DEF Ladders
    <3> QED BY <1>6, <1>8, <3>1, <3>2 DEF TurnsLeft
  <2>3. CASE tr = StepSwitch(t, in) /\ k = "resume"
    <3>1. tr = To([t EXCEPT !.status = "idle", !.pauseReason = NoReason], "resumed")
      BY <1>3, <1>6, <2>3 DEF StepSwitch, StepResume
    <3>2. tr.event = "resumed" /\ tr.next.status = "idle" /\ tr.next.phase = t.phase
      BY <1>5, <3>1 DEF To, StepStates
    <3> QED BY <1>4, <1>6, <1>8, <1>9, <2>3, <3>2
  <2>4. CASE tr = StepSwitch(t, in) /\ k = "route_change"
    <3>1. tr = NoOp(t) \/ tr = To([t EXCEPT !.reviewRoute = r], "route_changed")
      BY <1>3, <2>4 DEF StepSwitch, StepRouteChange
    <3>2. /\ tr.event # "paused" /\ tr.next.status = t.status /\ tr.next.phase = t.phase
          /\ tr.next.pauseReason = t.pauseReason /\ tr.next.replanUsed = t.replanUsed
          /\ tr.next.harnessRetries = t.harnessRetries
          /\ tr.next.reworkRounds = t.reworkRounds /\ tr.next.iteration = t.iteration
      BY <1>5, <3>1 DEF NoOp, To, StepStates
    <3>3. m'.phase = m.phase /\ m'.status = m.status /\ m'.pauseReason = m.pauseReason
          /\ TurnsLeft(m') = TurnsLeft(m)
      BY <1>6, <1>8, <3>2 DEF TurnsLeft
    <3> QED BY <1>4, <1>9, <2>4, <3>2, <3>3
  <2> QED BY <1>4, <1>11, <2>1, <2>2, <2>3, <2>4 DEF Ladders
<1> QED BY <1>10, <1>11

\* Parks of which no pause is counted leave the first two bounds alone.
LEMMA ParksKept ==
  ASSUME UNCHANGED <<pendingInput, asksUsed, pauses>>
  PROVE  /\ QuestionsLeft' = QuestionsLeft
         /\ ResumesLeft' = ResumesLeft
         /\ Standing' < Standing => RanDown
         /\ Standing' = Standing => ParksLeft' = ParksLeft
<1>1. QuestionsLeft' = QuestionsLeft /\ ResumesLeft' = ResumesLeft
  BY DEF QuestionsLeft, ResumesLeft
<1> QED BY <1>1, ParksLess DEF RanDown, ParksLeft

LEMMA CancelDown ==
  ASSUME TypeOK, Cancel
  PROVE  RanDown
<1>1. m'.phase = "failed" /\ UNCHANGED pauses /\ ~Terminal(m.phase)
  BY VerbSteps, PhasesAssumption DEF Cancel, In
<1>2. Standing' = 0
  BY <1>1, StandingIsNext DEF Terminal
<1>3. Standing \in {1, 2, 3}
  BY <1>1, StandingIs
<1> QED BY <1>1, <1>2, <1>3, ParksKept DEF Cancel

LEMMA AutoResumeDown ==
  ASSUME TypeOK, AutoResume
  PROVE  RanDown
<1>1. /\ UNCHANGED pauses
      /\ m'.phase = m.phase
      /\ \/ m'.status = "paused" /\ m'.pauseReason \notin Ladders
         \/ m'.status = "idle"
  BY VerbSteps, PhasesAssumption DEF AutoResume, In
<1>2. ~Terminal(m.phase) /\ Resumable
  <2>1. pauses[m.pauseReason] \in Nat /\ LadderMax(m.pauseReason) \in Nat
    BY MissionAssumption DEF AutoResume, TypeOK, LadderMax
  <2>2. pauses[m.pauseReason] < LadderMax(m.pauseReason)
    BY <2>1 DEF AutoResume
  <2> QED BY <2>2 DEF AutoResume, Resumable
<1>3. Standing = 3
  BY <1>2, StandingIs
<1>4. ~Resumable'
  BY <1>1 DEF Resumable
<1>5. Standing' < 3
  BY <1>1, <1>2, <1>4, StandingIsNext
<1> QED BY <1>1, <1>3, <1>5, ParksKept DEF AutoResume

LEMMA ChangeRoutingDown ==
  ASSUME TypeOK, ChangeRouting
  PROVE  RanDown
<1>1. /\ UNCHANGED pauses
      /\ m'.phase = m.phase
      /\ m.status = "paused" /\ m'.status = "paused"
      /\ m'.pauseReason \notin Ladders \/ m'.pauseReason = m.pauseReason
      /\ TurnsLeft(m') = TurnsLeft(m)
      /\ ~Terminal(m.phase)
  <2>1. PICK r \in Routes : Feed(m, Plain("route_change", r))
    BY DEF ChangeRouting
  <2> QED BY <2>1, VerbSteps DEF ChangeRouting
<1>2. Standing = (IF Resumable THEN 3 ELSE 1)
  BY <1>1, StandingIs DEF Drivable
<1>3. Standing' = (IF Resumable' THEN 3 ELSE 1)
  BY <1>1, StandingIsNext DEF Drivable
<1>4. Resumable' => Resumable
  BY <1>1 DEF Resumable, LadderMax
<1>5. Standing' < Standing \/ Standing' = Standing
  BY <1>2, <1>3, <1>4
<1> QED BY <1>1, <1>5, ParksKept DEF RanDown, ChangeRouting

LEMMA ClaimDown ==
  ASSUME TypeOK, ClaimWorkSlot
  PROVE  RanDown
<1>1. /\ m'.phase = m.phase /\ m'.status = "working" /\ m.status = "idle"
      /\ m'.replanUsed = m.replanUsed /\ m'.harnessRetries = m.harnessRetries
      /\ m'.reworkRounds = m.reworkRounds /\ m'.iteration = m.iteration
  BY DEF ClaimWorkSlot, TypeOK, StepStates
<1>2. Standing' = Standing
  <2>1. CASE Terminal(m.phase)
    BY <1>1, <2>1, StandingIs, StandingIsNext
  <2>2. CASE ~Terminal(m.phase)
    <3>1. Drivable(m) /\ Drivable(m')
      BY <1>1, <2>2 DEF Drivable
    <3> QED BY <3>1, StandingIs, StandingIsNext
  <2> QED BY <2>1, <2>2
<1>3. Less(TurnsLeft(m'), TurnsLeft(m))
  BY <1>1, TurnsLess
<1> QED BY <1>2, <1>3, ParksKept DEF RanDown, ClaimWorkSlot

LEMMA TimeoutDown ==
  ASSUME TypeOK, AnswerPendingInput
  PROVE  RanDown
<1>1. QuestionsLeft' < QuestionsLeft
  <2>1. Left(AskBudget, asksUsed) \in Nat
    BY MissionAssumption DEF Left, TypeOK
  <2>2. pendingInput = TRUE /\ pendingInput' = FALSE /\ asksUsed' = asksUsed
    BY DEF AnswerPendingInput, TypeOK
  <2> QED BY <2>1, <2>2 DEF QuestionsLeft
<1> QED BY <1>1, ParksLess DEF RanDown

LEMMA NextDown ==
  ASSUME DownInv, Next, humanActs' = humanActs
  PROVE  RanDown
<1>1. TypeOK /\ humanActs \in Nat
  BY DEF DownInv, RouteInv, TypeOK
<1>2. ~Acts
  BY <1>1 DEF Acts
<1> QED BY <1>1, <1>2, TurnDown, CancelDown, AutoResumeDown, ChangeRoutingDown, ClaimDown,
           TimeoutDown
        DEF Next, Resume, DecidePlan, AnswerAskUser, SweepAskTimeouts

\* The units of a mission that never plans.
LEMMA FeedUnits ==
  ASSUME DownInv, NEW s \in StepStates, NEW in \in Inputs, Feed(s, in), s.flow = m.flow,
         s = m \/ m.phase = "plan"
  PROVE  NeverVisitsPlan(m') => DOMAIN m'.units = {}
<1>1. PICK spend \in Spends0 : m' = Step(s, in, spend).next
  BY DEF Feed, ApplyTransition
<1>2. m'.flow = s.flow
  BY <1>1, StepKeepsPolicy DEF SamePolicy
<1>3. DOMAIN m'.units = DOMAIN s.units
  BY FeedPauses DEF DownInv, RouteInv
<1> QED BY <1>2, <1>3 DEF DownInv, RouteInv, NeverVisitsPlan

LEMMA NextUnits ==
  ASSUME DownInv, Next
  PROVE  NeverVisitsPlan(m') => DOMAIN m'.units = {}
<1>1. m \in StepStates
  BY DEF DownInv, RouteInv, TypeOK
<1>2. ASSUME NEW in \in Inputs, Feed(m, in)
      PROVE  NeverVisitsPlan(m') => DOMAIN m'.units = {}
  BY <1>1, <1>2, FeedUnits
<1>3. CASE Turn
  <2>1. CASE RunPlan
    <3>1. CASE \E in \in PlanFailures : Feed(m, in)
      BY <1>2, <3>1, OtherInputsType
    <3>2. CASE \E p \in NewPlans(m) : Feed([m EXCEPT !.units = p], In("phase_complete"))
      <4>1. PICK p \in NewPlans(m) : Feed([m EXCEPT !.units = p], In("phase_complete"))
        BY <3>2
      <4>2. [m EXCEPT !.units = p] \in StepStates /\ [m EXCEPT !.units = p].flow = m.flow
        BY <1>1, NewPlansType DEF StepStates
      <4>3. In("phase_complete") \in Inputs
        BY InType DEF Kinds
      <4> QED BY <2>1, <4>1, <4>2, <4>3, FeedUnits DEF RunPlan, Runs
    <3> QED BY <2>1, <3>1, <3>2 DEF RunPlan
  <2>2. CASE RunDiscover \/ RunExecute \/ RunReview \/ RunResult \/ RunAsks
    BY <1>2, <2>2, OtherInputsType, ExecuteInputsType, ReviewInputsType
       DEF RunDiscover, RunExecute, RunReview, RunResult, RunAsks
  <2> QED BY <1>3, <2>1, <2>2 DEF Turn
<1>4. CASE Resume \/ Cancel \/ DecidePlan \/ ChangeRouting \/ AutoResume
  <2>1. \A k \in {"resume", "cancel", "plan_approve", "plan_replan", "plan_rediscover"} :
          In(k) \in Inputs
    BY InType DEF Kinds
  <2>2. \A r \in Routes : Plain("route_change", r) \in Inputs
    BY PlainType DEF Kinds
  <2> QED BY <1>2, <1>4, <2>1, <2>2
          DEF Resume, Cancel, DecidePlan, ChangeRouting, AutoResume
<1>5. CASE AnswerAskUser \/ SweepAskTimeouts \/ ClaimWorkSlot
  <2>1. PICK st \in {"idle", "working"} : m' = [m EXCEPT !.status = st]
    BY <1>5 DEF AnswerAskUser, SweepAskTimeouts, AnswerPendingInput, ClaimWorkSlot
  <2>2. m'.flow = m.flow /\ m'.units = m.units
    BY <1>1, <2>1 DEF StepStates
  <2> QED BY <2>2 DEF DownInv, NeverVisitsPlan
<1> QED BY <1>3, <1>4, <1>5 DEF Next

LEMMA InitDown == Init => DownInv
<1> SUFFICES ASSUME Init, TypeOK PROVE DownInv
  BY InitTypeOK
<1>1. PICK flow \in Flows0, auto \in Approvals0 :
        LegalFlow(kind, flow) /\ m = Created(flow, auto)
  BY DEF Init
<1>2. OpenFindings(ResolveAll) = {}
  BY DEF OpenFindings, ResolveAll, Closed
<1>3. /\ m.flow = flow /\ m.findings = ResolveAll /\ DOMAIN m.units = {}
      /\ m.phase = (IF flow = "light" THEN "build" ELSE "discover")
  BY <1>1 DEF Created, InitialPhase, Nothing
<1> QED BY <1>1, <1>2, <1>3 DEF DownInv, RouteInv

LEMMA NextDownInv == DownInv /\ [Next]_vars => DownInv'
<1>1. ASSUME DownInv, UNCHANGED vars PROVE DownInv'
  BY <1>1, NextTypeOK DEF DownInv, RouteInv, vars, NeverVisitsPlan
<1>2. ASSUME DownInv, Next PROVE DownInv'
  BY <1>2, NextRouted, NextUnits DEF DownInv, NeverVisitsPlan
<1> QED BY <1>1, <1>2

\* For missions of any size and any ceilings: no turn, claim, sweep or cancel gives
\* back what an earlier one used up.  A turn that verifies the current unit starts
\* the counters of the next one afresh; nothing else does.
THEOREM RunsAlwaysDown == Spec => RunsDown
<1>1. DownInv /\ [Next]_vars => [humanActs' = humanActs => RanDown]_vars
  BY NextDown
<1> QED BY <1>1, InitDown, NextDownInv, PTL DEF Spec, RunsDown, RanDown

\* The bounds are numbers, so nothing can go down forever.
LEMMA BoundsAreNumbers ==
  ASSUME TypeOK
  PROVE  ParksLeft \in Nat \X Nat \X Nat
         /\ \A k \in 1 .. 7 : TurnsLeft(m)[k] \in Nat
<1>1. ASSUME NEW max \in Nat, NEW u \in Nat PROVE Left(max, u) \in Nat
  BY DEF Left
<1>2. /\ asksUsed \in Nat /\ pauses["backoff"] \in Nat /\ pauses["infra"] \in Nat
      /\ AskBudget \in Nat /\ BackoffMax \in Nat /\ InfraMax \in Nat
      /\ m.harnessRetries \in Nat /\ m.reworkRounds \in Nat /\ m.iteration \in Nat
      /\ m.phase \in Phases /\ HarnessRetryCap \in Nat /\ MaxIterations \in Nat
  BY MissionAssumption, CeilingsAssumption DEF TypeOK, Ladders, StepStates
<1>3. QuestionsLeft \in Nat
  <2>1. Left(AskBudget, asksUsed) \in Nat
    BY <1>1, <1>2
  <2> QED BY <2>1 DEF QuestionsLeft
<1>4. ResumesLeft \in Nat
  <2>1. Left(BackoffMax, pauses["backoff"]) \in Nat /\ Left(InfraMax, pauses["infra"]) \in Nat
    BY <1>1, <1>2
  <2> QED BY <2>1 DEF ResumesLeft
<1>5. Standing \in Nat
  BY DEF Standing
<1>6. Round[m.phase] \in Nat
  BY <1>2 DEF Round
<1>7. \A k \in 1 .. 7 : TurnsLeft(m)[k] \in Nat
  <2>1. /\ Left(HarnessRetryCap, m.harnessRetries) \in Nat
        /\ Left(MaxIterations, m.reworkRounds) \in Nat
        /\ Left(MaxIterations, m.iteration) \in Nat
    BY <1>1, <1>2
  <2> QED BY <1>6, <2>1 DEF TurnsLeft
<1> QED BY <1>3, <1>4, <1>5, <1>7 DEF ParksLeft

\* All that is left to a mission, the weightiest bound first.
Bounds == [k \in 1 .. 10 |-> IF k <= 3 THEN ParksLeft[k] ELSE TurnsLeft(m)[k - 3]]

LEMMA BoundsType ==
  ASSUME TypeOK
  PROVE  Bounds \in [1 .. 10 -> Nat]
<1>1. \A k \in 1 .. 3 : ParksLeft[k] \in Nat
  BY BoundsAreNumbers
<1>2. \A k \in 1 .. 7 : TurnsLeft(m)[k] \in Nat
  BY BoundsAreNumbers
<1>3. ASSUME NEW k \in 1 .. 10
      PROVE  (IF k <= 3 THEN ParksLeft[k] ELSE TurnsLeft(m)[k - 3]) \in Nat
  <2>1. k <= 3 => k \in 1 .. 3
    OBVIOUS
  <2>2. ~(k <= 3) => k - 3 \in 1 .. 7
    OBVIOUS
  <2> QED BY <1>1, <1>2, <2>1, <2>2
<1> QED BY <1>3 DEF Bounds

LEMMA BoundsLess ==
  ASSUME \/ Less(ParksLeft', ParksLeft)
         \/ ParksLeft' = ParksLeft /\ Less(TurnsLeft(m'), TurnsLeft(m))
  PROVE  Less(Bounds', Bounds)
<1> DEFINE p == ParksLeft
           q == ParksLeft'
           d == TurnsLeft(m')
           e == TurnsLeft(m)
<1>1. DOMAIN p = 1 .. 3 /\ DOMAIN e = 1 .. 7
  BY DEF ParksLeft, TurnsLeft
<1>2. /\ \A k \in 1 .. 3 : Bounds[k] = p[k] /\ Bounds'[k] = q[k]
      /\ \A k \in 1 .. 7 : Bounds[k + 3] = e[k] /\ Bounds'[k + 3] = d[k]
      /\ DOMAIN Bounds = 1 .. 10
  BY DEF Bounds
<1> HIDE DEF p, q, d, e
<1> SUFFICES \E k \in 1 .. 10 : Bounds'[k] < Bounds[k]
                /\ \A j \in 1 .. k - 1 : Bounds'[j] = Bounds[j]
  BY <1>2 DEF Less
<1>3. CASE Less(q, p)
  <2>1. PICK k \in 1 .. 3 : q[k] < p[k] /\ \A j \in 1 .. k - 1 : q[j] = p[j]
    BY <1>1, <1>3 DEF Less
  <2>2. k \in 1 .. 10 /\ \A j \in 1 .. k - 1 : j \in 1 .. 3
    OBVIOUS
  <2> QED BY <1>2, <2>1, <2>2
<1>4. CASE q = p /\ Less(d, e)
  <2>1. PICK k \in 1 .. 7 : d[k] < e[k] /\ \A j \in 1 .. k - 1 : d[j] = e[j]
    BY <1>1, <1>4 DEF Less
  <2>2. k + 3 \in 1 .. 10 /\ Bounds'[k + 3] < Bounds[k + 3]
    BY <1>2, <2>1
  <2>3. ASSUME NEW j \in 1 .. (k + 3) - 1 PROVE Bounds'[j] = Bounds[j]
    <3>1. CASE j \in 1 .. 3
      BY <1>2, <1>4, <3>1
    <3>2. CASE j \notin 1 .. 3
      <4>1. j - 3 \in 1 .. k - 1 /\ j - 3 \in 1 .. 7 /\ (j - 3) + 3 = j
        BY <3>2
      <4>2. d[j - 3] = e[j - 3]
        BY <2>1, <4>1
      <4> QED BY <1>2, <4>1, <4>2
    <3> QED BY <3>1, <3>2
  <2> QED BY <2>2, <2>3
<1> QED BY <1>3, <1>4 DEF p, q, d, e

\* A plan of one unit has no other unit left when the current one is verified.
LEMMA OneUnitDone ==
  ASSUME PlanSize <= 1, NEW s \in StepStates, NEW n \in StepStates
  PROVE  ~UnitDone(s, n)
<1>1. DOMAIN s.units \subseteq {1} /\ DOMAIN n.units \subseteq {1}
  <2>1. Units \subseteq {1}
    BY DataAssumption DEF Units
  <2> QED BY <2>1, PlanIsFunction DEF StepStates
<1> QED BY <1>1 DEF UnitDone, CurrentUnits, UnverifiedUnits

\* A step goes down in the order of the bounds, or reroutes a parked mission.
Down ==
  \/ Less(Bounds', Bounds)
  \/ m.status = "paused" /\ m'.status = "paused" /\ Bounds' = Bounds

LEMMA OneUnitDown ==
  ASSUME PlanSize <= 1, DownInv, Next, humanActs' = humanActs
  PROVE  Down
<1>1. m \in StepStates /\ m' \in StepStates
  BY NextTypeOK DEF DownInv, RouteInv, TypeOK
<1>2. \/ Less(ParksLeft', ParksLeft)
      \/ ParksLeft' = ParksLeft /\ Less(TurnsLeft(m'), TurnsLeft(m))
      \/ /\ ParksLeft' = ParksLeft /\ TurnsLeft(m') = TurnsLeft(m)
         /\ m.status = "paused" /\ m'.status = "paused"
  BY <1>1, NextDown, OneUnitDone DEF RanDown
<1>3. ParksLeft' = ParksLeft /\ TurnsLeft(m') = TurnsLeft(m) => Bounds' = Bounds
  BY DEF Bounds
<1> QED BY <1>2, <1>3, BoundsLess DEF Down

\* With plans of at most one unit there is no exemption: every step that is not the
\* operator's lowers the bounds, which are natural numbers, or reroutes a parked
\* mission and leaves them alone.
THEOREM OneUnitRunsDown ==
  ASSUME PlanSize <= 1
  PROVE  Spec => /\ [](Bounds \in [1 .. 10 -> Nat])
                 /\ [][humanActs' = humanActs => Down]_vars
<1>1. DownInv /\ [Next]_vars => [humanActs' = humanActs => Down]_vars
  BY OneUnitDown
<1>2. DownInv => Bounds \in [1 .. 10 -> Nat]
  BY BoundsType DEF DownInv, RouteInv
<1> QED BY <1>1, <1>2, InitDown, NextDownInv, PTL DEF Spec

\* No bound is above Most.
Most == 2 * AskBudget + BackoffMax + InfraMax + HarnessRetryCap + MaxIterations + 3

LEMMA BoundsMost ==
  ASSUME TypeOK
  PROVE  Bounds \in [1 .. 10 -> 0 .. Most]
<1>1. /\ AskBudget \in Nat /\ BackoffMax \in Nat /\ InfraMax \in Nat
      /\ HarnessRetryCap \in Nat /\ MaxIterations \in Nat /\ Most \in Nat
  <2>1. /\ AskBudget \in Nat /\ BackoffMax \in Nat /\ InfraMax \in Nat
        /\ HarnessRetryCap \in Nat /\ MaxIterations \in Nat
    BY MissionAssumption, CeilingsAssumption
  <2> QED BY <2>1 DEF Most
<1>2. ASSUME NEW max \in Nat, NEW u \in Nat PROVE Left(max, u) \in 0 .. max
  BY DEF Left
<1>3. /\ asksUsed \in Nat /\ pauses["backoff"] \in Nat /\ pauses["infra"] \in Nat
      /\ m.harnessRetries \in Nat /\ m.reworkRounds \in Nat /\ m.iteration \in Nat
      /\ m.phase \in Phases
  BY DEF TypeOK, Ladders, StepStates
<1>4. QuestionsLeft \in 0 .. Most
  <2>1. Left(AskBudget, asksUsed) \in 0 .. AskBudget
    BY <1>1, <1>2, <1>3
  <2> QED BY <1>1, <2>1 DEF QuestionsLeft, Most
<1>5. ResumesLeft \in 0 .. Most
  <2>1. Left(BackoffMax, pauses["backoff"]) \in 0 .. BackoffMax
        /\ Left(InfraMax, pauses["infra"]) \in 0 .. InfraMax
    BY <1>1, <1>2, <1>3
  <2> QED BY <1>1, <2>1 DEF ResumesLeft, Most
<1>6. Standing \in 0 .. 3
  BY DEF Standing
<1>7. Round[m.phase] \in 0 .. 3
  BY <1>3 DEF Round
<1>8. /\ Left(HarnessRetryCap, m.harnessRetries) \in 0 .. HarnessRetryCap
      /\ Left(MaxIterations, m.reworkRounds) \in 0 .. MaxIterations
      /\ Left(MaxIterations, m.iteration) \in 0 .. MaxIterations
  BY <1>1, <1>2, <1>3
<1>9. \A k \in 1 .. 3 : ParksLeft[k] \in 0 .. Most
  <2>1. Standing \in 0 .. Most
    BY <1>1, <1>6 DEF Most
  <2> QED BY <1>4, <1>5, <2>1 DEF ParksLeft
<1>10. \A k \in 1 .. 7 : TurnsLeft(m)[k] \in 0 .. Most
  <2>1. /\ 0 \in 0 .. Most /\ 1 \in 0 .. Most /\ Round[m.phase] \in 0 .. Most
        /\ Left(HarnessRetryCap, m.harnessRetries) \in 0 .. Most
        /\ Left(MaxIterations, m.reworkRounds) \in 0 .. Most
        /\ Left(MaxIterations, m.iteration) \in 0 .. Most
    BY <1>1, <1>7, <1>8 DEF Most
  <2> QED BY <2>1 DEF TurnsLeft
<1>11. ASSUME NEW k \in 1 .. 10
       PROVE  (IF k <= 3 THEN ParksLeft[k] ELSE TurnsLeft(m)[k - 3]) \in 0 .. Most
  <2>1. k <= 3 => k \in 1 .. 3
    OBVIOUS
  <2>2. ~(k <= 3) => k - 3 \in 1 .. 7
    OBVIOUS
  <2> QED BY <1>9, <1>10, <2>1, <2>2
<1> QED BY <1>11 DEF Bounds

LEMMA LessTrans ==
  ASSUME NEW n \in Nat, NEW b \in [1 .. n -> Nat], NEW c \in [1 .. n -> Nat],
         NEW d \in [1 .. n -> Nat], Less(d, c), Less(c, b)
  PROVE  Less(d, b)
<1>1. PICK k \in 1 .. n : d[k] < c[k] /\ \A j \in 1 .. k - 1 : d[j] = c[j]
  BY DEF Less
<1>2. PICK l \in 1 .. n : c[l] < b[l] /\ \A j \in 1 .. l - 1 : c[j] = b[j]
  BY DEF Less
<1>3. DOMAIN b = 1 .. n
  OBVIOUS
<1>4. CASE k < l
  <2>1. k \in 1 .. l - 1 /\ \A j \in 1 .. k - 1 : j \in 1 .. l - 1
    BY <1>4
  <2>2. d[k] < b[k] /\ \A j \in 1 .. k - 1 : d[j] = b[j]
    BY <1>1, <1>2, <2>1
  <2> QED BY <1>3, <2>2 DEF Less
<1>5. CASE l <= k
  <2>1. \A j \in 1 .. l - 1 : j \in 1 .. k - 1
    BY <1>5
  <2>2. \A j \in 1 .. l - 1 : d[j] = b[j]
    BY <1>1, <1>2, <2>1
  <2>3. d[l] <= c[l]
    <3>1. CASE l = k
      BY <1>1, <3>1
    <3>2. CASE l # k
      <4>1. l \in 1 .. k - 1
        BY <1>5, <3>2
      <4>2. d[l] = c[l] /\ d[l] \in Nat
        BY <1>1, <4>1
      <4> QED BY <4>2
    <3> QED BY <3>1, <3>2
  <2>4. d[l] < b[l]
    <3>1. d[l] \in Nat /\ c[l] \in Nat /\ b[l] \in Nat
      OBVIOUS
    <3> QED BY <1>2, <2>3, <3>1
  <2> QED BY <1>3, <2>2, <2>4 DEF Less
<1> QED BY <1>4, <1>5

\* The operator's acts are only ever added to.
LEMMA ActsCount ==
  ASSUME Next
  PROVE  humanActs' = humanActs \/ humanActs' = humanActs + 1
<1>1. CASE Turn
  BY <1>1 DEF Turn, RunDiscover, RunPlan, RunExecute, RunReview, RunResult, RunAsks, Runs
<1>2. CASE Resume \/ DecidePlan \/ AnswerAskUser
  BY <1>2 DEF Resume, DecidePlan, AnswerAskUser, Acts
<1>3. CASE Cancel \/ ChangeRouting \/ ClaimWorkSlot \/ AutoResume \/ SweepAskTimeouts
  BY <1>3 DEF Cancel, ChangeRouting, ClaimWorkSlot, AutoResume, SweepAskTimeouts
<1> QED BY <1>1, <1>2, <1>3 DEF Next

\* With plans of at most one unit, a mission left to itself runs through the finitely
\* many values of its bounds in one direction: once it is below bounds b, it never has
\* them again, nor any above them, until the operator acts.
THEOREM NoWayBack ==
  ASSUME PlanSize <= 1, NEW b \in [1 .. 10 -> Nat], NEW acts \in Nat
  PROVE  Spec => /\ [](Bounds \in [1 .. 10 -> 0 .. Most])
                 /\ [](humanActs = acts /\ Less(Bounds, b) =>
                         [](humanActs = acts => Less(Bounds, b)))
<1> DEFINE Typed == Bounds \in [1 .. 10 -> Nat]
           Below == \/ humanActs > acts
                    \/ humanActs = acts /\ Less(Bounds, b)
<1>1. DownInv /\ Typed /\ Typed' /\ Below /\ [Next]_vars => Below'
  <2> SUFFICES ASSUME DownInv, Typed, Typed', Below, [Next]_vars PROVE Below'
    OBVIOUS
  <2>1. CASE UNCHANGED vars
    <3>1. Bounds' = Bounds /\ humanActs' = humanActs
      BY <2>1 DEF vars, Bounds, ParksLeft, TurnsLeft, QuestionsLeft, ResumesLeft, Standing, Resumable
    <3> QED BY <3>1
  <2>2. CASE Next /\ humanActs' = humanActs
    <3>1. CASE Less(Bounds', Bounds) /\ Less(Bounds, b)
      <4>1. Less(Bounds', b)
        BY <3>1, LessTrans
      <4> QED BY <2>2, <4>1
    <3>2. Less(Bounds', Bounds) \/ Bounds' = Bounds
      BY <2>2, OneUnitDown DEF Down
    <3> QED BY <2>2, <3>1, <3>2
  <2>3. CASE Next /\ humanActs' # humanActs
    <3>1. humanActs \in Nat /\ humanActs' = humanActs + 1
      BY <2>3, ActsCount DEF DownInv, RouteInv, TypeOK
    <3> QED BY <3>1
  <2> QED BY <2>1, <2>2, <2>3
<1>2. DownInv => Typed /\ Bounds \in [1 .. 10 -> 0 .. Most]
  BY BoundsType, BoundsMost DEF DownInv, RouteInv
<1>3. humanActs = acts /\ Less(Bounds, b) => Below
  OBVIOUS
<1>4. Below /\ humanActs = acts => Less(Bounds, b)
  OBVIOUS
<1> HIDE DEF Below, Typed
<1> QED BY <1>1, <1>2, <1>3, <1>4, InitDown, NextDownInv, PTL DEF Spec

-----------------------------------------------------------------------------
(* No mission is stuck. *)

\* Only an ended row is done or in error, and a laddered pause has been counted.
StuckInv ==
  /\ TypeOK
  /\ m.status \in {"done", "error"} => Terminal(m.phase)
  /\ m.status = "paused" /\ m.pauseReason \in Ladders => pauses[m.pauseReason] > 0

LEMMA FeedStuck ==
  ASSUME StuckInv, NEW s \in StepStates, NEW in \in Inputs, Feed(s, in),
         s.phase = m.phase, s.status = m.status, s.pauseReason = m.pauseReason
  PROVE  /\ m'.status \in {"done", "error"} => Terminal(m'.phase)
         /\ m'.status = "paused" /\ m'.pauseReason \in Ladders => pauses'[m'.pauseReason] > 0
<1>1. \A r \in Ladders : pauses[r] \in Nat
  BY DEF StuckInv, TypeOK
<1> QED BY <1>1, FeedPauses DEF StuckInv

LEMMA NextStuck ==
  ASSUME StuckInv, Next
  PROVE  StuckInv'
<1>1. m \in StepStates
  BY DEF StuckInv, TypeOK
<1>2. TypeOK'
  BY NextTypeOK DEF StuckInv
<1>3. ASSUME NEW in \in Inputs, Feed(m, in)
      PROVE  StuckInv'
  BY <1>1, <1>2, <1>3, FeedStuck DEF StuckInv
<1>4. CASE Turn
  <2>1. CASE RunPlan
    <3>1. CASE \E in \in PlanFailures : Feed(m, in)
      BY <1>3, <3>1, OtherInputsType
    <3>2. CASE \E p \in NewPlans(m) : Feed([m EXCEPT !.units = p], In("phase_complete"))
      <4>1. PICK p \in NewPlans(m) : Feed([m EXCEPT !.units = p], In("phase_complete"))
        BY <3>2
      <4> DEFINE s == [m EXCEPT !.units = p]
      <4>2. /\ s \in StepStates /\ s.phase = m.phase
            /\ s.status = m.status /\ s.pauseReason = m.pauseReason
        BY <1>1, NewPlansType DEF StepStates
      <4>3. In("phase_complete") \in Inputs /\ Feed(s, In("phase_complete"))
        BY <4>1, InType DEF Kinds
      <4> HIDE DEF s
      <4> QED BY <1>2, <4>2, <4>3, FeedStuck DEF StuckInv
    <3> QED BY <2>1, <3>1, <3>2 DEF RunPlan
  <2>2. CASE RunDiscover \/ RunExecute \/ RunReview \/ RunResult \/ RunAsks
    BY <1>3, <2>2, OtherInputsType, ExecuteInputsType, ReviewInputsType
       DEF RunDiscover, RunExecute, RunReview, RunResult, RunAsks
  <2> QED BY <1>4, <2>1, <2>2 DEF Turn
<1>5. CASE Resume \/ Cancel \/ DecidePlan \/ ChangeRouting \/ AutoResume
  <2>1. \A k \in {"resume", "cancel", "plan_approve", "plan_replan", "plan_rediscover"} :
          In(k) \in Inputs
    BY InType DEF Kinds
  <2>2. \A r \in Routes : Plain("route_change", r) \in Inputs
    BY PlainType DEF Kinds
  <2> QED BY <1>3, <1>5, <2>1, <2>2
          DEF Resume, Cancel, DecidePlan, ChangeRouting, AutoResume
<1>6. CASE AnswerAskUser \/ SweepAskTimeouts \/ ClaimWorkSlot
  <2>1. PICK st \in {"idle", "working"} : m' = [m EXCEPT !.status = st]
    BY <1>6 DEF AnswerAskUser, SweepAskTimeouts, AnswerPendingInput, ClaimWorkSlot
  <2>2. m'.status \in {"idle", "working"}
    BY <1>1, <2>1 DEF StepStates
  <2> QED BY <1>2, <2>2 DEF StuckInv
<1> QED BY <1>4, <1>5, <1>6 DEF Next

\* For missions of any size: a row that is neither ended nor waiting for the operator
\* is one the driver drives or the auto-resume sweep selects, a pause it must find
\* counted (statemachine's "paused" event) and below the end of its ladder.
THEOREM NoneStuck == Spec => []NeverStuck
<1>1. Init => StuckInv
  <2> SUFFICES ASSUME Init, TypeOK PROVE StuckInv
    BY InitTypeOK
  <2>1. m.status = "idle"
    BY DEF Init, Created
  <2> QED BY <2>1 DEF StuckInv
<1>2. StuckInv /\ [Next]_vars => StuckInv'
  <2>1. ASSUME StuckInv, UNCHANGED vars PROVE StuckInv'
    BY <2>1, NextTypeOK DEF StuckInv, vars
  <2> QED BY <2>1, NextStuck
<1>3. StuckInv => NeverStuck
  <2> SUFFICES ASSUME StuckInv PROVE NeverStuck
    OBVIOUS
  <2>1. m.status \in Statuses
    BY DEF StuckInv, TypeOK, StepStates
  <2>2. CASE m.status = "paused" /\ m.pauseReason \in Ladders
    <3>1. pauses[m.pauseReason] \in Nat /\ LadderMax(m.pauseReason) \in Nat
      BY <2>2, MissionAssumption DEF StuckInv, TypeOK, LadderMax
    <3> QED BY <2>2, <3>1 DEF NeverStuck, StuckInv, Rested, Resumable
  <2>3. CASE ~(m.status = "paused" /\ m.pauseReason \in Ladders)
    BY <2>1, <2>3 DEF NeverStuck, StuckInv, Rested, Drivable, Statuses
  <2> QED BY <2>2, <2>3
<1> QED BY <1>1, <1>2, <1>3, PTL DEF Spec

=============================================================================
