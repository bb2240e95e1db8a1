----------------------------- MODULE MissionStep -----------------------------
(***************************************************************************)
(* The mission state machine: Step and its step* helpers, pure functions   *)
(* of a StepState and a StepInput (internal/brain/missions/statemachine.go).*)
(*                                                                         *)
(* Data abstraction.  A plan is a function from its units to what is       *)
(* recorded of each; a unit's text, artifacts and excerpts are left out.   *)
(* The findings ledger is keyed by findingKey (file + title tokens), one   *)
(* entry per key: at most one finding per key is ever open, and resolved   *)
(* ones play no further part.  Spent, Budget and MixedCurrencySpend enter  *)
(* as the three cases the budget brake tells apart.  Of the drafted events *)
(* only the last one's kind is kept.                                       *)
(***************************************************************************)
EXTENDS Integers, FiniteSets

CONSTANTS
  PlanSize,         \* the most units a plan has
  ReviewKeys,       \* the findings a reviewer may raise
  Located,          \* those of ReviewKeys that name a file
  Routes,           \* review routes (with their model pin)
  MaxIterations, BackoffFailures, StallRounds, HarnessRetryCap

ASSUME CeilingsAssumption ==
  /\ MaxIterations \in Nat \ {0}
  /\ BackoffFailures \in Nat \ {0}
  /\ StallRounds \in Nat \ {0}
  /\ HarnessRetryCap \in Nat \ {0}

ASSUME DataAssumption ==
  /\ PlanSize \in Nat
  /\ Located \subseteq ReviewKeys

-----------------------------------------------------------------------------
(* The values of StepState's fields. *)

Phases == {"discover", "plan", "build", "prove", "result", "done", "failed"}

Statuses == {"idle", "working", "waiting_for_input", "paused", "done", "error"}

NoReason == "none"

PauseReasons == {"backoff", "no_progress", "infra", "budget", "mixed_currency",
                 "approval", "review_exhausted"}

Flows == {"full", "no_prove", "discover_build", "light"}

Units == 1 .. PlanSize

UnitStates == [harnessPassed : BOOLEAN, passes : BOOLEAN]

Plans == UNION {[U -> UnitStates] : U \in SUBSET Units}

\* A finding's key: the reviewer's own, or the one the harness writes for a
\* unit whose batch check fails after an approval.
FindingKeys == ({"review"} \X ReviewKeys) \cup ({"harness"} \X Units)

HasFile == {"review"} \X Located

FindingStates == [open : BOOLEAN, blocking : BOOLEAN, untouched : Nat]

Ledgers == [FindingKeys -> FindingStates]

Closed == [open |-> FALSE, blocking |-> FALSE, untouched |-> 0]

NoFingerprint == <<"", 0>>

\* What a retry stalls on: a unit's failed batch check, untracked paths outside
\* the unit's scope, or one of the retries the harness forces.
Fingerprints ==
  ({"regression", "verify_failed"} \X Units) \cup
  ({"commit_skipped", "no_sentinel", "done_without_changes", "forced_retry"} \X {0})

StepStates ==
  [phase : Phases, status : Statuses, pauseReason : PauseReasons \cup {NoReason},
   iteration : Nat, consecutiveFailures : Nat,
   lastGapFingerprint : Fingerprints \cup {NoFingerprint}, stallCount : Nat,
   harnessRetries : Nat, units : Plans, replanUsed : BOOLEAN, flow : Flows,
   autoApprovePlan : BOOLEAN, findings : Ledgers,
   reworkRounds : Nat, reviewRoute : Routes]

\* The budget brake's view of the ledger: "under" also stands for a mission
\* without a budget.
Spends == {"under", "over", "mixed"}

-----------------------------------------------------------------------------
(* StepInput: its kind and the data the state machine reads from it.       *)

Kinds == {"phase_complete", "worker_retry", "worker_blocked", "plan_defect",
          "worker_failed", "review_approve", "review_rework",
          "review_infra_failure", "review_budget", "resume", "cancel",
          "plan_infeasible", "result_complete", "result_failed",
          "plan_approve", "plan_replan", "plan_rediscover", "ask_user",
          "route_change"}

\* TouchedFiles: the keys whose file the turn changed; known is FALSE for nil.
Touches == [known : BOOLEAN, keys : SUBSET HasFile]

\* A batch verify pass: an outcome for each unit it checked.
Verifications == UNION {[U -> BOOLEAN] : U \in SUBSET Units}

\* The findings of a rework verdict: a severity for each key raised.
Reports == UNION {[K -> BOOLEAN] : K \in SUBSET FindingKeys}

Inputs ==
  [kind : Kinds, fingerprint : Fingerprints \cup {NoFingerprint},
   harnessCaused : BOOLEAN, verified : Verifications, reported : Reports,
   resolved : SUBSET FindingKeys, touched : Touches, route : Routes]

Nothing == [x \in {} |-> TRUE]

Unknown == [known |-> FALSE, keys |-> {}]

\* An input of kind k whose optional fields are all at their zero values; r is
\* a route for the field only a route change reads.
Plain(k, r) ==
  [kind |-> k, fingerprint |-> NoFingerprint, harnessCaused |-> FALSE,
   verified |-> Nothing, reported |-> Nothing, resolved |-> {},
   touched |-> Unknown, route |-> r]

-----------------------------------------------------------------------------
(* Predicates on phases, flows, plans and findings. *)

Terminal(p) == p \in {"done", "failed"}

NeverVisitsPlan(s) == s.flow \in {"light", "discover_build"}

Ordered(flow) ==
  IF flow = "discover_build"
  THEN {<<"discover", "build">>}
  ELSE {<<"discover", "plan">>, <<"plan", "build">>, <<"build", "prove">>}

NextPhases(flow, p) == {q \in Phases : <<p, q>> \in Ordered(flow)}

InitialPhase(flow) == IF flow = "light" THEN "build" ELSE "discover"

Verified(u) == u.harnessPassed \/ u.passes

UnverifiedUnits(units) == {x \in DOMAIN units : ~Verified(units[x])}

UnitsUnderReview(units) ==
  {x \in DOMAIN units : units[x].harnessPassed /\ ~units[x].passes}

AllPassed(units) == \A x \in DOMAIN units : units[x].passes

OpenFindings(findings) == {k \in FindingKeys : findings[k].open}

StalledFindings(findings) ==
  {k \in OpenFindings(findings) :
     findings[k].blocking /\ findings[k].untouched >= StallRounds}

-----------------------------------------------------------------------------
(* Updates of plans and of the findings ledger. *)

ApplyVerification(units, verified) ==
  [x \in DOMAIN units |->
     IF x \notin DOMAIN verified THEN units[x]
     ELSE IF verified[x] THEN [units[x] EXCEPT !.harnessPassed = TRUE]
     ELSE [harnessPassed |-> FALSE, passes |-> FALSE]]

\* Fault: an approval also covers what the harness has not verified.
PassHarnessVerifiedAll(units) ==
  [x \in DOMAIN units |-> [units[x] EXCEPT !.passes = TRUE]]

PassHarnessVerified(units) ==
  [x \in DOMAIN units |->
     [units[x] EXCEPT !.passes = units[x].passes \/ units[x].harnessPassed]]

MergeFindings(findings, reported, resolved) ==
  [k \in FindingKeys |->
     IF k \in resolved THEN Closed
     ELSE IF k \in DOMAIN reported /\ ~findings[k].open
     THEN [open |-> TRUE, blocking |-> reported[k], untouched |-> 0]
     ELSE findings[k]]

MarkUntouched(findings, touched) ==
  [k \in FindingKeys |->
     IF ~findings[k].open \/ k \notin HasFile THEN findings[k]
     ELSE [findings[k] EXCEPT !.untouched =
             IF k \in touched.keys THEN 0 ELSE findings[k].untouched + 1]]

ResolveAll == [k \in FindingKeys |-> Closed]

-----------------------------------------------------------------------------
(* Transitions: the next state and the kind of the last drafted event. *)

To(s, e) == [next |-> s, event |-> e]

NoOp(s) == To(s, "none")

WithStatus(s, st) == [s EXCEPT !.status = st]

WithPause(s, reason) == [s EXCEPT !.status = "paused", !.pauseReason = reason]

\* Fault: the phase's name written as the status.
WithPhaseFailedBadStatus(s) ==
  [s EXCEPT !.phase = "failed", !.status = "failed", !.pauseReason = NoReason]

WithPhaseFailed(s) ==
  [s EXCEPT !.phase = "failed", !.status = "error", !.pauseReason = NoReason]

Pause(s, reason) == To(WithPause(s, reason), "paused")

Fail(s) == To(WithPhaseFailed(s), "failed")

StepResume(s) ==
  IF Terminal(s.phase) THEN NoOp(s)
  ELSE To([s EXCEPT !.status = "idle", !.pauseReason = NoReason], "resumed")

\* Enter phase p ready to be driven, with the per-phase counters cleared.
Enter(s, p) ==
  [s EXCEPT !.phase = p, !.status = "idle", !.iteration = 0,
            !.consecutiveFailures = 0]

\* Fault: the flag read the wrong way round.
NeedsApprovalInverted(s) == s.phase = "plan" /\ s.autoApprovePlan

NeedsApproval(s) == s.phase = "plan" /\ ~s.autoApprovePlan

StepPhaseComplete(s0, in) ==
  LET s == IF s0.phase = "build" /\ in.touched.known
           THEN [s0 EXCEPT !.findings = MarkUntouched(s0.findings, in.touched)]
           ELSE s0
      next == NextPhases(s.flow, s.phase)
  IN  IF NeedsApproval(s)
      THEN To(WithPause(s, "approval"), "plan_awaiting_approval")
      ELSE IF next = {} THEN NoOp(s0)
      ELSE IF s.phase = "build" /\ OpenFindings(s.findings) = {}
                                /\ UnverifiedUnits(s.units) # {}
      THEN To(Enter(s, "build"), "generate_continued")
      ELSE To(Enter(s, CHOOSE p \in next : TRUE), "phase_started")

AwaitingApproval(s) == s.phase = "plan" /\ s.pauseReason = "approval"

StepPlanApprove(s) ==
  IF ~AwaitingApproval(s) THEN NoOp(s)
  ELSE To([Enter(s, "build") EXCEPT !.pauseReason = NoReason], "plan_approved")

StepPlanReplan(s) ==
  IF ~AwaitingApproval(s) THEN NoOp(s)
  ELSE To([Enter(s, "plan") EXCEPT !.pauseReason = NoReason],
          "plan_replan_requested")

StepPlanRediscover(s) ==
  IF ~AwaitingApproval(s) THEN NoOp(s)
  ELSE To([Enter(s, "discover") EXCEPT !.pauseReason = NoReason],
          "rediscover_requested")

StepRouteChange(s, in) ==
  IF Terminal(s.phase) \/ s.status # "paused" THEN NoOp(s)
  ELSE To([s EXCEPT !.reviewRoute = in.route], "route_changed")

HarnessRetryExhausted(s) == s.harnessRetries >= HarnessRetryCap

IterationsExhausted(s) == s.iteration >= MaxIterations

\* Fault: retries that the harness causes are not counted.
CountHarnessRetryNever(s, in) == s

CountHarnessRetry(s, in) ==
  [s EXCEPT !.harnessRetries = IF in.harnessCaused THEN @ + 1 ELSE @]

CountIteration(s, in) ==
  [s EXCEPT !.iteration = IF in.harnessCaused THEN @ ELSE @ + 1]

\* One more try in the same phase: counted against max_iterations, or, when the
\* harness is to blame, against the lifetime harness-retry cap.
Retry(s, in, otherwise) ==
  IF in.harnessCaused
  THEN IF HarnessRetryExhausted(s) THEN Pause(s, "no_progress") ELSE otherwise
  ELSE IF IterationsExhausted(s) THEN Fail(s) ELSE otherwise

StepWorkerFailed(s0, in) ==
  LET failed == [s0 EXCEPT !.consecutiveFailures = @ + 1]
      s == CountIteration(CountHarnessRetry(failed, in), in)
  IN  Retry(s, in, IF s.consecutiveFailures >= BackoffFailures
                   THEN Pause(s, "backoff") ELSE To(s, "retry"))

\* Fault: the one replan of a mission is not used up.
ReplanTransitionUnused(s) ==
  To([Enter(s, "plan") EXCEPT !.stallCount = 0, !.lastGapFingerprint = NoFingerprint], "replan")

ReplanTransition(s) ==
  To([Enter(s, "plan") EXCEPT !.replanUsed = TRUE, !.stallCount = 0,
                              !.lastGapFingerprint = NoFingerprint], "replan")

CanReplan(s) == ~s.replanUsed /\ ~NeverVisitsPlan(s)

StepWorkerRetry(s0, in) ==
  LET stalls == in.fingerprint # NoFingerprint
      tracked == [s0 EXCEPT
             !.consecutiveFailures = 0,
             !.stallCount = IF ~stalls THEN @
                            ELSE IF in.fingerprint = s0.lastGapFingerprint
                            THEN @ + 1 ELSE 1,
             !.lastGapFingerprint = IF stalls THEN in.fingerprint ELSE @]
      s == CountHarnessRetry(tracked, in)
      spent == CountIteration(s, in)
  IN  IF stalls /\ s.stallCount >= StallRounds
                /\ (~NeverVisitsPlan(s) \/ in.harnessCaused)
      THEN IF CanReplan(s) THEN ReplanTransition(s) ELSE Pause(s, "no_progress")
      ELSE Retry(spent, in, To(spent, "retry"))

StepReviewApprove(s0) ==
  LET s == [s0 EXCEPT !.stallCount = 0, !.lastGapFingerprint = NoFingerprint,
                      !.findings = ResolveAll, !.reworkRounds = 0,
                      !.units = PassHarnessVerified(s0.units)]
  IN  IF AllPassed(s.units)
      THEN To([s EXCEPT !.phase = "result", !.status = "idle"], "phase_started")
      ELSE To(Enter(s, "build"), "unit_verified")

\* Fault: one rejection too many.
ReworkExhaustedLate(s) == s.reworkRounds > MaxIterations

ReworkExhausted(s) == s.reworkRounds >= MaxIterations

StepReviewRework(s0, in) ==
  LET s == [s0 EXCEPT
             !.reworkRounds = @ + 1,
             !.findings = MergeFindings(s0.findings, in.reported, in.resolved),
             !.phase = "build", !.status = "idle"]
  IN  IF StalledFindings(s.findings) # {} THEN Pause(s, "no_progress")
      ELSE IF ReworkExhausted(s) THEN Pause(s, "review_exhausted")
      ELSE To([s EXCEPT !.iteration = @ + 1], "review_verdict")

StepWorkerBlocked(s) == To(WithStatus(s, "waiting_for_input"), "blocked")

StepResultComplete(s) ==
  To([s EXCEPT !.phase = "done", !.status = "done"], "done")

StepSwitch(s, in) ==
  CASE in.kind = "resume"               -> StepResume(s)
    [] in.kind = "phase_complete"       -> StepPhaseComplete(s, in)
    [] in.kind = "worker_retry"         -> StepWorkerRetry(s, in)
    [] in.kind = "worker_blocked"       -> StepWorkerBlocked(s)
    [] in.kind = "plan_defect"          -> IF CanReplan(s) THEN ReplanTransition(s)
                                           ELSE StepWorkerBlocked(s)
    [] in.kind = "ask_user"             -> To(WithStatus(s, "waiting_for_input"), "none")
    [] in.kind = "worker_failed"        -> StepWorkerFailed(s, in)
    [] in.kind = "review_approve"       -> StepReviewApprove(s)
    [] in.kind = "review_rework"        -> StepReviewRework(s, in)
    [] in.kind = "review_infra_failure" -> Pause(s, "infra")
    [] in.kind = "review_budget"        -> Pause(s, "budget")
    [] in.kind = "result_complete"      -> StepResultComplete(s)
    [] in.kind = "result_failed"        -> Pause(s, "infra")
    [] in.kind = "plan_infeasible"      -> IF s.phase = "plan" THEN Fail(s) ELSE NoOp(s)
    [] in.kind = "plan_approve"         -> StepPlanApprove(s)
    [] in.kind = "plan_replan"          -> StepPlanReplan(s)
    [] in.kind = "plan_rediscover"      -> StepPlanRediscover(s)
    [] in.kind = "route_change"         -> StepRouteChange(s, in)
    [] OTHER                            -> NoOp(s)

\* The budget brake, ahead of the input switch.
StepInput(s, in, spend) ==
  IF ~Terminal(s.phase) /\ spend = "mixed" THEN Pause(s, "mixed_currency")
  ELSE IF ~Terminal(s.phase) /\ spend = "over" THEN Pause(s, "budget")
  ELSE StepSwitch(s, in)

Step(s, in, spend) ==
  IF in.kind = "cancel"
  THEN IF Terminal(s.phase) THEN NoOp(s) ELSE Fail(s)
  ELSE StepInput([s EXCEPT !.units = ApplyVerification(s.units, in.verified)],
                 in, spend)
=============================================================================
