------------------------- MODULE MissionPhasesProofs -------------------------
(***************************************************************************)
(* What one transition of the state machine preserves, and that every      *)
(* input a turn can report has the type of an input and a kind that its    *)
(* phase may report, for every number of units, findings and routes and    *)
(* every setting of the ceilings.                                          *)
(***************************************************************************)
EXTENDS MissionPhases, TLAPS, WellFoundedInduction

-----------------------------------------------------------------------------
(* One transition of the state machine. *)

\* A plan is a function from some of the units to their recorded states.
LEMMA PlanIsFunction ==
  ASSUME NEW p
  PROVE  p \in Plans <=> DOMAIN p \subseteq Units /\ p \in [DOMAIN p -> UnitStates]
BY DEF Plans

\* applyVerification yields a plan over the same units.
LEMMA ApplyVerificationType ==
  ASSUME NEW units \in Plans, NEW v \in Verifications
  PROVE  /\ ApplyVerification(units, v) \in Plans
         /\ DOMAIN ApplyVerification(units, v) = DOMAIN units
<1>1. units \in [DOMAIN units -> UnitStates] /\ DOMAIN units \subseteq Units
  BY PlanIsFunction
<1>2. v \in [DOMAIN v -> BOOLEAN]
  BY DEF Verifications
<1>3. \A x \in DOMAIN units : ApplyVerification(units, v)[x] \in UnitStates
  BY <1>1, <1>2 DEF ApplyVerification, UnitStates
<1>4. ApplyVerification(units, v) \in [DOMAIN units -> UnitStates]
  BY <1>3 DEF ApplyVerification
<1> QED BY <1>1, <1>4, PlanIsFunction

\* passHarnessVerified yields a plan over the same units.
LEMMA PassHarnessVerifiedType ==
  ASSUME NEW units \in Plans
  PROVE  /\ PassHarnessVerified(units) \in Plans
         /\ DOMAIN PassHarnessVerified(units) = DOMAIN units
<1>1. units \in [DOMAIN units -> UnitStates] /\ DOMAIN units \subseteq Units
  BY PlanIsFunction
<1>2. \A x \in DOMAIN units : PassHarnessVerified(units)[x] \in UnitStates
  BY <1>1 DEF PassHarnessVerified, UnitStates
<1>3. PassHarnessVerified(units) \in [DOMAIN units -> UnitStates]
  BY <1>2 DEF PassHarnessVerified
<1> QED BY <1>1, <1>3, PlanIsFunction

\* The updates of the findings ledger yield ledgers.
LEMMA MergeFindingsType ==
  ASSUME NEW findings \in Ledgers, NEW r \in Reports, NEW c \in SUBSET FindingKeys
  PROVE  MergeFindings(findings, r, c) \in Ledgers
<1>1. r \in [DOMAIN r -> BOOLEAN]
  BY DEF Reports
<1>2. ASSUME NEW k \in FindingKeys
      PROVE  MergeFindings(findings, r, c)[k] \in FindingStates
  BY <1>1 DEF MergeFindings, Ledgers, FindingStates, Closed
<1> QED BY <1>2 DEF MergeFindings, Ledgers

LEMMA MarkUntouchedType ==
  ASSUME NEW findings \in Ledgers, NEW t \in Touches
  PROVE  MarkUntouched(findings, t) \in Ledgers
<1>1. ASSUME NEW k \in FindingKeys
      PROVE  MarkUntouched(findings, t)[k] \in FindingStates
  <2>1. findings[k] \in FindingStates
    BY DEF Ledgers
  <2> QED BY <2>1 DEF MarkUntouched, FindingStates
<1> QED BY <1>1 DEF MarkUntouched, Ledgers

-----------------------------------------------------------------------------
(* Step yields a StepState from any StepState and input. *)

\* Entering a phase, parking, failing and clearing the pause keep the type.
LEMMA EnterType ==
  ASSUME NEW s \in StepStates, NEW p \in Phases
  PROVE  Enter(s, p) \in StepStates
BY DEF Enter, StepStates, Statuses

LEMMA PauseType ==
  ASSUME NEW s \in StepStates, NEW r \in PauseReasons
  PROVE  /\ WithPause(s, r) \in StepStates
         /\ Pause(s, r).next \in StepStates
BY DEF WithPause, Pause, To, StepStates, Statuses

LEMMA FailType ==
  ASSUME NEW s \in StepStates
  PROVE  Fail(s).next \in StepStates
BY DEF WithPhaseFailed, Fail, To, StepStates, Statuses, Phases

LEMMA ClearPauseType ==
  ASSUME NEW s \in StepStates
  PROVE  [s EXCEPT !.pauseReason = NoReason] \in StepStates
BY DEF StepStates

\* So do the counters of a retry.
LEMMA CountType ==
  ASSUME NEW s \in StepStates, NEW in \in Inputs
  PROVE  /\ CountHarnessRetry(s, in) \in StepStates
         /\ CountIteration(s, in) \in StepStates
BY DEF CountHarnessRetry, CountIteration, StepStates, Inputs

LEMMA RetryType ==
  ASSUME NEW s \in StepStates, NEW in \in Inputs, NEW o, o.next \in StepStates
  PROVE  Retry(s, in, o).next \in StepStates
<1>1. Pause(s, "no_progress").next \in StepStates /\ Fail(s).next \in StepStates
  BY PauseType, FailType DEF PauseReasons
<1> QED BY <1>1 DEF Retry

LEMMA WorkerFailedType ==
  ASSUME NEW s \in StepStates, NEW in \in Inputs
  PROVE  StepWorkerFailed(s, in).next \in StepStates
<1> DEFINE failed == [s EXCEPT !.consecutiveFailures = @ + 1]
           t == CountIteration(CountHarnessRetry(failed, in), in)
           o == IF t.consecutiveFailures >= BackoffFailures
                THEN Pause(t, "backoff") ELSE To(t, "retry")
<1>1. failed \in StepStates
  BY DEF StepStates
<1>2. t \in StepStates
  BY <1>1, CountType
<1>3. o.next \in StepStates
  BY <1>2, PauseType DEF To, PauseReasons
<1>4. Retry(t, in, o).next \in StepStates
  BY <1>2, <1>3, RetryType
<1> QED BY <1>4 DEF StepWorkerFailed

LEMMA ReplanType ==
  ASSUME NEW s \in StepStates
  PROVE  ReplanTransition(s).next \in StepStates
<1>1. Enter(s, "plan") \in StepStates
  BY EnterType DEF Phases
<1> QED BY <1>1 DEF ReplanTransition, To, StepStates

\* A retry's stall tracking.
LEMMA TrackedType ==
  ASSUME NEW s \in StepStates, NEW in \in Inputs
  PROVE  [s EXCEPT
            !.consecutiveFailures = 0,
            !.stallCount = IF ~(in.fingerprint # NoFingerprint) THEN @
                           ELSE IF in.fingerprint = s.lastGapFingerprint
                           THEN @ + 1 ELSE 1,
            !.lastGapFingerprint =
               IF in.fingerprint # NoFingerprint THEN in.fingerprint ELSE @]
         \in StepStates
<1>1. ASSUME NEW n \in Nat, NEW f \in Fingerprints \cup {NoFingerprint}
      PROVE  [s EXCEPT !.consecutiveFailures = 0, !.stallCount = n,
                       !.lastGapFingerprint = f] \in StepStates
  BY DEF StepStates
<1>2. /\ s.stallCount \in Nat
      /\ s.stallCount + 1 \in Nat
      /\ in.fingerprint \in Fingerprints \cup {NoFingerprint}
      /\ s.lastGapFingerprint \in Fingerprints \cup {NoFingerprint}
  BY DEF StepStates, Inputs
<1> QED BY <1>1, <1>2

LEMMA WorkerRetryType ==
  ASSUME NEW s \in StepStates, NEW in \in Inputs
  PROVE  StepWorkerRetry(s, in).next \in StepStates
<1> DEFINE stalls == in.fingerprint # NoFingerprint
           tracked == [s EXCEPT
             !.consecutiveFailures = 0,
             !.stallCount = IF ~stalls THEN @
                            ELSE IF in.fingerprint = s.lastGapFingerprint
                            THEN @ + 1 ELSE 1,
             !.lastGapFingerprint = IF stalls THEN in.fingerprint ELSE @]
           t == CountHarnessRetry(tracked, in)
           spent == CountIteration(t, in)
<1>1. tracked \in StepStates
  BY TrackedType
<1>2. t \in StepStates /\ spent \in StepStates
  BY <1>1, CountType
<1>3. To(spent, "retry").next \in StepStates
  BY <1>2 DEF To
<1>4. Retry(spent, in, To(spent, "retry")).next \in StepStates
  BY <1>2, <1>3, RetryType
<1>5. ReplanTransition(t).next \in StepStates
  BY <1>2, ReplanType
<1>6. Pause(t, "no_progress").next \in StepStates
  BY <1>2, PauseType DEF PauseReasons
<1> HIDE DEF tracked, t, spent
<1> QED BY <1>4, <1>5, <1>6 DEF StepWorkerRetry, tracked, t, spent

LEMMA PhaseCompleteType ==
  ASSUME NEW s \in StepStates, NEW in \in Inputs
  PROVE  StepPhaseComplete(s, in).next \in StepStates
<1> DEFINE t == IF s.phase = "build" /\ in.touched.known
                THEN [s EXCEPT !.findings = MarkUntouched(s.findings, in.touched)]
                ELSE s
           next == NextPhases(t.flow, t.phase)
<1>1. t \in StepStates
  <2>1. MarkUntouched(s.findings, in.touched) \in Ledgers
    BY MarkUntouchedType DEF StepStates, Inputs
  <2> QED BY <2>1 DEF StepStates
<1>2. WithPause(t, "approval") \in StepStates
  BY <1>1, PauseType DEF PauseReasons
<1>3. Enter(t, "build") \in StepStates
  BY <1>1, EnterType DEF Phases
<1>4. next # {} => Enter(t, CHOOSE p \in next : TRUE) \in StepStates
  <2>1. next # {} => (CHOOSE p \in next : TRUE) \in Phases
    BY DEF NextPhases
  <2> HIDE DEF next
  <2> QED BY <1>1, <2>1, EnterType
<1> HIDE DEF t
<1> QED BY <1>1, <1>2, <1>3, <1>4 DEF StepPhaseComplete, t, To, NoOp

\* The operator's verbs.
LEMMA VerbType ==
  ASSUME NEW s \in StepStates, NEW in \in Inputs
  PROVE  /\ StepResume(s).next \in StepStates
         /\ StepPlanApprove(s).next \in StepStates
         /\ StepPlanReplan(s).next \in StepStates
         /\ StepPlanRediscover(s).next \in StepStates
         /\ StepRouteChange(s, in).next \in StepStates
<1>1. /\ Enter(s, "build") \in StepStates
      /\ Enter(s, "plan") \in StepStates
      /\ Enter(s, "discover") \in StepStates
  BY EnterType DEF Phases
<1>2. StepResume(s).next \in StepStates
  BY DEF StepResume, To, NoOp, StepStates, Statuses
<1>3. StepRouteChange(s, in).next \in StepStates
  BY DEF StepRouteChange, To, NoOp, StepStates, Inputs
<1> QED BY <1>1, <1>2, <1>3, ClearPauseType
        DEF StepPlanApprove, StepPlanReplan, StepPlanRediscover, To, NoOp

LEMMA ReviewApproveType ==
  ASSUME NEW s \in StepStates
  PROVE  StepReviewApprove(s).next \in StepStates
<1> DEFINE t == [s EXCEPT !.stallCount = 0, !.lastGapFingerprint = NoFingerprint,
                          !.findings = ResolveAll, !.reworkRounds = 0,
                          !.units = PassHarnessVerified(s.units)]
<1>1. t \in StepStates
  <2>1. PassHarnessVerified(s.units) \in Plans
    BY PassHarnessVerifiedType DEF StepStates
  <2>2. ResolveAll \in Ledgers
    BY DEF Ledgers, ResolveAll, Closed, FindingStates
  <2> QED BY <2>1, <2>2 DEF StepStates
<1>2. [t EXCEPT !.phase = "result", !.status = "idle"] \in StepStates
  <2> HIDE DEF t
  <2> QED BY <1>1 DEF StepStates, Phases, Statuses
<1>3. Enter(t, "build") \in StepStates
  BY <1>1, EnterType DEF Phases
<1> HIDE DEF t
<1> QED BY <1>2, <1>3 DEF StepReviewApprove, t, To

\* A rejected review's merge of the findings.
LEMMA ReworkedType ==
  ASSUME NEW s \in StepStates, NEW in \in Inputs
  PROVE  [s EXCEPT
            !.reworkRounds = @ + 1,
            !.findings = MergeFindings(s.findings, in.reported, in.resolved),
            !.phase = "build", !.status = "idle"] \in StepStates
<1>1. MergeFindings(s.findings, in.reported, in.resolved) \in Ledgers
  <2>1. /\ s.findings \in Ledgers
        /\ in.reported \in Reports
        /\ in.resolved \in SUBSET FindingKeys
    BY DEF StepStates, Inputs
  <2> QED BY <2>1, MergeFindingsType
<1>2. s.reworkRounds + 1 \in Nat
  BY DEF StepStates
<1>3. ASSUME NEW merged \in Ledgers, NEW n \in Nat
      PROVE  [s EXCEPT !.reworkRounds = n, !.findings = merged,
                       !.phase = "build", !.status = "idle"] \in StepStates
  BY DEF StepStates, Phases, Statuses
<1> QED BY <1>1, <1>2, <1>3

LEMMA ReviewReworkType ==
  ASSUME NEW s \in StepStates, NEW in \in Inputs
  PROVE  StepReviewRework(s, in).next \in StepStates
<1> DEFINE t == [s EXCEPT
             !.reworkRounds = @ + 1,
             !.findings = MergeFindings(s.findings, in.reported, in.resolved),
             !.phase = "build", !.status = "idle"]
<1>1. t \in StepStates
  BY ReworkedType
<1>2. [t EXCEPT !.iteration = @ + 1] \in StepStates
  <2> HIDE DEF t
  <2> QED BY <1>1 DEF StepStates
<1>3. Pause(t, "no_progress").next \in StepStates
      /\ Pause(t, "review_exhausted").next \in StepStates
  BY <1>1, PauseType DEF PauseReasons
<1> HIDE DEF t
<1> QED BY <1>2, <1>3 DEF StepReviewRework, t, To

\* Parking on a question, and the end of a mission.
LEMMA ParkType ==
  ASSUME NEW s \in StepStates
  PROVE  /\ WithStatus(s, "waiting_for_input") \in StepStates
         /\ StepWorkerBlocked(s).next \in StepStates
         /\ StepResultComplete(s).next \in StepStates
BY DEF WithStatus, StepWorkerBlocked, StepResultComplete, To, StepStates,
       Statuses, Phases

LEMMA StepSwitchType ==
  ASSUME NEW s \in StepStates, NEW in \in Inputs
  PROVE  StepSwitch(s, in).next \in StepStates
<1>1. /\ Pause(s, "infra").next \in StepStates
      /\ Pause(s, "budget").next \in StepStates
      /\ Fail(s).next \in StepStates
  BY PauseType, FailType DEF PauseReasons
<1>2. NoOp(s).next \in StepStates
  BY DEF NoOp, To
<1>3. To(WithStatus(s, "waiting_for_input"), "none").next \in StepStates
  BY ParkType DEF To
<1> QED BY <1>1, <1>2, <1>3, PhaseCompleteType, WorkerRetryType, ParkType,
           WorkerFailedType, ReplanType, ReviewApproveType, ReviewReworkType,
           VerbType
        DEF StepSwitch

\* Step is total: every input to every state of the row yields a state of the
\* row, an unrecognised input included (the no-op of its default case).
THEOREM StepType ==
  ASSUME NEW s \in StepStates, NEW in \in Inputs, NEW spend
  PROVE  Step(s, in, spend).next \in StepStates
<1> DEFINE t == [s EXCEPT !.units = ApplyVerification(s.units, in.verified)]
<1>1. t \in StepStates
  <2>1. ApplyVerification(s.units, in.verified) \in Plans
    BY ApplyVerificationType DEF StepStates, Inputs
  <2> QED BY <2>1 DEF StepStates
<1>2. StepInput(t, in, spend).next \in StepStates
  <2>1. StepSwitch(t, in).next \in StepStates
    BY <1>1, StepSwitchType
  <2>2. Pause(t, "mixed_currency").next \in StepStates
        /\ Pause(t, "budget").next \in StepStates
    BY <1>1, PauseType DEF PauseReasons
  <2> QED BY <2>1, <2>2 DEF StepInput
<1>3. NoOp(s).next \in StepStates /\ Fail(s).next \in StepStates
  BY FailType DEF NoOp, To
<1> QED BY <1>2, <1>3 DEF Step

-----------------------------------------------------------------------------
(* What Step does to the plan's evidence.                                  *)

\* A unit is never approved without the harness's verdict, a planned mission
\* that builds has units, and one that has its result has them all approved.
Evidenced(s) ==
  /\ \A x \in DOMAIN s.units : s.units[x].passes => s.units[x].harnessPassed
  /\ s.pauseReason = "approval" => DOMAIN s.units # {}
  /\ ~NeverVisitsPlan(s) /\ s.phase \in {"build", "prove", "result", "done"} =>
       DOMAIN s.units # {}
  /\ ~NeverVisitsPlan(s) /\ s.phase \in {"result", "done"} => AllPassed(s.units)

\* An input that the phase of s can report.
Reportable(s, in) ==
  /\ ~Terminal(s.phase)
  /\ in.kind = "result_complete" => s.phase = "result"
  /\ in.kind = "review_approve" => s.phase \in {"build", "prove"}
  /\ in.kind = "review_rework" => s.phase = "prove"
  /\ in.kind = "phase_complete" => s.phase \in {"discover", "plan", "build"}
  /\ in.kind = "phase_complete" /\ s.phase = "plan" => DOMAIN s.units # {}
  /\ s.phase = "result" => DOMAIN in.verified = {}

\* n follows s with the plan untouched and no step towards the result.
Holds(s, n) ==
  /\ n.flow = s.flow
  /\ n.units = s.units
  /\ n.phase \in {s.phase, "discover", "plan", "failed"}
  /\ n.pauseReason = "approval" => s.pauseReason = "approval"

LEMMA HoldsEvidenced ==
  ASSUME NEW s, NEW n, Evidenced(s), Holds(s, n)
  PROVE  Evidenced(n)
BY DEF Evidenced, Holds, NeverVisitsPlan

LEMMA PauseHolds ==
  ASSUME NEW s \in StepStates, NEW r \in PauseReasons \ {"approval"}
  PROVE  Holds(s, Pause(s, r).next)
BY DEF Holds, Pause, WithPause, To, StepStates

LEMMA FailHolds ==
  ASSUME NEW s \in StepStates
  PROVE  Holds(s, Fail(s).next)
BY DEF Holds, Fail, WithPhaseFailed, To, NoReason, StepStates

LEMMA ReplanHolds ==
  ASSUME NEW s \in StepStates
  PROVE  Holds(s, ReplanTransition(s).next)
BY DEF Holds, ReplanTransition, Enter, To, StepStates

\* The retries.  Same(s, t): the counters moved and nothing else that Holds
\* speaks of.
Same(s, t) ==
  /\ t.flow = s.flow /\ t.units = s.units
  /\ t.phase = s.phase /\ t.pauseReason = s.pauseReason

LEMMA SameHolds ==
  ASSUME NEW s, NEW t, NEW n, Same(s, t), Holds(t, n)
  PROVE  Holds(s, n)
BY DEF Same, Holds

LEMMA CountSame ==
  ASSUME NEW s \in StepStates, NEW in \in Inputs
  PROVE  Same(s, CountIteration(CountHarnessRetry(s, in), in))
         /\ Same(s, CountHarnessRetry(s, in))
<1>1. ASSUME NEW t \in StepStates
      PROVE  Same(t, CountIteration(t, in)) /\ Same(t, CountHarnessRetry(t, in))
  BY DEF Same, CountIteration, CountHarnessRetry, StepStates
<1>2. CountHarnessRetry(s, in) \in StepStates
  BY CountType
<1>3. Same(CountHarnessRetry(s, in), CountIteration(CountHarnessRetry(s, in), in))
  BY <1>1, <1>2
<1> QED BY <1>1, <1>3 DEF Same

LEMMA SameSelf ==
  ASSUME NEW s PROVE Holds(s, To(s, "retry").next) /\ Holds(s, NoOp(s).next)
BY DEF Holds, To, NoOp

LEMMA RetryHolds ==
  ASSUME NEW s \in StepStates, NEW in \in Inputs, NEW o, Holds(s, o.next)
  PROVE  Holds(s, Retry(s, in, o).next)
<1>1. "no_progress" \in PauseReasons \ {"approval"}
  BY DEF PauseReasons
<1> QED BY <1>1, PauseHolds, FailHolds DEF Retry

LEMMA WorkerFailedHolds ==
  ASSUME NEW s \in StepStates, NEW in \in Inputs
  PROVE  Holds(s, StepWorkerFailed(s, in).next)
<1> DEFINE failed == [s EXCEPT !.consecutiveFailures = @ + 1]
           t == CountIteration(CountHarnessRetry(failed, in), in)
           o == IF t.consecutiveFailures >= BackoffFailures
                THEN Pause(t, "backoff") ELSE To(t, "retry")
<1>1. failed \in StepStates /\ Same(s, failed)
  BY DEF StepStates, Same
<1>2. t \in StepStates /\ Same(failed, t)
  BY <1>1, CountType, CountSame
<1>3. Holds(t, o.next)
  <2>1. "backoff" \in PauseReasons \ {"approval"}
    BY DEF PauseReasons
  <2>2. Holds(t, Pause(t, "backoff").next)
    BY <1>2, <2>1, PauseHolds
  <2>3. Holds(t, To(t, "retry").next)
    BY SameSelf
  <2> QED BY <2>2, <2>3
<1>4. Holds(t, Retry(t, in, o).next)
  BY <1>2, <1>3, RetryHolds
<1>5. Same(s, t)
  BY <1>1, <1>2 DEF Same
<1>6. Holds(s, Retry(t, in, o).next)
  BY <1>4, <1>5, SameHolds
<1> QED BY <1>6 DEF StepWorkerFailed

LEMMA WorkerRetryHolds ==
  ASSUME NEW s \in StepStates, NEW in \in Inputs
  PROVE  Holds(s, StepWorkerRetry(s, in).next)
<1> DEFINE stalls == in.fingerprint # NoFingerprint
           tracked == [s EXCEPT
             !.consecutiveFailures = 0,
             !.stallCount = IF ~stalls THEN @
                            ELSE IF in.fingerprint = s.lastGapFingerprint
                            THEN @ + 1 ELSE 1,
             !.lastGapFingerprint = IF stalls THEN in.fingerprint ELSE @]
           t == CountHarnessRetry(tracked, in)
           spent == CountIteration(t, in)
<1>1. tracked \in StepStates /\ Same(s, tracked)
  <2>1. tracked \in StepStates
    BY TrackedType
  <2>2. Same(s, tracked)
    BY DEF StepStates, Same
  <2> QED BY <2>1, <2>2
<1>2. t \in StepStates /\ spent \in StepStates
  BY <1>1, CountType
<1>3. Same(s, t) /\ Same(s, spent)
  <2>1. Same(tracked, t) /\ Same(tracked, spent)
    BY <1>1, CountSame
  <2> QED BY <1>1, <2>1 DEF Same
<1>4. Holds(spent, Retry(spent, in, To(spent, "retry")).next)
  BY <1>2, SameSelf, RetryHolds
<1>5. Holds(t, ReplanTransition(t).next)
  BY <1>2, ReplanHolds
<1>6. Holds(t, Pause(t, "no_progress").next)
  <2>1. "no_progress" \in PauseReasons \ {"approval"}
    BY DEF PauseReasons
  <2> QED BY <1>2, <2>1, PauseHolds
<1> HIDE DEF tracked, t, spent
<1>7. /\ Holds(s, Retry(spent, in, To(spent, "retry")).next)
      /\ Holds(s, ReplanTransition(t).next)
      /\ Holds(s, Pause(t, "no_progress").next)
  BY <1>3, <1>4, <1>5, <1>6, SameHolds
<1> QED BY <1>7 DEF StepWorkerRetry, tracked, t, spent

LEMMA PhaseCompleteEvidenced ==
  ASSUME NEW s \in StepStates, NEW in \in Inputs, in.kind = "phase_complete",
         Evidenced(s), Reportable(s, in)
  PROVE  Evidenced(StepPhaseComplete(s, in).next)
<1> DEFINE t == IF s.phase = "build" /\ in.touched.known
                THEN [s EXCEPT !.findings = MarkUntouched(s.findings, in.touched)]
                ELSE s
           next == NextPhases(t.flow, t.phase)
           q == CHOOSE p \in next : TRUE
<1>1. t \in StepStates /\ Same(s, t)
  <2>1. MarkUntouched(s.findings, in.touched) \in Ledgers
    BY MarkUntouchedType DEF StepStates, Inputs
  <2>2. ASSUME NEW f \in Ledgers
        PROVE  [s EXCEPT !.findings = f] \in StepStates
               /\ Same(s, [s EXCEPT !.findings = f])
    BY DEF StepStates, Same
  <2>3. Same(s, s)
    BY DEF Same
  <2> QED BY <2>1, <2>2, <2>3
<1> HIDE DEF t
<1>2. NeedsApproval(t) => Evidenced(WithPause(t, "approval"))
  <2>1. ASSUME NeedsApproval(t)
        PROVE  /\ WithPause(t, "approval").phase = "plan"
               /\ WithPause(t, "approval").units = s.units
               /\ s.phase = "plan"
    BY <1>1, <2>1 DEF NeedsApproval, WithPause, Same, StepStates
  <2> QED BY <2>1 DEF Evidenced, Reportable
<1>3. Evidenced(s)
  OBVIOUS
<1>4. ASSUME NEW p \in Phases,
             \/ p = "build" /\ s.phase = "build"
             \/ p \in NextPhases(s.flow, s.phase)
      PROVE  Evidenced(Enter(t, p))
  <2>1. /\ Enter(t, p).phase = p
        /\ Enter(t, p).flow = s.flow
        /\ Enter(t, p).units = s.units
        /\ Enter(t, p).pauseReason = s.pauseReason
    BY <1>1 DEF Enter, Same, StepStates
  <2>2. p \in NextPhases(s.flow, s.phase) =>
          \/ p = "plan"
          \/ p = "build" /\ (s.phase = "plan" \/ s.flow = "discover_build")
          \/ p = "prove" /\ s.phase = "build"
    BY DEF NextPhases, Ordered
  <2> QED BY <1>4, <2>1, <2>2 DEF Evidenced, Reportable, NeverVisitsPlan
<1>5. t.phase = "build" => Evidenced(Enter(t, "build"))
  BY <1>1, <1>4 DEF Same, Phases
<1>6. next # {} => Evidenced(Enter(t, q))
  <2>1. next # {} => q \in next
    OBVIOUS
  <2>2. next = NextPhases(s.flow, s.phase) /\ next \subseteq Phases
    BY <1>1 DEF Same, NextPhases
  <2> HIDE DEF next, q
  <2> QED BY <1>4, <2>1, <2>2
<1> QED BY <1>2, <1>3, <1>5, <1>6 DEF StepPhaseComplete, t, To, NoOp

LEMMA ReviewApproveEvidenced ==
  ASSUME NEW s \in StepStates, Evidenced(s), s.phase \in {"build", "prove"}
  PROVE  Evidenced(StepReviewApprove(s).next)
<1> DEFINE p == PassHarnessVerified(s.units)
           t == [s EXCEPT !.stallCount = 0, !.lastGapFingerprint = NoFingerprint,
                          !.findings = ResolveAll, !.reworkRounds = 0, !.units = p]
<1>1. p \in Plans /\ DOMAIN p = DOMAIN s.units
  BY PassHarnessVerifiedType DEF StepStates
<1>2. \A x \in DOMAIN p : p[x].passes => p[x].harnessPassed
  <2>1. s.units \in [DOMAIN s.units -> UnitStates]
    BY PlanIsFunction DEF StepStates
  <2>2. ASSUME NEW x \in DOMAIN s.units
        PROVE  p[x].passes => p[x].harnessPassed
    <3>1. s.units[x].passes => s.units[x].harnessPassed
      BY DEF Evidenced
    <3>2. s.units[x] \in UnitStates
      BY <2>1
    <3> QED BY <3>1, <3>2 DEF PassHarnessVerified, UnitStates
  <2> QED BY <1>1, <2>2
<1>3. /\ t.units = p /\ t.flow = s.flow
      /\ t.phase = s.phase /\ t.pauseReason = s.pauseReason
      /\ t \in StepStates
  <2>1. ResolveAll \in Ledgers
    BY DEF ResolveAll, Ledgers, Closed, FindingStates
  <2> HIDE DEF p
  <2> QED BY <1>1, <2>1 DEF StepStates
<1> HIDE DEF p, t
<1>4. ASSUME NEW n, n.units = p, n.flow = s.flow, n.pauseReason = s.pauseReason,
             n.phase = "build" \/ (n.phase = "result" /\ AllPassed(p))
      PROVE  Evidenced(n)
  BY <1>1, <1>2, <1>4 DEF Evidenced, NeverVisitsPlan
<1>5. AllPassed(p) => Evidenced([t EXCEPT !.phase = "result", !.status = "idle"])
  <2> DEFINE n == [t EXCEPT !.phase = "result", !.status = "idle"]
  <2>1. /\ n.units = p /\ n.flow = s.flow /\ n.pauseReason = s.pauseReason
        /\ n.phase = "result"
    BY <1>3 DEF StepStates
  <2> HIDE DEF n
  <2>2. AllPassed(p) => Evidenced(n)
    BY <1>4, <2>1
  <2> QED BY <2>2 DEF n
<1>6. Evidenced(Enter(t, "build"))
  <2> DEFINE n == Enter(t, "build")
  <2>1. /\ n.units = p /\ n.flow = s.flow /\ n.pauseReason = s.pauseReason
        /\ n.phase = "build"
    BY <1>3 DEF Enter, StepStates
  <2> HIDE DEF n
  <2>2. Evidenced(n)
    BY <1>1, <1>2, <2>1 DEF Evidenced, NeverVisitsPlan
  <2> QED BY <2>2 DEF n
<1> QED BY <1>3, <1>5, <1>6 DEF StepReviewApprove, t, p, To

LEMMA ReviewReworkEvidenced ==
  ASSUME NEW s \in StepStates, NEW in \in Inputs, Evidenced(s), s.phase = "prove"
  PROVE  Evidenced(StepReviewRework(s, in).next)
<1> DEFINE t == [s EXCEPT
             !.reworkRounds = @ + 1,
             !.findings = MergeFindings(s.findings, in.reported, in.resolved),
             !.phase = "build", !.status = "idle"]
<1>1. t \in StepStates
  BY ReworkedType
<1>2. /\ t.units = s.units /\ t.flow = s.flow
      /\ t.pauseReason = s.pauseReason /\ t.phase = "build"
  BY DEF StepStates
<1> HIDE DEF t
<1>3. Evidenced(t)
  BY <1>2 DEF Evidenced, NeverVisitsPlan
<1>4. Evidenced([t EXCEPT !.iteration = @ + 1])
  <2>1. Same(t, [t EXCEPT !.iteration = @ + 1])
    BY <1>1 DEF Same, StepStates
  <2> QED BY <1>3, <2>1, HoldsEvidenced DEF Same, Holds
<1>5. Evidenced(Pause(t, "no_progress").next)
      /\ Evidenced(Pause(t, "review_exhausted").next)
  <2>1. {"no_progress", "review_exhausted"} \subseteq PauseReasons \ {"approval"}
    BY DEF PauseReasons
  <2> QED BY <1>1, <1>3, <2>1, PauseHolds, HoldsEvidenced
<1> QED BY <1>4, <1>5 DEF StepReviewRework, t, To

LEMMA VerbEvidenced ==
  ASSUME NEW s \in StepStates, NEW in \in Inputs, Evidenced(s)
  PROVE  /\ Evidenced(StepResume(s).next)
         /\ Evidenced(StepPlanApprove(s).next)
         /\ Evidenced(StepPlanReplan(s).next)
         /\ Evidenced(StepPlanRediscover(s).next)
         /\ Evidenced(StepRouteChange(s, in).next)
<1>1. /\ Holds(s, StepResume(s).next)
      /\ Holds(s, StepRouteChange(s, in).next)
  BY DEF StepResume, StepRouteChange, To, NoOp, NoReason, Holds, StepStates
<1>2. /\ Holds(s, StepPlanReplan(s).next)
      /\ Holds(s, StepPlanRediscover(s).next)
  BY DEF StepPlanReplan, StepPlanRediscover, Enter, To, NoOp, NoReason, Holds,
         StepStates
<1>3. Evidenced(StepPlanApprove(s).next)
  <2> DEFINE n == [Enter(s, "build") EXCEPT !.pauseReason = NoReason]
  <2>1. /\ n.units = s.units /\ n.flow = s.flow
        /\ n.pauseReason = NoReason /\ n.phase = "build"
    BY DEF Enter, StepStates
  <2>2. AwaitingApproval(s) => DOMAIN s.units # {}
    BY DEF AwaitingApproval, Evidenced
  <2> HIDE DEF n
  <2>3. AwaitingApproval(s) => Evidenced(n)
    BY <2>1, <2>2 DEF Evidenced, NeverVisitsPlan, NoReason
  <2> QED BY <2>3 DEF StepPlanApprove, n, To, NoOp
<1> QED BY <1>1, <1>2, <1>3, HoldsEvidenced

LEMMA ParkEvidenced ==
  ASSUME NEW s \in StepStates, Evidenced(s)
  PROVE  /\ Evidenced(WithStatus(s, "waiting_for_input"))
         /\ Evidenced(StepWorkerBlocked(s).next)
         /\ s.phase = "result" => Evidenced(StepResultComplete(s).next)
<1>1. /\ Holds(s, WithStatus(s, "waiting_for_input"))
      /\ Holds(s, StepWorkerBlocked(s).next)
  BY DEF WithStatus, StepWorkerBlocked, To, Holds, StepStates
<1>2. s.phase = "result" => Evidenced(StepResultComplete(s).next)
  <2> DEFINE n == StepResultComplete(s).next
  <2>1. /\ n.units = s.units /\ n.flow = s.flow
        /\ n.pauseReason = s.pauseReason /\ n.phase = "done"
    BY DEF StepResultComplete, To, StepStates
  <2> HIDE DEF n
  <2>2. s.phase = "result" => Evidenced(n)
    BY <2>1 DEF Evidenced, NeverVisitsPlan
  <2> QED BY <2>2 DEF n
<1> QED BY <1>1, <1>2, HoldsEvidenced

LEMMA StepSwitchEvidenced ==
  ASSUME NEW s \in StepStates, NEW in \in Inputs, Evidenced(s), Reportable(s, in)
  PROVE  Evidenced(StepSwitch(s, in).next)
<1>1. {"infra", "budget"} \subseteq PauseReasons \ {"approval"}
  BY DEF PauseReasons
<1>2. /\ Evidenced(Pause(s, "infra").next)
      /\ Evidenced(Pause(s, "budget").next)
      /\ Evidenced(Fail(s).next)
      /\ Evidenced(ReplanTransition(s).next)
      /\ Evidenced(NoOp(s).next)
      /\ Evidenced(StepWorkerRetry(s, in).next)
      /\ Evidenced(StepWorkerFailed(s, in).next)
  BY <1>1, PauseHolds, FailHolds, ReplanHolds, SameSelf, WorkerRetryHolds,
     WorkerFailedHolds, HoldsEvidenced
<1>3. Evidenced(To(WithStatus(s, "waiting_for_input"), "none").next)
  BY ParkEvidenced DEF To
<1>4. in.kind = "phase_complete" => Evidenced(StepPhaseComplete(s, in).next)
  BY PhaseCompleteEvidenced
<1>5. /\ in.kind = "review_approve" => Evidenced(StepReviewApprove(s).next)
      /\ in.kind = "review_rework" => Evidenced(StepReviewRework(s, in).next)
      /\ in.kind = "result_complete" => Evidenced(StepResultComplete(s).next)
  BY ReviewApproveEvidenced, ReviewReworkEvidenced, ParkEvidenced DEF Reportable
<1> QED BY <1>2, <1>3, <1>4, <1>5, VerbEvidenced, ParkEvidenced DEF StepSwitch

\* D-094: an input that the phase can report keeps every approval backed by
\* the harness, and lets only fully approved plans into the result.
THEOREM StepEvidenced ==
  ASSUME NEW s \in StepStates, NEW in \in Inputs, NEW spend,
         Evidenced(s), Reportable(s, in)
  PROVE  Evidenced(Step(s, in, spend).next)
<1> DEFINE p == ApplyVerification(s.units, in.verified)
           t == [s EXCEPT !.units = p]
<1>1. p \in Plans /\ DOMAIN p = DOMAIN s.units
  BY ApplyVerificationType DEF StepStates, Inputs
<1>2. \A x \in DOMAIN p : p[x].passes => p[x].harnessPassed
  <2>1. s.units \in [DOMAIN s.units -> UnitStates]
    BY PlanIsFunction DEF StepStates
  <2>2. ASSUME NEW x \in DOMAIN s.units
        PROVE  p[x].passes => p[x].harnessPassed
    <3>1. s.units[x].passes => s.units[x].harnessPassed
      BY DEF Evidenced
    <3>2. s.units[x] \in UnitStates
      BY <2>1
    <3> QED BY <3>1, <3>2 DEF ApplyVerification, UnitStates
  <2> QED BY <1>1, <2>2
<1>3. DOMAIN in.verified = {} => \A x \in DOMAIN s.units : p[x] = s.units[x]
  BY DEF ApplyVerification
<1> HIDE DEF p
<1>4. /\ t.units = p /\ t.flow = s.flow
      /\ t.phase = s.phase /\ t.pauseReason = s.pauseReason
      /\ t \in StepStates
  BY <1>1 DEF StepStates
<1> HIDE DEF t
<1>5. Reportable(t, in)
  BY <1>1, <1>4 DEF Reportable
<1>6. Evidenced(t)
  <2>1. s.phase # "done"
    BY DEF Reportable, Terminal
  <2>2. s.phase = "result" => (AllPassed(p) <=> AllPassed(s.units))
    BY <1>1, <1>3 DEF AllPassed, Reportable
  <2> QED BY <1>1, <1>2, <1>4, <2>1, <2>2 DEF Evidenced, NeverVisitsPlan
<1>7. Evidenced(StepInput(t, in, spend).next)
  <2>1. {"mixed_currency", "budget"} \subseteq PauseReasons \ {"approval"}
    BY DEF PauseReasons
  <2>2. /\ Evidenced(Pause(t, "mixed_currency").next)
        /\ Evidenced(Pause(t, "budget").next)
    BY <1>4, <1>6, <2>1, PauseHolds, HoldsEvidenced
  <2> QED BY <1>4, <1>5, <1>6, <2>2, StepSwitchEvidenced DEF StepInput
<1>8. Evidenced(NoOp(s).next) /\ Evidenced(Fail(s).next)
  BY FailHolds, SameSelf, HoldsEvidenced
<1> QED BY <1>7, <1>8 DEF Step, t, p

-----------------------------------------------------------------------------
(* What a transition keeps of a mission's policy. *)

\* No transition changes the flow or who approves the plan.
SamePolicy(s, n) == n.flow = s.flow /\ n.autoApprovePlan = s.autoApprovePlan

LEMMA SamePolicyTrans ==
  ASSUME NEW s, NEW t, NEW n, SamePolicy(s, t), SamePolicy(t, n)
  PROVE  SamePolicy(s, n)
BY DEF SamePolicy

LEMMA MovesKeepPolicy ==
  ASSUME NEW s \in StepStates, NEW p, NEW r, NEW st
  PROVE  /\ SamePolicy(s, s)
         /\ SamePolicy(s, Enter(s, p))
         /\ SamePolicy(s, Pause(s, r).next)
         /\ SamePolicy(s, Fail(s).next)
         /\ SamePolicy(s, WithStatus(s, st))
         /\ SamePolicy(s, StepResultComplete(s).next)
         /\ SamePolicy(s, StepResume(s).next)
         /\ SamePolicy(s, [s EXCEPT !.pauseReason = r])
         /\ SamePolicy(s, ReplanTransition(s).next)
BY DEF SamePolicy, Enter, Pause, WithPause, Fail, WithPhaseFailed, WithStatus,
       StepResultComplete, StepResume, NoOp, ReplanTransition, To, StepStates

LEMMA CountKeepsPolicy ==
  ASSUME NEW s \in StepStates, NEW in \in Inputs
  PROVE  /\ SamePolicy(s, CountHarnessRetry(s, in))
         /\ SamePolicy(s, CountIteration(s, in))
BY DEF SamePolicy, CountHarnessRetry, CountIteration, StepStates

LEMMA RetryKeepsPolicy ==
  ASSUME NEW s \in StepStates, NEW in \in Inputs, NEW o, SamePolicy(s, o.next)
  PROVE  SamePolicy(s, Retry(s, in, o).next)
BY MovesKeepPolicy DEF Retry

LEMMA WorkerFailedKeepsPolicy ==
  ASSUME NEW s \in StepStates, NEW in \in Inputs
  PROVE  SamePolicy(s, StepWorkerFailed(s, in).next)
<1> DEFINE failed == [s EXCEPT !.consecutiveFailures = @ + 1]
           t == CountIteration(CountHarnessRetry(failed, in), in)
           o == IF t.consecutiveFailures >= BackoffFailures
                THEN Pause(t, "backoff") ELSE To(t, "retry")
<1>1. failed \in StepStates /\ SamePolicy(s, failed)
  BY DEF StepStates, SamePolicy
<1>2. t \in StepStates /\ SamePolicy(failed, t)
  BY <1>1, CountType, CountKeepsPolicy, SamePolicyTrans
<1>3. SamePolicy(t, o.next)
  BY <1>2, MovesKeepPolicy DEF To
<1>4. SamePolicy(t, Retry(t, in, o).next)
  BY <1>2, <1>3, RetryKeepsPolicy
<1>5. SamePolicy(s, Retry(t, in, o).next)
  BY <1>1, <1>2, <1>4, SamePolicyTrans
<1> QED BY <1>5 DEF StepWorkerFailed

LEMMA WorkerRetryKeepsPolicy ==
  ASSUME NEW s \in StepStates, NEW in \in Inputs
  PROVE  SamePolicy(s, StepWorkerRetry(s, in).next)
<1> DEFINE stalls == in.fingerprint # NoFingerprint
           tracked == [s EXCEPT
             !.consecutiveFailures = 0,
             !.stallCount = IF ~stalls THEN @
                            ELSE IF in.fingerprint = s.lastGapFingerprint
                            THEN @ + 1 ELSE 1,
             !.lastGapFingerprint = IF stalls THEN in.fingerprint ELSE @]
           t == CountHarnessRetry(tracked, in)
           spent == CountIteration(t, in)
<1>1. tracked \in StepStates
  BY TrackedType
<1>2. SamePolicy(s, tracked)
  BY DEF StepStates, SamePolicy
<1>3. t \in StepStates /\ spent \in StepStates
  BY <1>1, CountType
<1>4. SamePolicy(tracked, t) /\ SamePolicy(t, spent)
  BY <1>1, <1>3, CountKeepsPolicy
<1>5. SamePolicy(spent, Retry(spent, in, To(spent, "retry")).next)
  BY <1>3, MovesKeepPolicy, RetryKeepsPolicy DEF To
<1>6. /\ SamePolicy(t, ReplanTransition(t).next)
      /\ SamePolicy(t, Pause(t, "no_progress").next)
  BY <1>3, MovesKeepPolicy
<1> HIDE DEF tracked, t, spent
<1>7. /\ SamePolicy(s, Retry(spent, in, To(spent, "retry")).next)
      /\ SamePolicy(s, ReplanTransition(t).next)
      /\ SamePolicy(s, Pause(t, "no_progress").next)
  BY <1>2, <1>4, <1>5, <1>6, SamePolicyTrans
<1> QED BY <1>7 DEF StepWorkerRetry, tracked, t, spent

LEMMA PhaseCompleteKeepsPolicy ==
  ASSUME NEW s \in StepStates, NEW in \in Inputs
  PROVE  SamePolicy(s, StepPhaseComplete(s, in).next)
<1> DEFINE t == IF s.phase = "build" /\ in.touched.known
                THEN [s EXCEPT !.findings = MarkUntouched(s.findings, in.touched)]
                ELSE s
<1>1. t \in StepStates
  <2>1. MarkUntouched(s.findings, in.touched) \in Ledgers
    BY MarkUntouchedType DEF StepStates, Inputs
  <2> QED BY <2>1 DEF StepStates
<1>2. SamePolicy(s, t)
  BY DEF SamePolicy, StepStates
<1>3. \A p : SamePolicy(t, Enter(t, p)) /\ SamePolicy(t, Pause(t, "approval").next)
  BY <1>1, MovesKeepPolicy
<1> HIDE DEF t
<1>4. \A p : SamePolicy(s, Enter(t, p)) /\ SamePolicy(s, Pause(t, "approval").next)
  BY <1>2, <1>3, SamePolicyTrans
<1>5. SamePolicy(s, s)
  BY DEF SamePolicy
<1> QED BY <1>4, <1>5 DEF StepPhaseComplete, t, To, NoOp, Pause

LEMMA VerbsKeepPolicy ==
  ASSUME NEW s \in StepStates, NEW in
  PROVE  /\ SamePolicy(s, StepPlanApprove(s).next)
         /\ SamePolicy(s, StepPlanReplan(s).next)
         /\ SamePolicy(s, StepPlanRediscover(s).next)
         /\ SamePolicy(s, StepRouteChange(s, in).next)
<1>1. ASSUME NEW p \in Phases
      PROVE  SamePolicy(s, [Enter(s, p) EXCEPT !.pauseReason = NoReason])
  <2>1. Enter(s, p) \in StepStates
    BY EnterType
  <2> QED BY <2>1, MovesKeepPolicy, SamePolicyTrans
<1>2. SamePolicy(s, StepRouteChange(s, in).next)
  BY DEF StepRouteChange, To, NoOp, StepStates, SamePolicy
<1> QED BY <1>1, <1>2, MovesKeepPolicy
        DEF StepPlanApprove, StepPlanReplan, StepPlanRediscover, To, NoOp, Phases

LEMMA ReviewKeepsPolicy ==
  ASSUME NEW s \in StepStates, NEW in \in Inputs
  PROVE  /\ SamePolicy(s, StepReviewApprove(s).next)
         /\ SamePolicy(s, StepReviewRework(s, in).next)
<1>1. SamePolicy(s, StepReviewApprove(s).next)
  BY DEF StepReviewApprove, Enter, To, StepStates, SamePolicy
<1> DEFINE t == [s EXCEPT
             !.reworkRounds = @ + 1,
             !.findings = MergeFindings(s.findings, in.reported, in.resolved),
             !.phase = "build", !.status = "idle"]
<1>2. t \in StepStates /\ SamePolicy(s, t)
  <2>1. t \in StepStates
    BY ReworkedType
  <2>2. SamePolicy(s, t)
    BY DEF StepStates, SamePolicy
  <2> QED BY <2>1, <2>2
<1> HIDE DEF t
<1>3. SamePolicy(t, [t EXCEPT !.iteration = @ + 1])
  BY <1>2 DEF SamePolicy, StepStates
<1>4. /\ SamePolicy(s, Pause(t, "no_progress").next)
      /\ SamePolicy(s, Pause(t, "review_exhausted").next)
      /\ SamePolicy(s, [t EXCEPT !.iteration = @ + 1])
  BY <1>2, <1>3, MovesKeepPolicy, SamePolicyTrans
<1> QED BY <1>1, <1>4 DEF StepReviewRework, t, To

LEMMA SwitchKeepsPolicy ==
  ASSUME NEW s \in StepStates, NEW in \in Inputs
  PROVE  SamePolicy(s, StepSwitch(s, in).next)
<1>1. /\ SamePolicy(s, NoOp(s).next)
      /\ SamePolicy(s, StepWorkerBlocked(s).next)
      /\ SamePolicy(s, To(WithStatus(s, "waiting_for_input"), "none").next)
  BY MovesKeepPolicy DEF NoOp, StepWorkerBlocked, To
<1> QED BY <1>1, MovesKeepPolicy, PhaseCompleteKeepsPolicy, WorkerRetryKeepsPolicy,
           WorkerFailedKeepsPolicy, ReviewKeepsPolicy, VerbsKeepPolicy
        DEF StepSwitch

\* Verifying the plan's units is the first thing Step does.
LEMMA VerifyKeeps ==
  ASSUME NEW s \in StepStates, NEW in \in Inputs
  PROVE  LET t == [s EXCEPT !.units = ApplyVerification(s.units, in.verified)]
         IN  t \in StepStates /\ SamePolicy(s, t) /\ t.phase = s.phase
<1>1. ApplyVerification(s.units, in.verified) \in Plans
  BY ApplyVerificationType DEF StepStates, Inputs
<1> QED BY <1>1 DEF StepStates, SamePolicy

LEMMA StepKeepsPolicy ==
  ASSUME NEW s \in StepStates, NEW in \in Inputs, NEW spend
  PROVE  SamePolicy(s, Step(s, in, spend).next)
<1> DEFINE t == [s EXCEPT !.units = ApplyVerification(s.units, in.verified)]
<1>1. t \in StepStates /\ SamePolicy(s, t)
  BY VerifyKeeps
<1> HIDE DEF t
<1>2. SamePolicy(t, StepInput(t, in, spend).next)
  BY <1>1, SwitchKeepsPolicy, MovesKeepPolicy DEF StepInput
<1>3. SamePolicy(s, StepInput(t, in, spend).next)
  BY <1>1, <1>2, SamePolicyTrans
<1> QED BY <1>3, MovesKeepPolicy DEF Step, t, NoOp, To

-----------------------------------------------------------------------------
(* What a turn reports is an input of the state machine. *)

LEMMA NothingType ==
  /\ Nothing \in Verifications
  /\ Nothing \in Reports
<1>1. Nothing \in [{} -> BOOLEAN]
  BY DEF Nothing
<1> QED BY <1>1 DEF Verifications, Reports

LEMMA PlainType ==
  ASSUME NEW k \in Kinds, NEW r \in Routes
  PROVE  Plain(k, r) \in Inputs
<1>1. Unknown \in Touches
  BY DEF Unknown, Touches
<1> QED BY <1>1, NothingType DEF Plain, Inputs

LEMMA InType ==
  ASSUME NEW k \in Kinds
  PROVE  In(k) \in Inputs
BY PlainType, PhasesAssumption DEF In

\* A batch pass with a failure has a first failing unit.
LEMMA FailureFingerprintType ==
  ASSUME NEW units, NEW v \in Verifications, FailedUnits(v) # {}
  PROVE  FailureFingerprint(units, v) \in Fingerprints
<1>1. FailedUnits(v) \subseteq Units
  BY DEF FailedUnits, Verifications
<1>2. FailedUnits(v) \subseteq Nat
  BY <1>1, DataAssumption DEF Units
<1>3. PICK x \in FailedUnits(v) :
        \A y \in FailedUnits(v) : ~(<<y, x>> \in OpToRel(<, Nat))
  BY <1>2, NatLessThanWellFounded, WFMin
<1>4. \A y \in FailedUnits(v) : x <= y
  <2>1. ASSUME NEW y \in Nat, NEW z \in Nat, y < z
        PROVE  <<y, z>> \in OpToRel(<, Nat)
    BY <2>1 DEF OpToRel
  <2>2. \A y \in FailedUnits(v) : ~(y < x)
    BY <1>2, <1>3, <2>1
  <2> QED BY <1>2, <2>2
<1>5. (CHOOSE y \in FailedUnits(v) : \A z \in FailedUnits(v) : y <= z) \in Units
  BY <1>1, <1>4
<1>6. ASSUME NEW u \in Units
      PROVE  <<"regression", u>> \in Fingerprints /\ <<"verify_failed", u>> \in Fingerprints
  BY DEF Fingerprints
<1> QED BY <1>5, <1>6 DEF FailureFingerprint

LEMMA ErrorsType == WorkerErrors \subseteq Inputs /\ InfraErrors \subseteq Inputs
<1>1. In("worker_failed") \in Inputs /\ In("review_infra_failure") \in Inputs
  BY InType DEF Kinds
<1>2. ASSUME NEW in \in Inputs
      PROVE  [in EXCEPT !.harnessCaused = TRUE] \in Inputs
  BY DEF Inputs
<1> QED BY <1>1, <1>2 DEF WorkerErrors, InfraErrors

LEMMA EvidenceType ==
  ASSUME NEW in \in Inputs, NEW v \in Verifications
  PROVE  [in EXCEPT !.verified = v] \in Inputs
BY DEF Inputs

LEMMA RouteVerifiedType ==
  ASSUME NEW s, NEW knd, NEW v \in Verifications
  PROVE  RouteVerified(s, knd, v) \in Inputs
<1>1. In("review_approve") \in Inputs /\ In("phase_complete") \in Inputs
  BY InType DEF Kinds
<1> QED BY <1>1, EvidenceType DEF RouteVerified

LEMMA ForcedRetriesType == ForcedRetries \subseteq Inputs
<1>1. In("worker_retry") \in Inputs
  BY InType DEF Kinds
<1>2. ASSUME NEW f \in {"", "no_sentinel", "done_without_changes", "forced_retry"}
      PROVE  <<f, 0>> \in Fingerprints \cup {NoFingerprint}
  BY DEF Fingerprints, NoFingerprint
<1>3. ASSUME NEW in \in Inputs, NEW f \in Fingerprints \cup {NoFingerprint}
      PROVE  [in EXCEPT !.harnessCaused = TRUE, !.fingerprint = f] \in Inputs
  BY DEF Inputs
<1> QED BY <1>1, <1>2, <1>3 DEF ForcedRetries

LEMMA SkippedPathsType == ASSUME NEW knd PROVE SkippedPaths(knd) \subseteq Inputs
<1>1. In("worker_retry") \in Inputs
  BY InType DEF Kinds
<1>2. <<"commit_skipped", 0>> \in Fingerprints
  BY DEF Fingerprints
<1>3. ASSUME NEW in \in Inputs, NEW f \in Fingerprints
      PROVE  [in EXCEPT !.fingerprint = f] \in Inputs
  BY DEF Inputs
<1> QED BY <1>1, <1>2, <1>3 DEF SkippedPaths

LEMMA DoneInputsType ==
  ASSUME NEW s, NEW knd PROVE DoneInputs(s, knd) \subseteq Inputs
<1>1. In("review_approve") \in Inputs /\ In("worker_retry") \in Inputs
  BY InType DEF Kinds
<1>2. Passes(s.units) \subseteq Verifications
  BY DEF Passes
<1>3. ASSUME NEW v \in Passes(s.units), FailedUnits(v) # {}
      PROVE  VerifyFailed(s, v) \in Inputs
  <2>1. FailureFingerprint(s.units, v) \in Fingerprints
    BY <1>2, <1>3, FailureFingerprintType
  <2>2. ASSUME NEW in \in Inputs, NEW f \in Fingerprints, NEW w \in Verifications
        PROVE  [in EXCEPT !.verified = w, !.fingerprint = f] \in Inputs
    BY DEF Inputs
  <2> QED BY <1>1, <1>2, <2>1, <2>2 DEF VerifyFailed
<1>4. ASSUME NEW v \in Passes(s.units), NEW t \in TouchedBy(knd)
      PROVE  VerifyPassed(s, knd, v, t) \in Inputs
  <2>1. t \in Touches
    <3>1. ASSUME NEW u \in [known : {TRUE}, keys : SUBSET HasFile]
          PROVE  u \in Touches
      BY DEF Touches
    <3>2. Unknown \in Touches
      BY DEF Touches, Unknown
    <3> QED BY <3>1, <3>2 DEF TouchedBy
  <2>2. ASSUME NEW in \in Inputs, NEW u \in Touches
        PROVE  [in EXCEPT !.touched = u] \in Inputs
    BY DEF Inputs
  <2> QED BY <1>2, <2>1, <2>2, RouteVerifiedType DEF VerifyPassed
<1> QED BY <1>1, <1>3, <1>4 DEF DoneInputs

LEMMA ExecuteInputsType ==
  ASSUME NEW s, NEW knd PROVE ExecuteInputs(s, knd) \subseteq Inputs
<1>1. {In("worker_retry"), In("worker_blocked"), In("plan_defect")} \subseteq Inputs
  BY InType DEF Kinds
<1>2. RouteVerified(s, knd, Nothing) \in Inputs
  BY RouteVerifiedType, NothingType
<1> QED BY <1>1, <1>2, ErrorsType, ForcedRetriesType, SkippedPathsType, DoneInputsType
        DEF ExecuteInputs

LEMMA ReviewInputsType ==
  ASSUME NEW s PROVE ReviewInputs(s) \subseteq Inputs
<1>1. /\ In("review_rework") \in Inputs
      /\ In("review_approve") \in Inputs
      /\ In("review_budget") \in Inputs
  BY InType DEF Kinds
<1>2. Rejections(s) \subseteq Inputs
  <2>1. ASSUME NEW in \in Inputs, NEW r \in Reports, NEW c \in SUBSET FindingKeys
        PROVE  [in EXCEPT !.reported = r, !.resolved = c] \in Inputs
    BY DEF Inputs
  <2>2. ASSUME NEW r \in Reports, NEW c \in SUBSET FindingKeys
        PROVE  Rejection(r, c) \in Inputs
    BY <1>1, <2>1 DEF Rejection
  <2>3. ASSUME NEW c \in SUBSET OpenFindings(s.findings)
        PROVE  c \in SUBSET FindingKeys
    BY DEF OpenFindings
  <2> QED BY <2>2, <2>3 DEF Rejections
<1>3. Approvals(s) \subseteq Inputs
  <2>1. ASSUME NEW v \in Verifications
        PROVE  [k \in {"harness"} \X FailedUnits(v) |-> TRUE] \in Reports
    <3>1. {"harness"} \X FailedUnits(v) \subseteq FindingKeys
      BY DEF FailedUnits, Verifications, FindingKeys
    <3>2. [k \in {"harness"} \X FailedUnits(v) |-> TRUE]
             \in [{"harness"} \X FailedUnits(v) -> BOOLEAN]
      OBVIOUS
    <3> QED BY <3>1, <3>2 DEF Reports
  <2>2. ASSUME NEW in \in Inputs, NEW r \in Reports, NEW v \in Verifications
        PROVE  [in EXCEPT !.verified = v, !.reported = r] \in Inputs
    BY DEF Inputs
  <2>3. ASSUME NEW v \in Verifications
        PROVE  Approval(v) \in Inputs
    <3>1. In(IF FailedUnits(v) = {} THEN "review_approve" ELSE "review_rework") \in Inputs
      BY <1>1
    <3> QED BY <2>1, <2>2, <3>1 DEF Approval
  <2> QED BY <2>3 DEF Approvals, Passes
<1> QED BY <1>1, <1>2, <1>3, ErrorsType DEF ReviewInputs

LEMMA OtherInputsType ==
  /\ DiscoverInputs \subseteq Inputs
  /\ PlanFailures \subseteq Inputs
  /\ ResultInputs \subseteq Inputs
  /\ Asks \in Inputs
<1>1. /\ In("phase_complete") \in Inputs
      /\ In("plan_infeasible") \in Inputs
      /\ In("result_complete") \in Inputs
      /\ In("result_failed") \in Inputs
      /\ In("ask_user") \in Inputs
  BY InType DEF Kinds
<1> QED BY <1>1, ErrorsType DEF DiscoverInputs, PlanFailures, ResultInputs, Asks

\* The plans a planning turn may store.
LEMMA NewPlansType ==
  ASSUME NEW s PROVE NewPlans(s) \subseteq Plans
<1>1. ASSUME NEW n \in Units PROVE (1 .. n) \in SUBSET Units
  BY DataAssumption DEF Units
<1> QED BY <1>1 DEF NewPlans, Plans

-----------------------------------------------------------------------------
(* The kinds of input that each phase reports. *)

LEMMA InKind ==
  ASSUME NEW k \in Kinds
  PROVE  In(k).kind = k /\ DOMAIN In(k).verified = {}
BY DEF In, Plain, Nothing

\* The other fields of an input do not touch its kind.
LEMMA FieldsKeepKind ==
  ASSUME NEW in \in Inputs, NEW v, NEW f, NEW b, NEW r, NEW c, NEW t
  PROVE  /\ [in EXCEPT !.harnessCaused = b].kind = in.kind
         /\ [in EXCEPT !.harnessCaused = b, !.fingerprint = f].kind = in.kind
         /\ [in EXCEPT !.fingerprint = f].kind = in.kind
         /\ [in EXCEPT !.verified = v].kind = in.kind
         /\ [in EXCEPT !.verified = v, !.fingerprint = f].kind = in.kind
         /\ [in EXCEPT !.touched = t].kind = in.kind
         /\ [in EXCEPT !.reported = r, !.resolved = c].kind = in.kind
         /\ [in EXCEPT !.verified = v, !.reported = r].kind = in.kind
BY DEF Inputs

LEMMA ErrorKinds ==
  ASSUME NEW in \in WorkerErrors
  PROVE  in.kind \in {"review_infra_failure", "worker_failed"}
<1>1. /\ In("worker_failed") \in Inputs
      /\ In("worker_failed").kind = "worker_failed"
      /\ In("review_infra_failure").kind = "review_infra_failure"
  BY InType, InKind DEF Kinds
<1>2. [In("worker_failed") EXCEPT !.harnessCaused = TRUE].kind = "worker_failed"
  BY <1>1, FieldsKeepKind
<1> QED BY <1>1, <1>2 DEF WorkerErrors, InfraErrors

LEMMA RouteVerifiedKind ==
  ASSUME NEW s, NEW knd, NEW v
  PROVE  RouteVerified(s, knd, v).kind \in {"review_approve", "phase_complete"}
<1>1. /\ In("review_approve") \in Inputs
      /\ In("phase_complete") \in Inputs
      /\ In("review_approve").kind = "review_approve"
      /\ In("phase_complete").kind = "phase_complete"
  BY InType, InKind DEF Kinds
<1> QED BY <1>1, FieldsKeepKind DEF RouteVerified

BuildKinds == {"review_infra_failure", "worker_failed", "worker_retry",
               "worker_blocked", "plan_defect", "review_approve", "phase_complete"}

LEMMA ExecuteKinds ==
  ASSUME NEW s, NEW knd, NEW in \in ExecuteInputs(s, knd)
  PROVE  in.kind \in BuildKinds
<1>1. \A k \in BuildKinds : In(k) \in Inputs /\ In(k).kind = k
  BY InType, InKind DEF Kinds, BuildKinds
<1>2. ASSUME NEW i \in ForcedRetries \cup SkippedPaths(knd)
      PROVE  i.kind = "worker_retry"
  <2>1. In("worker_retry") \in Inputs /\ In("worker_retry").kind = "worker_retry"
    BY <1>1 DEF BuildKinds
  <2>2. ASSUME NEW f
        PROVE  /\ [In("worker_retry") EXCEPT !.harnessCaused = TRUE,
                                             !.fingerprint = f].kind = "worker_retry"
               /\ [In("worker_retry") EXCEPT !.fingerprint = f].kind = "worker_retry"
    BY <2>1, FieldsKeepKind
  <2> QED BY <2>2 DEF ForcedRetries, SkippedPaths
<1>3. ASSUME NEW i \in DoneInputs(s, knd)
      PROVE  i.kind \in {"review_approve", "worker_retry", "phase_complete"}
  <2>1. In("review_approve").kind = "review_approve"
    BY <1>1 DEF BuildKinds
  <2>2. ASSUME NEW v PROVE VerifyFailed(s, v).kind = "worker_retry"
    BY <1>1, FieldsKeepKind DEF VerifyFailed, BuildKinds
  <2>3. ASSUME NEW v \in Passes(s.units), NEW t
        PROVE  VerifyPassed(s, knd, v, t).kind \in {"review_approve", "phase_complete"}
    <3>1. RouteVerified(s, knd, v) \in Inputs
      BY RouteVerifiedType DEF Passes
    <3> QED BY <3>1, RouteVerifiedKind, FieldsKeepKind DEF VerifyPassed
  <2> QED BY <2>1, <2>2, <2>3 DEF DoneInputs
<1>4. RouteVerified(s, knd, Nothing).kind \in BuildKinds
  BY RouteVerifiedKind DEF BuildKinds
<1>5. ASSUME NEW i \in WorkerErrors PROVE i.kind \in BuildKinds
  BY ErrorKinds DEF BuildKinds
<1>6. \A k \in {"worker_retry", "worker_blocked", "plan_defect"} : In(k).kind \in BuildKinds
  BY <1>1 DEF BuildKinds
<1>7. CASE SkipsBuild(s)
  BY <1>4, <1>7 DEF ExecuteInputs
<1>8. CASE ~SkipsBuild(s)
  <2>1. \/ in \in WorkerErrors
        \/ in \in ForcedRetries \cup SkippedPaths(knd)
        \/ \E k \in {"worker_retry", "worker_blocked", "plan_defect"} : in = In(k)
        \/ in \in DoneInputs(s, knd)
    BY <1>8 DEF ExecuteInputs
  <2> QED BY <1>2, <1>3, <1>5, <1>6, <2>1 DEF BuildKinds
<1> QED BY <1>7, <1>8

ProveKinds == {"review_infra_failure", "review_budget", "review_approve", "review_rework"}

LEMMA ReviewKinds ==
  ASSUME NEW s, NEW in \in ReviewInputs(s)
  PROVE  in.kind \in ProveKinds
<1>1. \A k \in ProveKinds : In(k) \in Inputs /\ In(k).kind = k
  BY InType, InKind DEF Kinds, ProveKinds
<1>2. ASSUME NEW r, NEW c PROVE Rejection(r, c).kind \in ProveKinds
  BY <1>1, FieldsKeepKind DEF Rejection, ProveKinds
<1>3. ASSUME NEW v PROVE Approval(v).kind \in ProveKinds
  <2> DEFINE k == IF FailedUnits(v) = {} THEN "review_approve" ELSE "review_rework"
             r == [x \in {"harness"} \X FailedUnits(v) |-> TRUE]
  <2>1. k \in ProveKinds
    BY DEF ProveKinds
  <2>2. Approval(v) = [In(k) EXCEPT !.verified = v, !.reported = r]
    BY DEF Approval
  <2> HIDE DEF k, r
  <2>3. Approval(v).kind = In(k).kind
    BY <1>1, <2>1, <2>2, FieldsKeepKind
  <2> QED BY <1>1, <2>1, <2>3
<1>4. In("review_infra_failure").kind \in ProveKinds /\ In("review_budget").kind \in ProveKinds
  BY <1>1 DEF ProveKinds
<1> QED BY <1>2, <1>3, <1>4
        DEF ReviewInputs, InfraErrors, Approvals, Rejections
=============================================================================
