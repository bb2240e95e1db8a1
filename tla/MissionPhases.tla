---------------------------- MODULE MissionPhases ----------------------------
(***************************************************************************)
(* What one turn of a mission can report: the inputs that the driver's     *)
(* runPhase (runDiscover, runPlan, runExecute, runReview, runResult) and   *)
(* its error switch in advance hand to Step, for every answer that the     *)
(* model, the sandbox and the reviewer may give                            *)
(* (internal/brain/missions/driver.go, verifier.go, policy.go).            *)
(***************************************************************************)
EXTENDS MissionStep

CONSTANTS
  Undeclared,       \* the units that declare no artifacts
  AnyRoute          \* fills the route field of inputs that carry none

ASSUME PhasesAssumption ==
  /\ Undeclared \subseteq Units
  /\ AnyRoute \in Routes

\* Coding missions run the full flow in a worktree and are always reviewed.
MissionKinds == {"coding", "general"}

LegalFlow(kind, flow) == kind = "coding" => flow = "full"

AlwaysReview(kind) == kind = "coding"

HasWorktree(kind) == kind = "coding"

In(k) == Plain(k, AnyRoute)

-----------------------------------------------------------------------------
(* Errors of a turn: advance's switch over what runPhase returned. *)

InfraErrors == {In("review_infra_failure")}

WorkerErrors ==
  InfraErrors \cup {[In("worker_failed") EXCEPT !.harnessCaused = TRUE]}

-----------------------------------------------------------------------------
(* The batch verify pass: every verified unit (for regressions), the       *)
(* current unit, and such later units as have been started.                *)

CurrentUnits(units) ==
  {x \in UnverifiedUnits(units) : \A y \in UnverifiedUnits(units) : x <= y}

Passes(units) ==
  {v \in Verifications :
     /\ DOMAIN v \subseteq DOMAIN units
     /\ \A x \in DOMAIN units :
          Verified(units[x]) \/ x \in CurrentUnits(units) \/ x \in Undeclared
            => x \in DOMAIN v}

FailedUnits(v) == {x \in DOMAIN v : ~v[x]}

\* The first failing unit names the stall: a regression or an unfinished unit.
FailureFingerprint(units, v) ==
  LET x == CHOOSE y \in FailedUnits(v) : \A z \in FailedUnits(v) : y <= z
  IN  <<IF Verified(units[x]) THEN "regression" ELSE "verify_failed", x>>

\* Fault: open findings do not call for a review.
SkipsReviewDespiteFindings(s, kind, v) ==
  /\ ~AlwaysReview(kind)
  /\ UnitsUnderReview(ApplyVerification(s.units, v)) \cap Undeclared = {}

\* The harness evidence settles every unit awaiting review.
SkipsReview(s, kind, v) ==
  /\ ~AlwaysReview(kind)
  /\ OpenFindings(s.findings) = {}
  /\ UnitsUnderReview(ApplyVerification(s.units, v)) \cap Undeclared = {}

\* The input after a batch pass without failures: straight to approval, or on
\* into prove.
RouteVerified(s, kind, v) ==
  [In(IF SkipsReview(s, kind, v) THEN "review_approve" ELSE "phase_complete")
     EXCEPT !.verified = v]

-----------------------------------------------------------------------------
(* The outcomes of each phase's turn.  An outcome also says which plan the *)
(* turn stored before it reported.                                         *)

Asks == In("ask_user")

DiscoverInputs == WorkerErrors \cup {In("phase_complete")}

PlanFailures == WorkerErrors \cup {In("plan_infeasible")}

Pending == [harnessPassed |-> FALSE, passes |-> FALSE]

\* restorePassedUnits: after the automatic replan a unit that matches an
\* earlier verified one keeps its harness evidence, and the reviewer's
\* approval only on an exact match.
Restored(s, u) ==
  /\ s.replanUsed
  /\ u.harnessPassed
  /\ \E y \in DOMAIN s.units : /\ Verified(s.units[y])
                               /\ u.passes => s.units[y].passes

NewPlans(s) ==
  {p \in UNION {[1 .. n -> UnitStates] : n \in Units} :
     \A x \in DOMAIN p : p[x] = Pending \/ Restored(s, p[x])}

\* A build turn with nothing left to build reports without running a worker.
SkipsBuild(s) ==
  /\ ~NeverVisitsPlan(s)
  /\ DOMAIN s.units # {}
  /\ UnverifiedUnits(s.units) = {}
  /\ OpenFindings(s.findings) = {}

ForcedRetries ==
  {[In("worker_retry") EXCEPT !.harnessCaused = TRUE, !.fingerprint = <<f, 0>>] :
     f \in {"", "no_sentinel", "done_without_changes", "forced_retry"}}

SkippedPaths(kind) ==
  IF HasWorktree(kind)
  THEN {[In("worker_retry") EXCEPT !.fingerprint = <<"commit_skipped", 0>>]}
  ELSE {}

TouchedBy(kind) ==
  IF HasWorktree(kind) THEN {Unknown} \cup [known : {TRUE}, keys : SUBSET HasFile]
  ELSE {Unknown}

VerifyFailed(s, v) ==
  [In("worker_retry") EXCEPT
     !.verified = v, !.fingerprint = FailureFingerprint(s.units, v)]

VerifyPassed(s, kind, v, t) == [RouteVerified(s, kind, v) EXCEPT !.touched = t]

DoneInputs(s, kind) ==
  IF NeverVisitsPlan(s) THEN {In("review_approve")}
  ELSE {VerifyFailed(s, v) : v \in {w \in Passes(s.units) : FailedUnits(w) # {}}}
       \cup
       {VerifyPassed(s, kind, v, t) :
          v \in {w \in Passes(s.units) : FailedUnits(w) = {}},
          t \in TouchedBy(kind)}

ExecuteInputs(s, kind) ==
  IF SkipsBuild(s) THEN {RouteVerified(s, kind, Nothing)}
  ELSE WorkerErrors \cup ForcedRetries \cup SkippedPaths(kind)
       \cup {In("worker_retry"), In("worker_blocked"), In("plan_defect")}
       \cup DoneInputs(s, kind)

Rejection(r, c) == [In("review_rework") EXCEPT !.reported = r, !.resolved = c]

\* A rejection raises something, or is about a finding that was already open:
\* a blocking one left unresolved, or a criterion that is still not met.
Rejections(s) ==
  {Rejection(r, c) :
     r \in {q \in Reports : DOMAIN q \subseteq {"review"} \X ReviewKeys},
     c \in SUBSET OpenFindings(s.findings)}

Rejects(s, in) == DOMAIN in.reported # {} \/ OpenFindings(s.findings) # {}

\* An approval lands only on a clean batch pass; a failing one comes back as
\* harness-authored blocking findings, one per failing unit.
Approval(v) ==
  [In(IF FailedUnits(v) = {} THEN "review_approve" ELSE "review_rework") EXCEPT
     !.verified = v,
     !.reported = [k \in {"harness"} \X FailedUnits(v) |-> TRUE]]

Approvals(s) == {Approval(v) : v \in Passes(s.units)}

ReviewInputs(s) ==
  InfraErrors \cup {In("review_budget")} \cup Approvals(s)
    \cup {in \in Rejections(s) : Rejects(s, in)}

ResultInputs == {In("result_complete"), In("result_failed")}
=============================================================================
