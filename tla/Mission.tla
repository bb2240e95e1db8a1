------------------------------- MODULE Mission -------------------------------
(***************************************************************************)
(* The life of one mission row: the turns the driver runs, the verbs of    *)
(* the operator, and the sweeps, each taken as one atomic step.            *)
(* (MissionDriver takes those operations apart and interleaves them.)      *)
(*                                                                         *)
(* Source: internal/brain/missions/{driver,store,sweep}.go.                *)
(***************************************************************************)
EXTENDS MissionPhases

CONSTANTS
  Kinds0, Flows0,     \* the kinds and flows a mission may be created with
  Approvals0,         \* the values of auto_approve_plan it may be created with
  Spends0,            \* what the budget brake may see
  AskBudget,          \* ask_user calls a mission may make
  BackoffMax,         \* backoff pauses after which the sweep stops resuming
  InfraMax,           \* infra pauses after which the sweep stops resuming
  MaxHumanActs        \* bound: resumes, plan decisions and answers

ASSUME MissionAssumption ==
  /\ Kinds0 \subseteq MissionKinds
  /\ Flows0 \subseteq Flows
  /\ Approvals0 \subseteq BOOLEAN
  /\ Spends0 \subseteq Spends
  /\ AskBudget \in Nat
  /\ BackoffMax \in Nat
  /\ InfraMax \in Nat
  /\ MaxHumanActs \in Nat

VARIABLES
  kind,               \* the mission's kind
  m,                  \* the mission row, as the state machine sees it
  pendingInput,       \* pending_input IS NOT NULL
  asksUsed,           \* asks_used
  pauses,             \* mission.paused events by reason (CountPausesByReason)
  unparked,           \* history: how often the row left each kind of brake
  humanActs           \* history: resumes, plan decisions and answers so far

vars == <<kind, m, pendingInput, asksUsed, pauses, unparked, humanActs>>

\* The pauses a sweep resumes by itself, and the brakes it must leave alone.
Ladders == {"backoff", "infra"}

Brakes == {"no_progress", "review_exhausted"}

LadderMax(r) == IF r = "backoff" THEN BackoffMax ELSE InfraMax

-----------------------------------------------------------------------------

\* Store.Create: born idle in the flow's first phase with everything at zero.
Created(flow, auto) ==
  [phase |-> InitialPhase(flow), status |-> "idle", pauseReason |-> NoReason,
   iteration |-> 0, consecutiveFailures |-> 0,
   lastGapFingerprint |-> NoFingerprint, stallCount |-> 0, harnessRetries |-> 0,
   units |-> Nothing, replanUsed |-> FALSE, flow |-> flow,
   autoApprovePlan |-> auto, findings |-> ResolveAll, reworkRounds |-> 0,
   reviewRoute |-> AnyRoute]

Init ==
  /\ kind \in Kinds0
  /\ \E flow \in Flows0, auto \in Approvals0 :
       /\ LegalFlow(kind, flow)
       /\ m = Created(flow, auto)
  /\ pendingInput = FALSE
  /\ asksUsed = 0
  /\ pauses = [r \in Ladders |-> 0]
  /\ unparked = [r \in Brakes |-> 0]
  /\ humanActs = 0

-----------------------------------------------------------------------------

\* Fault: a pause for an infrastructure failure is not counted.
ApplyTransitionUncounted(t) ==
  /\ m' = t.next
  /\ pauses' = IF t.event = "paused" /\ t.next.pauseReason = "backoff"
               THEN [pauses EXCEPT !["backoff"] = @ + 1] ELSE pauses

\* The row becomes t.next; a mission.paused event is counted under its reason.
ApplyTransition(t) ==
  /\ m' = t.next
  /\ pauses' = [r \in Ladders |->
       IF t.event = "paused" /\ t.next.pauseReason = r
       THEN pauses[r] + 1 ELSE pauses[r]]

\* History: which brake, if any, the step takes the row out of.
Unpark ==
  unparked' = [r \in Brakes |->
    IF m.status = "paused" /\ m.pauseReason = r /\
       ~(m'.status = "paused" /\ m'.pauseReason = r)
    THEN unparked[r] + 1 ELSE unparked[r]]

Feed(s, in) ==
  /\ \E spend \in Spends0 : ApplyTransition(Step(s, in, spend))
  /\ Unpark

-----------------------------------------------------------------------------
(* Turns: Advance, whose early return leaves parked and ended rows alone.  *)

Drivable(s) == ~Terminal(s.phase) /\ s.status \in {"idle", "working"}

Runs(phase) ==
  /\ Drivable(m) /\ m.phase = phase
  /\ UNCHANGED <<kind, pendingInput, asksUsed, humanActs>>

RunDiscover == Runs("discover") /\ \E in \in DiscoverInputs : Feed(m, in)

RunPlan ==
  /\ Runs("plan")
  /\ \/ \E in \in PlanFailures : Feed(m, in)
     \/ \E p \in NewPlans(m) : Feed([m EXCEPT !.units = p], In("phase_complete"))

RunExecute == Runs("build") /\ \E in \in ExecuteInputs(m, kind) : Feed(m, in)

RunReview == Runs("prove") /\ \E in \in ReviewInputs(m) : Feed(m, in)

RunResult == Runs("result") /\ \E in \in ResultInputs : Feed(m, in)

\* A turn that calls ask_user parks the question, then reports ask_user.
RunAsks ==
  /\ Drivable(m)
  /\ m.phase \in {"discover", "plan", "build", "prove"}
  /\ ~(m.phase = "build" /\ SkipsBuild(m))
  /\ asksUsed < AskBudget
  /\ pendingInput' = TRUE
  /\ asksUsed' = asksUsed + 1
  /\ Feed(m, Asks)
  /\ UNCHANGED <<kind, humanActs>>

Turn == RunDiscover \/ RunPlan \/ RunExecute \/ RunReview \/ RunResult \/ RunAsks

-----------------------------------------------------------------------------
(* Operator verbs: Driver.Signal, DecidePlan, ChangeRouting, AnswerAskUser. *)

Acts == humanActs < MaxHumanActs /\ humanActs' = humanActs + 1

Resume ==
  /\ ~Terminal(m.phase)
  /\ Acts
  /\ Feed(m, In("resume"))
  /\ UNCHANGED <<kind, pendingInput, asksUsed>>

Cancel ==
  /\ ~Terminal(m.phase)
  /\ Feed(m, In("cancel"))
  /\ UNCHANGED <<kind, pendingInput, asksUsed, humanActs>>

DecidePlan ==
  /\ AwaitingApproval(m)
  /\ Acts
  /\ \E k \in {"plan_approve", "plan_replan", "plan_rediscover"} : Feed(m, In(k))
  /\ UNCHANGED <<kind, pendingInput, asksUsed>>

ChangeRouting ==
  /\ ~Terminal(m.phase)
  /\ m.status = "paused"
  /\ \E r \in Routes \ {m.reviewRoute} : Feed(m, Plain("route_change", r))
  /\ UNCHANGED <<kind, pendingInput, asksUsed, humanActs>>

\* Store.AnswerPendingInput writes the status whatever phase the row is in.
AnswerPendingInput ==
  /\ pendingInput
  /\ pendingInput' = FALSE
  /\ m' = [m EXCEPT !.status = "idle"]
  /\ Unpark
  /\ UNCHANGED <<kind, asksUsed, pauses>>

AnswerAskUser == AnswerPendingInput /\ Acts

-----------------------------------------------------------------------------
(* Sweeps: the work-slot claim, the auto-resume ladders, the ask timeout.  *)

ClaimWorkSlot ==
  /\ m.status = "idle"
  /\ m' = [m EXCEPT !.status = "working"]
  /\ UNCHANGED <<kind, pendingInput, asksUsed, pauses, unparked, humanActs>>

AutoResume ==
  /\ m.status = "paused"
  /\ m.pauseReason \in Ladders
  /\ pauses[m.pauseReason] \in 1 .. LadderMax(m.pauseReason) - 1
  /\ ~Terminal(m.phase)
  /\ Feed(m, In("resume"))
  /\ UNCHANGED <<kind, pendingInput, asksUsed, humanActs>>

SweepAskTimeouts == AnswerPendingInput /\ UNCHANGED humanActs

Next ==
  \/ Turn
  \/ Resume \/ Cancel \/ DecidePlan \/ ChangeRouting \/ AnswerAskUser
  \/ ClaimWorkSlot \/ AutoResume \/ SweepAskTimeouts

Spec == Init /\ [][Next]_vars

\* A drivable mission is driven (Drive's loop, backed by the work-slot and
\* stale-working sweeps), and a laddered pause is resumed by the sweep.
FairSpec == Spec /\ WF_vars(Turn) /\ WF_vars(AutoResume)

-----------------------------------------------------------------------------
(* Properties *)

\* Every variable has its type (the row's columns as scanMission reads them).
TypeOK ==
  /\ kind \in MissionKinds
  /\ m \in StepStates
  /\ pendingInput \in BOOLEAN
  /\ asksUsed \in Nat
  /\ pauses \in [Ladders -> Nat]
  /\ unparked \in [Brakes -> Nat]
  /\ humanActs \in Nat

\* D-094: approval lands only on harness evidence.  A planned mission in result
\* or done has a plan, and the harness has passed and a review (or the review
\* skip) approved every unit of it, whatever regressions, reworks and replans
\* came before.
ResultHasEvidence ==
  ~NeverVisitsPlan(m) /\ m.phase \in {"result", "done"} =>
    /\ DOMAIN m.units # {}
    /\ \A x \in DOMAIN m.units : m.units[x].harnessPassed /\ m.units[x].passes

\* max_iterations is a hard stop: no mission that can still run has used up its
\* iterations, on any path through retries, reworks, replans and resumes.
\* (stepReviewRework spends an iteration without looking at the ceiling.)
IterationCeiling == ~Terminal(m.phase) => m.iteration < MaxIterations

\* Issue #718: a harness that keeps failing stops at its cap.  Every further
\* harness retry is bought by taking the mission out of a no_progress pause,
\* but for the one that the automatic replan lets through.
HarnessRetriesBounded ==
  m.harnessRetries <= HarnessRetryCap + (IF m.replanUsed THEN 1 ELSE 0)
                      + unparked["no_progress"]

\* D-092: review rejections stop at max_iterations; a round beyond them is
\* bought by taking the mission out of one of the two rework brakes.
ReworkBounded ==
  m.reworkRounds <= MaxIterations + unparked["no_progress"]
                    + unparked["review_exhausted"]

\* The brakes of a mission hold together, whatever order its failures, rejections,
\* replans and resumes come in.
BrakesHold == IterationCeiling /\ HarnessRetriesBounded /\ ReworkBounded

\* A coding mission reaches its result only from prove, and no mission reaches
\* it from build while a review finding is open: nothing skips a review that
\* the policy or the ledger calls for.
ReviewNotSkipped ==
  [][m'.phase = "result" /\ m.phase # "result" =>
       \/ m.phase = "prove"
       \/ kind # "coding" /\ OpenFindings(m.findings) = {}]_vars

\* The sweeps leave an exhausted ladder and every other park to the operator.
Rested ==
  \/ Terminal(m.phase)
  \/ m.status = "waiting_for_input"
  \/ /\ m.status = "paused"
     /\ m.pauseReason \in Ladders =>
          pauses[m.pauseReason] >= LadderMax(m.pauseReason)

\* Left alone, a mission whose plan has at most one unit comes to rest: it
\* ends, or it parks where only the operator moves it on.  No cycle of retries,
\* reworks, replans and auto-resumes runs forever.  (With two units one does: each
\* completed unit resets the iterations.)
EventuallyRests == <>[]Rested

-----------------------------------------------------------------------------
(* What a mission has left to do by itself. *)

Left(max, used) == IF used < max THEN max - used ELSE 0

\* The sweep will resume the pause the mission is in.
Resumable ==
  /\ m.status = "paused"
  /\ m.pauseReason \in Ladders
  /\ pauses[m.pauseReason] < LadderMax(m.pauseReason)

\* Ended, parked for the operator, driven, or parked on a ladder.
Standing ==
  CASE Terminal(m.phase) -> 0
    [] ~Terminal(m.phase) /\ Resumable -> 3
    [] ~Terminal(m.phase) /\ Drivable(m) -> 2
    [] OTHER -> 1

QuestionsLeft == 2 * Left(AskBudget, asksUsed) + (IF pendingInput THEN 1 ELSE 0)

ResumesLeft == Left(BackoffMax, pauses["backoff"]) + Left(InfraMax, pauses["infra"])

\* What is left of the bounds on its parks: the questions it may ask and the
\* answer it waits for, the automatic resumes, and where it stands.
ParksLeft == <<QuestionsLeft, ResumesLeft, Standing>>

Round == [p \in Phases |->
  CASE p = "discover" -> 3 [] p = "plan" -> 2 [] p = "build" -> 1 [] OTHER -> 0]

\* What is left to its turns, the weightiest bound first: the replan, harness
\* retries, the result, rework rounds, the phases of a round, iterations, a slot.
TurnsLeft(s) ==
  <<IF s.replanUsed THEN 0 ELSE 1,
    Left(HarnessRetryCap, s.harnessRetries),
    IF s.phase = "result" THEN 0 ELSE 1,
    Left(MaxIterations, s.reworkRounds),
    Round[s.phase],
    Left(MaxIterations, s.iteration),
    IF s.status = "idle" THEN 1 ELSE 0>>

Less(d, e) == \E k \in DOMAIN e : d[k] < e[k] /\ \A j \in 1 .. k - 1 : d[j] = e[j]

\* The current unit is verified, and others of the plan are not yet.
UnitDone(s, n) ==
  /\ UnverifiedUnits(n.units) # {}
  /\ \E x \in CurrentUnits(s.units) : x \notin UnverifiedUnits(n.units)

\* A step that uses up some of what is left, or verifies the current one of
\* several units.  (Rerouting a parked mission may use up nothing.)
RanDown ==
  \/ Less(ParksLeft', ParksLeft)
  \/ /\ ParksLeft' = ParksLeft
     /\ \/ Less(TurnsLeft(m'), TurnsLeft(m))
        \/ UnitDone(m, m')
        \/ /\ TurnsLeft(m') = TurnsLeft(m)
           /\ m.status = "paused" /\ m'.status = "paused"

\* Nothing a mission does by itself goes round in a circle: every turn, claim,
\* automatic resume and ask timeout, and a cancel, uses up something that only
\* the operator's resumes, decisions and answers give back, unless it verifies
\* the current one of several units.
RunsDown == [][humanActs' = humanActs => RanDown]_vars

\* A mission is never stuck between the operator and the machine: it has come to
\* rest, a turn can drive it, or its pause is one that the sweep finds counted
\* and below its ladder's end.
NeverStuck ==
  \/ Rested
  \/ Drivable(m)
  \/ Resumable /\ pauses[m.pauseReason] > 0

=============================================================================
