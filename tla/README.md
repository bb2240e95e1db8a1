# Timothy: TLA+ models, checks and proofs

Timothy is an assistant server: a `brain` process that chats, runs long
autonomous *missions* and chains them into *workflows*, a `gateway` that routes
model calls, and smaller services around them. This directory models the parts
of the brain whose correctness depends on order, failure and concurrency, checks
them with TLC and proves the central safety facts with TLAPS.

`PROJECT.json` maps every definition to the Go lines it stands for and lists the
runs, mutants, findings, hazards and theorems. Run a check with
`tlc -config <run>.cfg <module>`, a proof with `tlapm <module>.tla`.

## 1. Inventory

Paths are below `src/internal/brain/` unless they name another directory. The
last column says what is modelled: **m**odelled, **p**artly, or not (-).

| Component (source) | State | Operations | Talks to | What is hard | What makes it correct | |
|---|---|---|---|---|---|---|
| Mission state machine (`missions/statemachine.go`, `policy.go`) | phase, status, pause reason, seven counters, plan units, findings | `Step` over 19 kinds of input | called by the driver | brakes that interact: iterations, backoff, stall, harness retries, rework, budget | a result rests on evidence; every loop of the machine meets a ceiling | m |
| Phase runners and verifier (`driver.go` run*, `verifier.go`) | none of their own | what a turn can report in each phase | models, sandbox, git; hand an `Input` to `Step` | which evidence may skip a review; replans that keep unit state | only harness-checked units count | p |
| Mission driver, store, sweeps (`driver.go`, `store.go`, `sweep.go`) | missions table, `driving` claims, goroutines, parked questions | `Drive`, `Signal`, `DecidePlan`, `AnswerAskUser`, `ChangeRouting`, slot claim, recovery, auto-resume, time-outs | events inbox, API, provisioner | transitions computed from an unlocked read; restarts; cancel against a running turn | one loop per mission, one terminal event, nothing runnable forgotten | p |
| Delegated executor (`missions/delegated.go`) | executor events, CLI processes and their output, cooldowns in memory | launch, poll, idle kill, re-attach, verdict, retries | sandboxd, mission events | the log alone says whether a CLI is still at work; lost answers; restarts | one CLI per worktree, one verdict per run, turns end | p |
| Result phase and destinations (`driver.go` runResult, `promote_kb.go`, `destinations/`) | delivered marks, artifact references, documents | copy, deliver, promote, ingest, retry a round | git providers, recipients, knowledge base | retries after unknown outcomes; one write for all marks | done means delivered; repeats only where an outcome was in doubt | p |
| Events inbox and drainer (`events/`) | `events` table, advisory lock | insert, drain, mark, dead-letter, sweep | producers' transactions; consumers memory, notify, workflows, automations, channels | at-least-once delivery, savepoints, lost sessions, two instances | transactional effects exactly once, the others at least once | m |
| Workflow engine (`workflows/`) | runs and their event log | `StartRun`, boot recovery, `OnMissionTerminal` | inbox (consumer), mission driver (spawns) | spawn and record are separate transactions; redelivery; crashes | one successor per mission, caps hold, runs end | p |
| Automations (`automations/`) | automations, runs, breaker | dispatcher, starter, finalizer, breaker, edits | inbox (producer and transactional consumer), missions | three places that fill slots; lost starter transactions | slots agree with runs, one mission per run, runs settle | p |
| Permission broker, agent loop (`loop/`, parts of `missions/runner.go`, `sweep.go`) | prompts table, live waiters, gate, grants, a mission's pending prompt | ask, answer, redeem, adopt, expire, cancel | chat, missions, UI | answer against time-out, restart with a prompt open, parallel calls | one call per answer, no answer lost, chats never stuck | p |
| Chat and session log (`chat/`, `session/`) | append-only events, turn slot, checkpoints, summaries | begin, stream, checkpoint, persist, retry, compact, project | agent loop | two requests for one slot, kills, clients that leave, boundary of a compaction | turns do not interleave, none is unrecorded, nothing leaves the context unsummarized | p |
| Channels (`channels/`) | inbound dedup rows, cursors, bindings | receive, deduplicate, handle, answer | messengers, chat, missions | a mark before or after handling | one answer per message | - |
| Git events poller (`gitevents/`) | watches, cursors | poll, emit | git providers, inbox | cursor and dedup key | one event per change | - |
| Gateway (`internal/gateway/`) | routes, cooldowns, ledger | route a call with fallbacks, record cost | providers | cooldown and fallback under concurrent calls | a call tries each candidate at most once | - |
| Plan gate, workspaces, worktrees, push (`missions/`) | files, git state | static checks; git commands | git, sandbox | external tools | sequential | - |
| memoryd, sandboxd, secret store, mcp bridge, platform | rows, containers, keys | CRUD and external calls | databases, container APIs | mostly external | mostly sequential | - |
| connectors, kb, settings, auth, agents, skills, attachments, onboarding | single rows | CRUD | the API | little | sequential | - |
| web client, Python sidecars, deployment, migrations, scripts | - | - | - | - | - | - |

How they interact: the API, the boot recovery, the sweeps and the automations'
starter start `Drive`; a drive loop runs turns, and a turn runs a native agent
loop or a delegated CLI. Both ask for permission through the broker; the prompt
of a mission is shown in its row. `ApplyTransition` writes the mission's row and,
for an ending, its event in one transaction. The inbox hands that event to the
workflow engine (which spawns the next mission) and to the automations (which
finalize a run and start the one queued behind it). The result phase delivers
through destinations. A chat turn uses the same agent loop and broker, and keeps
its history in the session log.

## 2. Modules

```
MissionStep ── MissionPhases ─┬─ Mission ── MCMission
                              └─ MissionDriver ── MCMissionDriver
                     MissionPhasesProofs ─┬─ MissionProofs (about Mission)
                                          └─ MissionDriverProofs
Outbox  <== implemented by ==  EventsInbox ── MCEventsInbox
                               Automations ── MCAutomations
             InboxAutomationsProofs (about EventsInbox and about Automations)
Workflow ─┬─ MCWorkflow
          └─ WorkflowProofs
Delegated ── MCDelegated
Delivery  ── MCDelivery
             DelegatedDeliveryProofs (about Delivery and about Delegated)
Permissions ─┬─ MCPermissions
             └─ PermissionsProofs
ChatSession ─┬─ MCChatSession
             └─ ChatSessionProofs
```

**MissionStep** is `statemachine.go`: `Step(s, in, spend)` with one operator per
`step*` function, and the helpers of `policy.go` and `review.go` it uses. A
mission row is a record with the fields of `State`; a plan is a function from
some units to what is recorded of them (`passes`, `harnessPassed`); a finding is a key with a
status; a gap fingerprint is a tag and a unit. Event payloads, messages and
timestamps are left out.

**MissionPhases** is what the phase runners can hand to `Step`: for each phase
the set of inputs, with the answers of models, sandbox and verifier taken
nondeterministically and the code's own routing (`routeVerified`, the review
skip, the criteria rules, the error switch of `advance`) kept.

**Mission** is the life of one row with each operation atomic: a turn, the
operator's verbs, the sweeps. **MissionDriver** takes those operations apart
where the code holds no lock: `Signal`, `DecidePlan` and `AnswerAskUser` read,
compute and write in separate steps; a turn runs between its read and its
`ApplyTransition`; loops claim and release `driving`; provisioning precedes the
first turn; slots are claimed by status; restarts lose every goroutine.

**Delegated** is a worker turn run by a coding CLI: the choice of an entry, the
probe of a run the log shows as open, launch, polls, idle kill, cancellation,
verdict, and the event log (`LastRunState`) that is all a restarted brain has.
A run's output is four units: the session line, a line of work and the two
halves of the result line. The log is kept as far as it can still be read.
Tool-call counts, lost sessions and providers' rejections are nondeterministic.
A review runs only right after a delivered verdict. `MaxMishaps` bounds lost
answers, lost kills and writes, restarts and recreated containers together.

**Delivery** is the result phase: rounds over repository destinations (create,
push, pull request), messages with their attempts, promotion to the knowledge
base and its ingestion, the parking of a failed round and its resumption, and
restarts. The providers, recipients and the knowledge base are variables of
their own (`world`), so that "delivered" is stated about them and not about the
mission's row.

**EventsInbox** is the `events` table and its drainers. A drain is one
transaction: the advisory lock, a claimed batch, consumers run one by one inside
a savepoint, marks, commit. External effects are immediate, transactional ones
appear with the commit. A session can be lost at any point; its process goes on
running consumers until a statement fails, while another instance may drain.
Idle time is counted in minutes, in units of `consumerTimeout`. **Outbox** is the
promise: events are accepted once, settled together, given up only after
`MaxAttempts`, and have their transactional effects exactly when they become
processed. `EventsInbox!ImplementsOutbox` states the refinement; the mapping
forgets ids, locks, drains and histories.

**Workflow** is one run of one definition. The engine's calls are separate
steps, each of which may fail, and transitions may also fail *after* they have
committed. The inbox appears as an ordered list with batches, attempts and lost
marks, seen from this one consumer; other consumers of the event may fail as
well, which redelivers it. Missions end by themselves and can then be deleted.
`StartRun` and the boot recovery run concurrently with deliveries; both spawn the
step they read when they began. A goal that names a context key the run lacks
(`Unresolved`) makes `spawnStep` record a warning, which is a run transition too: it
writes "running" and the step its caller has read, whatever the row says by then.

**Automations** is one automation: the dispatcher's decision for an event, the
starter's transaction with the mission created inside it, the finalizer of an
ended mission, the breaker, the queue of one, and the operator's edits. Effects
of an event happen once although it is delivered at least once, because the
dispatcher writes inside the inbox's transaction: that is what EventsInbox
shows, and Automations relies on it. Filters (connector, channel,
self-triggered) only narrow which events fire.

**Permissions** is one session and the turns it runs one after another; the
parallel calls of a turn are the askers. The gate, the redeeming of a carried-over
answer, the adoption of an open prompt, the registration, the wait and the
close are steps of their own, as are the two halves of `Resolve`. The writes of `Create`,
`Forget` and `Resolve` may fail (`CreateFails`, `Saves`); one that fails is taken as not
having happened. The history variables count the answers `Resolve` accepted for a
prompt (`given`), name the prompts whose row one of them could not be written to
(`unsaved`) and count the calls that ran on them (`ran`). The kind of
session (a chat, a mission with an operator, one without) is chosen initially.
The runner that reads park and result events is taken to read them at once;
time is nondeterministic (`Lapse`, the rows the expiry ticker finds old).

**ChatSession** is one chat session: requests race for the turn slot, a turn
appends its question, may compact, streams with checkpoints, is drained when
the client leaves, persists and gives the slot back; a kill loses everything
but the log. The projection into the model's context (`LLMContext`) and the
choice of a compaction's boundary (`planCompaction`) are operators on the log.
An event is its kind, its turn and the length of its text; events that never
enter the context are left out. Compaction is one step: the slot keeps other
writers of messages out.

Each model module defines, next to an operator, the mutated forms used to show
that the properties can fail (`...Late`, `...Not` and so on, marked `Fault:`
where it is not obvious); nothing else refers to them.

## 3. Runs

Bounds are CONSTANTS named in the modules with the comment `bound:`. Settings of
the program (ceilings, caps, batch sizes) are CONSTANTS as well and are set small,
so that every ceiling is reached within a few steps.

| Run | Shows | Bounds, and why they suffice |
|---|---|---|
| MissionFull | evidence behind results, the three ceilings, no skipped review | plans of one to three units of which only the third declares no artifacts (so a general mission is approved unit by unit without a review, or is sent to one), both kinds, automatic approval, one located finding, one operator act, all ceilings 2: replan, regression, rework and resume all occur |
| MissionParks | nothing a mission does by itself goes round in a circle, it is never stuck between operator and machine, and with at most one unit it ends or parks, whatever its flow | one unit, both kinds, all flows and budget cases, plans that wait for approval (a replan waits again: two operator acts), two routes, one question |
| DriverRaces | one loop per mission, one terminal event, endings final, no unapproved plan is built | one mission of one unit, two loops, two racing requests, two signals, a question, a restart |
| DriverStrand | every runnable mission gets its turn | two missions, one slot, two loops, a restart |
| DelegatedRuns | one CLI per worktree, one verdict per run, turns end | two launches (an old run and a new one), three faults (a lost launch, a lost kill and a restart can combine), one review, one entry: entries matter only for cooling |
| DeliveryRounds | done means delivered, repeats only in doubt, messages after repositories, failures ridden out | one repository and two recipients (one can succeed while the other fails), three failures against four resumes, two restarts, three attempts per message |
| InboxDrains | effects at least once, refinement of Outbox (exactly once, caps), every event is settled | two keys, two rows (both pending in one batch, or a key swept and used again), two instances, a lost session, two time-outs (enough to outlast the idle limit), two attempts |
| WorkflowRuns | one child per mission, one mission at work, caps, one edge per mission, the trail is a path, a restart strands no run, at any moment and in the end | two steps with a retry edge and an edge back, one of them with an unknown placeholder, two failed calls, a restart, a delete; nine missions are never reached |
| AutomationRuns | slots agree with runs, one mission per run, a running run has a mission to wait for, nothing starts while disabled, runs settle | three events (an active run, a queued one and one that replaces it), all policies, limits of 2, two missions, one lost transaction, edit or delete |
| PermissionRaces | every call that runs has an accepted answer of its own, a prompt accepts one answer unless its row could not be written, an answer reaches its waiter, one prompt per subject, a turn is never stuck on its prompts | two askers, a subject a grant covers and a destructive one, two prompts and two turns (an answer carried over), one restart, cancel or failed write |
| ChatTurns | the log tells each turn, the context loses nothing, the slot is given back | two requests, three turns (the fewest whose messages can be compacted with a failed or partial turn among them), texts empty or not, one failed append or kill |

DriverSlotLeak is expected to be violated; see section 6.

`CHECK_DEADLOCK FALSE` appears everywhere: every one of these systems may come to
rest (a mission has ended, an inbox is empty, a run is done), and bounded models
also stop when a bound is used up. That nothing stops too early is what the
liveness properties are for. `NeverStuck`, `TurnNeverStuck`, `NeverStranded` and
`RunsAwaitMissions` are their safety halves: in every state something is there that goes
on, or somebody to ask. They need no fairness and are proved.
Symmetry is used in DriverRaces and PermissionRaces only, which check no liveness.

## 4. Fairness

* Mission: weak fairness of turns (Drive's loop, backed by the slot claim and the
  stale-working sweep) and of the auto-resume sweep. Operators owe nothing.
* MissionDriver: weak fairness of every goroutine, request and ticker; strong
  fairness only of a loop's way past the capacity gate, which it meets again and
  again as slots are released.
* Delegated: the goroutine of a turn goes on. The CLI owes nothing: it may hang.
* Delivery: a round goes on and its calls succeed once the faults are used up;
  the auto-resume sweep runs. `FailuresAreRiddenOut` is about fewer failures than
  the sweep has resumes, and repositories whose URL is known (see section 6).
* EventsInbox: `Run`'s ticker keeps starting drains, and a started drain goes on
  because every consumer has a time-out. Losses of sessions and consumer
  time-outs are finite (`MaxLosses`, `MaxSlow`).
* Workflow: the drainer, a request in progress and the boot recovery go on, and
  missions end. The last one is an assumption about operators too: a mission that
  rests must be resumed or cancelled.
* Automations: the starter's passes go on, ended missions' events are delivered,
  missions end (the same assumption).
* ChatSession: the goroutine of each request goes on; a stream ends because the
  turn has a deadline.
* Permissions states no fairness: missions wait for an operator, who owes
  nothing. `TurnNeverStuck` says that a call can go on, an answer is under way, or
  (in missions only) a prompt is there to be answered.

## 5. Proofs

All theorems hold for every value of the constants under the modules' named
ASSUMEs (sizes are naturals, named elements are in their sets).

`MissionPhasesProofs` and `MissionProofs`, for every plan size, set of findings and
routes, all ceilings, and any number of turns, verbs and sweeps. The first is about
one transition and what a turn can report (its type, and the kinds each phase may
report), the second about whole lives:

* `StepType`: `Step` is total and type-preserving. One lemma per `step*` function.
* `TypeCorrect`: `Spec => []TypeOK`. Needs that everything a turn can report is an
  input (one lemma per phase runner; the first failing unit exists because the
  naturals are well ordered).
* `StepEvidenced`, `ResultNeedsEvidence`: `Spec => []ResultHasEvidence`. In `result`
  and `done` a planned mission has a plan and each unit of it is harness-passed
  and approved. This is not inductive: nothing in it forbids a unit that is
  approved but failed while the mission is still in `prove`. The inductive
  invariant is `EvidenceInv == TypeOK /\ Evidenced(m)`, where `Evidenced` adds that in
  *every* phase an approved unit is one the harness passed, and that a plan exists
  while its approval is awaited and in the phases after planning, unless the flow
  has none. `applyVerification` must therefore withdraw
  approval from a unit that regresses (the mutant of this property leaves it).
  The proof has one lemma per input kind, then one per phase runner and verb.
* `BrakesStand`: `Spec => []BrakesHold`. A counter at its cap is legal while the
  mission is parked there and illegal once it runs on, so the caps alone are not
  inductive. `BrakeInv` says that a mission no brake holds has *room left* under
  each cap (`RetryRoom`, `RoundRoom`, `IterationRoom`), and that a mission under
  review has used no iteration: that is why the iteration `stepReviewRework`
  spends without looking does not break the ceiling. It needs
  `MaxIterations >= 2`; with a ceiling of one, a rejected mission stands on it.
* `NoReviewSkipped`: `Spec => ReviewNotSkipped`. The delicate case is a build turn,
  which may claim an approval without a review. `RouteInv` adds that a mission
  whose flow has no plan is never a coding mission, never reaches prove and has
  no open findings; `Routed` says which inputs each phase may report, and
  `PhaseCompleteMoves` that the ledger's bookkeeping opens nothing.
* `RunsAlwaysDown`: `Spec => RunsDown`. Every turn, claim, automatic resume, ask
  time-out and cancel lowers a vector of naturals in lexicographic order, or reroutes a
  parked mission; only the operator's acts raise it, and the turn that completes one of
  several units, which starts the counters afresh. `OneUnitRunsDown` shows that with
  plans of at most one unit there is no such turn. From it `NoWayBack` concludes what a
  mission left to itself does: its bounds take finitely many values (`Most` limits each of
  them), and once it is below some bounds it has neither them nor any above them again
  until the operator acts. So it takes finitely many turns, claims, sweeps and cancels.
* `NoneStuck`: `Spec => []NeverStuck`. A row that has not ended and does not wait for the
  operator is one that the driver drives or the sweep resumes. The two together are
  the safety part of `EventuallyRests`; that a possible step is also taken is
  fairness, and stays with TLC.

`MissionDriverProofs`, for any number of missions, loops, requests in flight,
questions and restarts, and every interleaving of them:

* `TypeCorrect`, with `WorkInv`: what a goroutine carries between its steps has a type.
* `OneLoop`: `Spec => []OneLoopPerMission`. `ClaimInv`: a loop
  that is under way holds its mission's claim, and no other loop does.
* `OneTerminalEvent` and `EndingsStand`: an ended row stays ended and its ending is
  announced once, although every writer computes from a snapshot that may be
  stale. Both rest on what the conditional write of `ApplyTransition` lets
  through: a transition reaches the row only while it has not ended.
* `GateHolds`: `Spec => []NoBuildBeforeApproval`. A check of the row alone proves
  nothing, since what is written was computed earlier from something else.
  `GateInv` says that the row, the snapshot of each turn, the input a turn is about
  to report and each transition on its way are all *cleared*: before the gate, or
  approved by the operator (or by the approval that is itself on its way).

`DelegatedDeliveryProofs`, of Delivery, for any sets of repositories and recipients and any number of
failures and restarts: `DoneDelivered`, `CopiesBounded` and `MessagesLast` prove the
three safety properties of DeliveryRounds. "Done means delivered" is about the
outside world, while the code decides on the row; the inductive invariant has to
tie them together:

* `RowInv`: a round runs only while the mission works, and the sweep resumes only
  below the cap;
* `RoundInv`: during a round every destination is still to be tried, delivered
  according to the round or failed in it, and after the delivery stage none is
  left to try. So a finish without failures means that all are delivered;
* `StageInv`: the destination at hand is one to try, its pull request is asked for
  only after its push, and a message stage is entered only when no repository is
  left to try (this is what `MessagesLast` follows from);
* `DoubtInv`: a recipient neither recorded in the row nor reached in this round got
  its copies in doubtful rounds. Counting the round in progress is what makes
  the bound inductive: a crash turns "reached in this round" into a doubt;
* `WorldInv`: what the row or the round records is in the world, a repository never
  gets a second pull request, and at the finish the document is searchable.

`DelegatedDeliveryProofs`, of Delegated (its specification-level names carry the prefix
`Delegated`, so that both components can be extended there), for any set of route
entries, any cap of a poll and any number of launches, reviews and mishaps:
`DelegatedTypeCorrect`, `OneCli` (`OneCliAtATime`) and `OneVerdict` (`VerdictOnce`).
A turn decides on what `LastRunState` reads from the log, never on the sandbox, so
the invariant says when the log tells the truth. It calls a run *open* if the log shows
its launch and not its end, and nothing about it was lost:

* `LogInv`: only the latest launch of a worker is still read, and a turn past its
  choice of an entry has a run;
* `OpenInv`: no launch, a review's included, is logged behind that of an open run;
  otherwise the scan that stops at a launch would miss the end of this one and a
  later turn would attach to it again. An open run has given no verdict, and it waits
  for the next turn or is the run of this one. So a new launch is planned only when
  no run is open;
* `TurnInv`: the run of a turn is open until the turn has recorded its end;
* `AliveInv`: a CLI that works is the open run, polled or about to be attached to. Two
  such CLIs are therefore the same one, which is `OneCliAtATime`;
* `VerdictInv`: a turn stands before its verdict only after the end is recorded, and
  then none was given yet.

An exec or a write that is lost takes the run out of all of these: both properties
are stated for the others only, and `DelegatedRuns` reaches states in which the
exception is needed.

`InboxAutomationsProofs`, of EventsInbox, for any number of keys, instances, losses and
attempts: `TypeCorrect`, and `Implements`: `Spec => ImplementsOutbox`, the refinement of the
abstract inbox. The inductive invariant is `TypeInv /\ LockInv /\ ClaimInv /\ MarkInv`:

* `LockInv`: only the owner of the advisory lock has a live transaction. Without it
  the marks of a zombie drain could settle rows a second time;
* `ClaimInv`: the rows such a transaction has claimed or marked are still pending in
  the table, and none is claimed twice. So the commit settles pending rows only,
  which is the guard of `Outbox!Settle`;
* `MarkInv`: a row is marked processed exactly if its transactional writes are kept
  and only after all outside consumers have handled it, given up only at the cap
  and left pending only below it. So the commit is a *single* abstract step with the
  promised effects, and everything before it is a stutter or an abstract `Reach`.

`InboxAutomationsProofs`, of Automations (its specification-level names carry the prefix
`Automation`, so that both components can be extended there), for any number of
events, missions, attempts and disturbances, every policy and every limit:
`AutomationTypeCorrect`, `SlotsAgreed` (`SlotsAgree`), `OneMissionEach`
(`OneMissionPerRun`) and `OffStartsNothing` (`DisabledStartsNothing`). Beside the two
invariants themselves:

* `StarterInv`: the run the starter's open transaction has claimed is still starting,
  and has no mission until this transaction makes one. The claim keeps the row
  lock, so no ending mission takes the run away; without it a second mission could
  be inserted, and the starter could put back to running a run that has ended;
* `MissionInv`: a mission whose end is still to be told has its run;
* `OffInv`: while the automation is off and nobody has interfered, nothing waits. It is
  needed because the end of a run promotes nothing then: the breaker gives up the
  queue as it trips, and a disabled automation's events are skipped.

Every step either leaves the runs alone, fires an event, or ends or starts one run
(`RunsMove`); what each of these does to the counts is a lemma of its own
(`FireEffect`, `EndsEffect`, `StartsEffect`).

`RunsAwaitTheirMissions` proves `RunsAwaitMissions` with a further invariant, `AwaitInv`.
That a running run has a mission still to end is not inductive: the mission may end
before the starter has put its run to running. `AwaitInv` says the two halves apart: a
mission whose end was told has settled its run (the starter's lock keeps the end waiting
meanwhile, and a settled run stays settled), and a running run, or one whose mission
the starter's transaction has inserted, has a mission.

`ChatSessionProofs`, for any number of requests, turns, chunks, failed appends and
kills: `TypeCorrect`, `TellsEachTurn` (`LogTellsEachTurn`) and `LosesNothing`
(`ContextLosesNothing`). The log outlives what wrote it, so the invariant ties it to
the turn in memory:

* `SlotInv`: a request is active exactly if it holds the slot, and then its turn is
  the latest. So nobody else writes meanwhile, and the log stays in order;
* `AnswerInv`: the log has no answer of a turn before that turn has persisted, so
  checkpoints and the answer never come after one;
* `RecordInv`: the text a relay takes for flushed is in a checkpoint, and a turn
  past its persisting is on record or its append has failed. The first half is
  what makes it safe to end a turn without a further checkpoint;
* `Keeps`: the newest compaction renders nothing behind its boundary, everything
  said before it, and what it does not render of the open partials is live. The
  first part is missing in `ContextLosesNothing` and makes it inductive. It rests on
  `PlanCovers`: the boundary, found by counting events, is the last message of the
  summarized half, which is chosen by counting messages. Both are prefixes of the
  context in the log's order, and prefixes of equal length are equal
  (`SamePrefix`); a failure note in the half breaks just this.

`PermissionsProofs`, for any finite set of parallel calls and any number of
prompts, turns, restarts, cancelled turns and failed writes: `TypeCorrect`,
`OneAsk`, `AnswersArrive` and `OneUse` prove the type invariant and the three safety
properties of PermissionRaces. A prompt's table row outlives the turn that asked,
and an answer is taken from the broker's map before it is written, so the
invariants say where a prompt and its answer are in between:

* `RoomInv`: every call that may still open a prompt finds room for it. It is what
  the bound `MaxPrompts` needs to be harmless, and the reason for
  `AskersAssumption`: the calls of a turn are finitely many;
* `GateInv`: whoever is past the gate of its subject holds it (`OneAsk`);
* `PromptInv`: a call is at work on a written prompt of its own, or on a new one it has
  registered for. With `GateInv`, no two calls are at one prompt (`OneAsker`), so no
  call drops the waiter of another;
* `WaitInv`: a call without an answer is in the map, or its answer is under way. That
  a delivery finds it there, although adoption and answers interleave, is
  what `resolveMu` is for;
* `CountInv`: the answers of a prompt that are kept for a later ask, with a call or used by
  one are no more than the operator's accepted answers to it. A delivery adds one, and either
  gives it to the waiter or keeps it, never both: this is the `Carried` flag of `Resolve`.
  It holds whatever write fails;
* `OnceInv`: a prompt that has been answered, in a row that was written, is resolved, and
  nobody waits for it, so it accepts no other answer. With `CountInv` this is `OneUse`;
* `HeldInv`: a gate that is taken is held by a call that will hand it on, whatever
  write failed on its way. With it nobody queues behind a call that has left, and
  `NoTurnStuck` proves `TurnNeverStuck` for every kind of session.

`CallsGoOn` adds that within a turn a call only moves forward through its stages, at
most 13 steps. So a chat's turn, where no call depends on the operator, ends as soon
as its calls are scheduled.

`WorkflowProofs`, for every definition, any number of missions, failed calls,
restarts and deletions, and any set of goals with unknown placeholders:
`TypeCorrect`, `OneStepOneMission` and `StaysOnPath` prove the type invariant and the
two safety properties of WorkflowRuns. An edge is chosen, its mission spawned and
the firing recorded in three steps, between which the world moves on, so the
invariant says what a delivery may rely on from one to the next:

* `BatchInv`, `EndedInv`: a delivery is about an event of the batch, and its mission
  has ended;
* `LineInv`: a mission that is still linked to its parent was spawned for the
  parent's outcome, at the step the parent's first edge leads to, and is its only
  child. This is what makes adoption right: the child that a redelivery finds
  is at the step that it is about to record;
* `EngineInv`: from the decision to the record the chosen edge leaves the delivered
  mission's step, has room under its cap, and the mission has taken no edge;
* `ChainInv`: without deletions each mission's parent is the one before it and all
  but the last have ended, hence one mission at work;
* `StarterInv`, `PathInv`: a starter at work finds no rows, so nothing can be adopted
  or recorded meanwhile unless two missions have been deleted; with fewer, what
  it writes is where the trail ends.

`RestartsStrandNothing` proves `NeverStranded`, the safety half of `RunSettles`, with
`RestartInv`: as long as no call has failed and nothing was deleted, missions, trail and
inbox advance in step (`CalmInv`). The n-th edge is that of the n-th mission and
leads to the next, events lie in the inbox in the missions' order, and no event of a
mission that has ended without its edge is behind the drain. So the mission after the
last recorded one is at work or its event is ahead, wherever a restart falls:
a batch that was not committed is drained again, and a committed one holds no such event.

The attempt to prove the path without the last condition showed that it is needed
(section 6), and that the starter must carry the step it read.

Only model-checked: the eight liveness properties, which depend on fairness (the prover
handles neither it nor ENABLED). Every invariant and action property of a passing run is
stated by a theorem. The converse does not hold: type correctness of MissionDriver,
EventsInbox, Workflow and Automations is proved for all sizes and no longer run.

## 6. Where comments and code part

One disagreement is a run that TLC refutes, and a finding in `PROJECT.json` with the quoted line.

| Run | What happens |
|---|---|
| DriverSlotLeak | answering an old question makes an ended mission idle; the row is then claimed as working and holds a slot for good |

The code has further consequences that were met while modelling and have no run
of their own.

*Missions.*
- With two units the iteration counter is reset by each completed unit, and
  alternating regressions evade the stall brake: worker turns are not capped
  (statemachine.go:640 against migrations/0001_init.sql:789). `EventuallyRests` is
  therefore checked with one unit.
- A stale parked question that times out takes a plan out of its approval pause
  (sweep.go:642 against statemachine.go:141).
- A resume computed before a turn's write lands during delivery, and the mission
  ends as done with an unverified unit (statemachine.go:1229 against :1232-1235).
- A resume that races a turn takes lifetime counters back (`Signal`).
- An approve and a send-back of one plan that are decided together overwrite each
  other (`DecidePlan` reads the row without a lock): a plan the operator sent back can be
  built, or an approved one be planned again. Approvals are not tied to a plan, so
  `NoBuildBeforeApproval` says only that some approve was applied before the first build.
- With `max_iterations = 1` a mission runs on with its iterations used up after
  a rejected review (statemachine.go: `stepReviewRework` does not look).

*Delegated runs.*
- One poll reads at most `tailChunkCap` bytes, so an exited run with more unread
  output is taken for dead, against `pollRun`'s "fully drained".
- An idle kill is not among the kinds that end a run in `LastRunState`: the next turn
  re-attaches to the killed run, records a transport death and cools the entry,
  against `coolDown`'s comment (delegated.go:712-716).
- `byte_offset` counts a held partial line and parsed lines: a restart can lose the
  result.
- A failed probe counts as a lost run and a launch whose answer is lost as a failed
  one: the live CLI is orphaned and a second one launched (`OneCliAtATime` is
  conditioned on `slipped`).
- Reviews write the same container marker, so a session of a recreated container
  may be resumed; a run re-attached is charged to the entry picked now.
- A died event recorded after a review's launch is dropped by `LastRunState`; if the
  result event was lost too, the run is retried until the harness retry cap.

*Delivery.*
- A repository with a derived name is created again after a failed push (the URL is
  reset by a defer), and the provider refuses the name for ever, against driver.go's
  "each piece is independently idempotent". `FailuresAreRiddenOut` assumes known URLs.
- `promoteOne` takes any look-up error for "absent" and uploads a duplicate document.
- `delivered_at` is stored after all deliveries, and a message whose outcome is in
  doubt is sent again by the next round (`RepeatsOnlyInDoubt` counts both).
- A message delivered while its repository failed never gets the link of the pull
  request; a failed artifact copy promotes nothing and the mission is done.

*Inbox and workflows.*
- Two consumers in a row that time out outlast the drain's idle limit; the batch is
  lost and no attempt is counted (drainer.go:31 against :112-113).
- An edge recorded too late leads to a step whose mission has already ended and
  whose event was dropped: the run stays running (engine.go:184 against :169-170).
  It needs two failures of one event, or a restart and a failure; the drainer's
  order makes it unlikely, not impossible.
- A pause by `StartRun` during a delivery is overwritten by it, and one that lands
  late rewrites a done run (`ApplyRunTransition` compares nothing); a running run
  whose missions were deleted is restarted at boot (`RunsWithoutMissions`); a mission
  deleted while its parent's event is retried is spawned a second time.
- A warning about an unknown placeholder is a transition to the step the caller read
  (engine.go:279). After a deletion it can set a paused or ended run running again,
  after two it can take a running run back to a step its trail has left, against
  `recoverEntry`'s "still the entry step since no mission ever ran for it"
  (engine.go:142-143). `TrailIsPath` is therefore conditioned on at most one deletion.

*Automations.*
- A run whose mission is deleted before its event is dispatched stays running.
- A queued run is stranded when the automation is disabled and enabled again with
  nothing active; enabling does not reset the breaker's count.
- A provisioning failure after the insert marks the run failed though its mission lives.

*Permissions.*
- A failed row update in `Resolve` is only logged: the live call gets its answer and the
  prompt stays open (permbroker.go:216-219). Until that call closes it, and for longer if
  that write fails too, the prompt accepts a second answer, against "False = unknown or
  already answered id" (permbroker.go:202-203). The second one is kept for a later ask and
  runs a second call: two calls on one prompt, each with an answer of its own.
  `AnswersCountOnce` therefore counts answers, and demands a single one only where the
  row could be written.
- The sweep clears the mission's prompt whatever it shows by then, a newer one
  included; with two parked calls the row shows only the last one.
- The expiry ticker's list of live waiters may be stale when it marks rows, and a
  prompt adopted meanwhile is recorded as timed out.
- A timer that beats an answer already delivered leaves a row recorded as allowed
  whose call did not run.
- The answer and the clearing of the mission's prompt are two writes
  (api/missions.go:1640-1649), and a cancelled turn clears with its own ended
  context (runner.go:963): the row then shows a prompt nobody can answer.

*Chat.*
- `planCompaction` does not count `turn_failed` although `LLMContext` projects it
  (compactor.go:227, "correspond 1:1"): after a failed turn the boundary lies later
  than what was summarized. `ContextLosesNothing` is conditioned on no failure note
  in the summarized half.
- The drain after the client has left has no ticker and accumulates no reasoning: a
  kill loses everything since, against `flushPending`'s "loses at most one flush
  interval", and a reasoning-only answer is recorded as empty.
- `Retry` reads the log before it has the slot, and can run a turn again that was
  completed in between; a failed append of the answer leaves a turn without a trace.

## 7. Not modelled

* Inside the modelled components: texts, payloads, timestamps, cost arithmetic
  (the budget is under, over or mixed), archive and delete of missions in the
  driver, notifications, terminal hooks and removal of sandboxes and worktrees,
  several workflow runs at once, edits of a definition during a run; the native
  runner, adapters' parsing and steering of delegated turns; the comparison of an open
  run's harness with the mission's (delegated.go:1040 and :1109), which cannot fail: worker
  runs are spawned with the mission's harness (delegated.go:877), `LastRunState` skips the
  reviews, and only `Create` writes the column (missions/store.go:445); rendering, the deliver
  tool, test sends and manual pushes; the automations' ticker walk, webhooks,
  filters, policy edits and expiry; taint and the tools themselves; chat
  subscribers, titles, routes and the web client's transcript.
* Whole components: those marked - in section 1, with the notes in `PROJECT.json`.
  Git, containers, model providers and third-party APIs appear only as
  nondeterministic answers.

## 8. Plan

1. Done: mission core, delegated turns, result phase, inbox with its abstract
   specification, workflow engine, automations, permissions, chat session; the
   theorems of section 5.
2. Next models: channels and the git poller as producers of deduplicated events;
   gateway router (fallback order, cooldowns); sandbox life cycle; the native runner.
3. Compositions: Workflow and Automations over an `Outbox` instance.
4. Every safety property the runs check is proved. Theorems left: that Automations fires once for what an `Outbox` settles, with the composition of 3.
