------------------------------ MODULE Workflow ------------------------------
(***************************************************************************)
(* One workflow run: the engine that chains missions along the edges of a  *)
(* definition (D-070, internal/brain/workflows), fed by the events inbox.  *)
(*                                                                         *)
(* The engine is a consumer of mission.done and mission.failed.  Every     *)
(* call it makes (load the run, look up a child, create a mission, apply a *)
(* run transition) is a statement of its own connection: it can fail, or   *)
(* fail after it has committed, and nothing is undone when the event is    *)
(* delivered again.  The inbox is the one of EventsInbox, seen from one    *)
(* consumer: batches in order, marks committed at the end of a batch.      *)
(*                                                                         *)
(* Missions are seen from outside: they end, and may then be deleted.      *)
(***************************************************************************)
EXTENDS Integers, Sequences, FiniteSets, FiniteSetsExt

CONSTANTS
  Steps,            \* names of the definition's steps
  Entry,            \* Definition.Entry
  End,              \* endStep
  Edges,            \* Definition.Edges: a sequence of [from, on, to, max]
  Unresolved,       \* steps whose goal names a context key the run lacks
  MaxAttempts,      \* the inbox's maxAttempts
  MaxMissions,      \* bound: missions of the run
  MaxFaults,        \* bound: failed calls and failed co-consumers
  MaxCrashes,       \* bound: restarts of the process
  MaxDeletes        \* bound: missions deleted by the operator

Outcomes == {"done", "failed"}
MaxIterations == 10

\* What Validate accepts, after its clamp.
ASSUME WorkflowAssumption ==
  /\ Entry \in Steps
  /\ End \notin Steps
  /\ Edges \in Seq([from : Steps, on : Outcomes, to : Steps \cup {End}, max : 1..MaxIterations])
  /\ Unresolved \subseteq Steps
  /\ MaxAttempts \in Nat \ {0}
  /\ {MaxMissions, MaxFaults, MaxCrashes, MaxDeletes} \subseteq Nat

VARIABLES
  run,              \* its row: status ("none" before CreateRun) and step
  trail,            \* its edge.taken events, in order
  missions,         \* missions it spawned, in order of creation
  inbox,            \* pending events, oldest first: a mission and its attempts
  drain,            \* the batch being delivered: size, position, failures
  engine,           \* the delivery in progress: where, edge and child
  starter,          \* StartRun or the boot recovery, in progress: where, and
                    \* the step it spawns, read when it began
  booting,          \* RecoverRunsWithoutEntry has yet to look at the run
  faults, crashes, deletes

vars == <<run, trail, missions, inbox, drain, engine, starter, booting,
          faults, crashes, deletes>>

-----------------------------------------------------------------------------

NoDrain == [size |-> 0, at |-> 1, failed |-> {}]
Resting == [pc |-> "rest", edge |-> 0, child |-> 0]
Idle == [pc |-> "none", step |-> Entry]

Init ==
  /\ run = [status |-> "none", step |-> Entry]
  /\ trail = <<>>
  /\ missions = <<>>
  /\ inbox = <<>>
  /\ drain = NoDrain
  /\ engine = Resting
  /\ starter = Idle
  /\ booting = FALSE
  /\ faults = 0
  /\ crashes = 0
  /\ deletes = 0

Fault == faults < MaxFaults /\ faults' = faults + 1
Fine == UNCHANGED faults

Draining == drain.size > 0
Delivered == inbox[drain.at].mission

Rows == {m \in DOMAIN missions : missions[m].phase # "deleted"}

\* The rows the run spawned from p (0: from no mission).
ChildrenOf(p) == {m \in Rows : missions[m].parent = p}

\* Fault: no lookup, every delivery spawns.
WorkflowChildNone(p) == {}

\* WorkflowChild: the first such row, if there is one.
WorkflowChild(p) == IF ChildrenOf(p) = {} THEN {} ELSE {Min(ChildrenOf(p))}

\* Driver.Create: the row is committed before anything that may still fail.
Insert(step, p) ==
  /\ Len(missions) < MaxMissions
  /\ missions' = Append(missions, [step |-> step, parent |-> p, phase |-> "live"])

-----------------------------------------------------------------------------
(* Starting a run. *)

Running(step) == [status |-> "running", step |-> step]

\* spawnStep's run.warning about an unknown placeholder in the goal of step: a
\* run transition of its own, to running and to the step its caller has read.
\* That it fails is only logged.
Warn(step, current) ==
  run' \in IF step \in Unresolved THEN {run, Running(current)} ELSE {run}

\* StartRun, up to CreateRun.  A run this young is past the recovery's cutoff.
StartRun ==
  /\ run.status = "none"
  /\ run' = Running(Entry)
  /\ starter' = [pc |-> "entry", step |-> Entry]
  /\ booting' = FALSE
  /\ UNCHANGED <<trail, missions, inbox, drain, engine, faults, crashes, deletes>>

\* spawnEntry: adopt or create.  A failed lookup is only reported; a failed
\* Create pauses the run, whether or not it left a row.
SpawnEntry ==
  /\ starter.pc = "entry"
  /\ \/ /\ \/ Fault
           \/ WorkflowChild(0) # {} /\ Fine
        /\ starter' = Idle
        /\ UNCHANGED <<run, missions>>
     \/ /\ WorkflowChild(0) = {}
        /\ Warn(starter.step, starter.step)
        /\ \/ /\ Insert(starter.step, 0)
              /\ starter' = [starter EXCEPT !.pc = "provision"]
              /\ Fine
           \/ /\ Fault
              /\ starter' = [starter EXCEPT !.pc = "pause"]
              /\ UNCHANGED missions
  /\ UNCHANGED <<trail, inbox, drain, engine, booting, crashes, deletes>>

\* ensureProvisioned, while the sweeps may already drive the new row.
ProvisionEntry ==
  /\ starter.pc = "provision"
  /\ \/ Fine /\ starter' = Idle
     \/ Fault /\ starter' = [starter EXCEPT !.pc = "pause"]
  /\ UNCHANGED <<run, trail, missions, inbox, drain, engine, booting, crashes, deletes>>

\* pauseRun reloads the run and keeps its step.
Paused == [run EXCEPT !.status = "paused"]

PauseEntry ==
  /\ starter.pc = "pause"
  /\ starter' = Idle
  /\ \/ Fine /\ run' = Paused
     \/ Fault /\ run' \in {run, Paused}
  /\ UNCHANGED <<trail, missions, inbox, drain, engine, booting, crashes, deletes>>

\* RecoverRunsWithoutEntry, once after a restart: a running run that no
\* mission row links to has the step it is at spawned like an entry.
Entryless == run.status = "running" /\ Rows = {}

Recover ==
  /\ booting
  /\ booting' = FALSE
  /\ \/ /\ Entryless
        /\ starter' = [pc |-> "entry", step |-> run.step]
        /\ Fine
     \/ /\ IF Entryless THEN Fault ELSE Fine
        /\ UNCHANGED starter
  /\ UNCHANGED <<run, trail, missions, inbox, drain, engine, crashes, deletes>>

-----------------------------------------------------------------------------
(* Missions and the inbox. *)

\* A mission ends; its terminal event is inserted by the same transaction.
MissionEnds(m) ==
  /\ missions[m].phase = "live"
  /\ \E o \in Outcomes : missions' = [missions EXCEPT ![m].phase = o]
  /\ inbox' = Append(inbox, [mission |-> m, attempts |-> 0])
  /\ UNCHANGED <<run, trail, drain, engine, starter, booting, faults, crashes, deletes>>

\* Delete takes ended missions only; ON DELETE SET NULL orphans its children.
DeleteMission(m) ==
  /\ deletes < MaxDeletes
  /\ missions[m].phase \in Outcomes
  /\ deletes' = deletes + 1
  /\ missions' = [c \in DOMAIN missions |->
       IF c = m THEN [missions[c] EXCEPT !.phase = "deleted"]
       ELSE IF missions[c].parent = m THEN [missions[c] EXCEPT !.parent = 0]
       ELSE missions[c]]
  /\ UNCHANGED <<run, trail, inbox, drain, engine, starter, booting, faults, crashes>>

Claim ==
  /\ ~Draining
  /\ inbox # <<>>
  /\ drain' = [NoDrain EXCEPT !.size = Len(inbox)]
  /\ UNCHANGED <<run, trail, missions, inbox, engine, starter, booting, faults, crashes, deletes>>

\* The event's consumers have run; one of the others may have failed.
Settle ==
  /\ engine.pc \in {"ok", "error"}
  /\ engine' = Resting
  /\ \E failed \in BOOLEAN :
       /\ engine.pc = "error" => failed
       /\ IF engine.pc = "ok" /\ failed THEN Fault ELSE Fine
       /\ drain' = [drain EXCEPT
            !.at = @ + 1,
            !.failed = IF failed THEN @ \cup {drain.at} ELSE @]
  /\ UNCHANGED <<run, trail, missions, inbox, starter, booting, crashes, deletes>>

\* The element of S with k - 1 smaller ones.
Nth(S, k) == CHOOSE i \in S : Cardinality({j \in S : j < i}) = k - 1

\* The batch after its marks: the failed events that have attempts left, in
\* their order.
Retried == {i \in drain.failed : inbox[i].attempts + 1 < MaxAttempts}

Kept ==
  [k \in 1..Cardinality(Retried) |->
     [inbox[Nth(Retried, k)] EXCEPT !.attempts = @ + 1]]

\* The drain commits its marks, or loses them all.
Commit ==
  /\ Draining
  /\ drain.at > drain.size
  /\ \/ Fine /\ inbox' = Kept \o SubSeq(inbox, drain.size + 1, Len(inbox))
     \/ Fault /\ UNCHANGED inbox
  /\ drain' = NoDrain
  /\ UNCHANGED <<run, trail, missions, engine, starter, booting, crashes, deletes>>

Crash ==
  /\ crashes < MaxCrashes
  /\ crashes' = crashes + 1
  /\ drain' = NoDrain
  /\ engine' = Resting
  /\ starter' = Idle
  /\ booting' = TRUE
  /\ UNCHANGED <<run, trail, missions, inbox, faults, deletes>>

-----------------------------------------------------------------------------
(* The engine: OnMissionTerminal. *)

EdgeTakenFor(m) == \E i \in DOMAIN trail : trail[i].mission = m

\* Fault: the mission's step is not compared with the run's.
StaleNot(m) == FALSE

\* A late event: the run has moved on from m's step.
Stale(m) == missions[m].step # run.step

\* The first edge leaving the current step on the mission's outcome.
Matching(o) == {e \in DOMAIN Edges : Edges[e].from = run.step /\ Edges[e].on = o}

Firings(e) == Cardinality({i \in DOMAIN trail : trail[i].edge = e})

CapReached(e) == Firings(e) >= Edges[e].max

\* Where OnMissionTerminal goes once everything is loaded.
Decision(m) ==
  IF \/ missions[m].phase = "deleted"
     \/ run.status # "running"
     \/ Stale(m)
     \/ EdgeTakenFor(m)
  THEN [Resting EXCEPT !.pc = "ok"]
  ELSE LET matching == Matching(missions[m].phase)
           e == Min(matching)
       IN  IF matching = {} THEN [Resting EXCEPT !.pc = "pause"]
           ELSE [Resting EXCEPT
                   !.edge = e,
                   !.pc = IF CapReached(e) THEN "fail"
                          ELSE IF Edges[e].to = End THEN "end" ELSE "spawn"]

\* Handle and the loads of OnMissionTerminal; any of them can fail.
Deliver ==
  /\ Draining /\ drain.at <= drain.size
  /\ engine.pc = "rest"
  /\ \/ Fine /\ engine' = Decision(Delivered)
     \/ Fault /\ engine' = [Resting EXCEPT !.pc = "error"]
  /\ UNCHANGED <<run, trail, missions, inbox, drain, starter, booting, crashes, deletes>>

\* Fault: a child that exists is taken for an edge that was recorded.
AdoptedDone(c) == [engine EXCEPT !.pc = "ok", !.child = c]

Adopted(c) == [engine EXCEPT !.pc = "record", !.child = c]

\* Adopt or create the next step's mission.  A failed lookup fails the
\* delivery; a failed load of the outcome or a failed Create pauses the run,
\* and Create may have left its row behind.  A deleted parent cannot be
\* referenced.
Spawn ==
  LET m == Delivered
      edge == Edges[engine.edge]
      child == WorkflowChild(m)
  IN  /\ engine.pc = "spawn"
      /\ \/ /\ \/ Fault /\ engine' = [engine EXCEPT !.pc = "error"]
               \/ child # {} /\ Fine /\ engine' = Adopted(Min(child))
            /\ UNCHANGED <<run, missions>>
         \/ /\ child = {}
            /\ Warn(edge.to, edge.from)
            /\ \/ /\ m \in Rows
                  /\ Insert(edge.to, m)
                  /\ \/ Fine /\ engine' = [engine EXCEPT !.pc = "record", !.child = Len(missions')]
                     \/ Fault /\ engine' = [engine EXCEPT !.pc = "pause"]
               \/ /\ IF m \in Rows THEN Fault ELSE Fine
                  /\ engine' = [engine EXCEPT !.pc = "pause"]
                  /\ UNCHANGED missions
      /\ UNCHANGED <<trail, inbox, drain, starter, booting, crashes, deletes>>

\* ApplyRunTransition: the row and its event in one transaction, whose commit
\* may be reported as an error and still have happened.
Transition(pc, row, taken) ==
  /\ engine.pc = pc
  /\ \/ /\ Fine
        /\ run' = row /\ trail' = trail \o taken
        /\ engine' = [engine EXCEPT !.pc = "ok"]
     \/ /\ Fault
        /\ \/ run' = row /\ trail' = trail \o taken
           \/ UNCHANGED <<run, trail>>
        /\ engine' = [engine EXCEPT !.pc = "error"]
  /\ UNCHANGED <<missions, inbox, drain, starter, booting, crashes, deletes>>

Record ==
  /\ engine.pc = "record"
  /\ Transition("record", Running(Edges[engine.edge].to),
       <<[edge |-> engine.edge, mission |-> Delivered, child |-> engine.child]>>)

PauseRun == Transition("pause", Paused, <<>>)

FailRun ==
  /\ engine.pc = "fail"
  /\ Transition("fail", [status |-> "failed", step |-> Edges[engine.edge].from], <<>>)

EndRun == Transition("end", [status |-> "done", step |-> End], <<>>)

EngineStep == Deliver \/ Spawn \/ Record \/ PauseRun \/ FailRun \/ EndRun

DrainStep == Claim \/ EngineStep \/ Settle \/ Commit

StarterStep == SpawnEntry \/ ProvisionEntry \/ PauseEntry

Next ==
  \/ StartRun \/ StarterStep \/ Recover
  \/ \E m \in DOMAIN missions : MissionEnds(m) \/ DeleteMission(m)
  \/ DrainStep
  \/ Crash

Spec == Init /\ [][Next]_vars

\* The drainer ticks, a request and the boot recovery run to their end, and
\* every mission ends sooner or later (Mission!EventuallyRests, an operator
\* who answers or cancels what rests).
FairSpec ==
  /\ Spec
  /\ WF_vars(DrainStep)
  /\ WF_vars(StarterStep)
  /\ WF_vars(Recover)
  /\ \A m \in 1..MaxMissions : WF_vars(m \in DOMAIN missions /\ MissionEnds(m))

-----------------------------------------------------------------------------
(* Properties *)

EnginePcs == {"rest", "ok", "error", "spawn", "record", "pause", "fail", "end"}

\* Every variable has its type.
TypeOK ==
  /\ run \in [status : {"none", "running", "paused", "failed", "done"}, step : Steps \cup {End}]
  /\ trail \in Seq([edge : DOMAIN Edges, mission : DOMAIN missions, child : DOMAIN missions])
  /\ missions \in Seq([step : Steps, parent : Nat, phase : {"live", "deleted"} \cup Outcomes])
  /\ inbox \in Seq([mission : DOMAIN missions, attempts : 0..MaxAttempts - 1])
  /\ drain.size \in 0..Len(inbox)
  /\ drain.failed \subseteq 1..drain.size
  /\ engine.pc \in EnginePcs
  /\ starter \in [pc : {"none", "entry", "provision", "pause"}, step : Steps]
  /\ booting \in BOOLEAN

\* "adopted, never created twice" (OnMissionTerminal): whatever fails between
\* the spawn and edge.taken, a mission has at most one successor.
OneChildPerMission ==
  \A m \in Rows : Cardinality(ChildrenOf(m)) <= 1

\* A run never has two missions at work, across redelivered events, failed
\* calls, restarts and the recovery of runs without an entry.  (A deleted
\* mission breaks it: the retry of its parent's event no longer finds a child.)
OneLiveMission ==
  deletes = 0 => Cardinality({m \in Rows : missions[m].phase = "live"}) <= 1

\* Each step of the run has one mission, however often its event is delivered.
OneMissionPerStep == OneChildPerMission /\ OneLiveMission

\* max_iterations: no edge fires more often than its cap, although a firing
\* that failed after its commit is delivered again.
EdgeFiringsCapped == \A e \in DOMAIN Edges : Firings(e) <= Edges[e].max

\* A terminal event moves the run once: no mission takes two edges.
MissionTakesOneEdge ==
  \A i, j \in DOMAIN trail : trail[i].mission = trail[j].mission => i = j

\* The trail is a path of the definition: each edge leaves the step of the
\* mission whose outcome took it, to the step of the mission it spawned; the
\* first leaves the entry, the others leave where the one before ended, and a
\* running run is where its trail ends.  (Two deletions can break the path: the
\* boot recovery then finds no row of a run that is about to move on, and its
\* warning sets the run back to the step the recovery has read.)
FollowsEdges ==
  LET at(i) == IF i = 0 THEN Entry ELSE Edges[trail[i].edge].to
  IN  /\ \A i \in DOMAIN trail :
           LET e == Edges[trail[i].edge]
           IN  /\ e.from = missions[trail[i].mission].step
               /\ e.to = missions[trail[i].child].step
               /\ deletes <= 1 => e.from = at(i - 1)
      /\ deletes <= 1 /\ run.status = "running" => run.step = at(Len(trail))

\* What the run did is what its definition allows, each step of it once.
TrailIsPath == EdgeFiringsCapped /\ MissionTakesOneEdge /\ FollowsEdges

\* A delivery of the mission's event that may still move the run: it is in the
\* inbox, and no delivery of this batch is through with it.
ToDeliver(m) ==
  \E i \in DOMAIN inbox :
    /\ inbox[i].mission = m
    /\ i >= drain.at
    /\ i = drain.at => engine.pc \notin {"ok", "error"}

\* What a running run waits for is never lost to a restart, whichever write it
\* falls between: the mission after the last recorded one is the one of the
\* run's step, and it is at work or its event is still to be delivered.  (A
\* failed call may pause the run or lose the event, a deletion loses the row.)
NeverStranded ==
  LET next == Len(trail) + 1
  IN  faults = 0 /\ deletes = 0 /\ run.status = "running" /\ missions # <<>> =>
        /\ next \in DOMAIN missions
        /\ missions[next].step = run.step
        /\ missions[next].phase = "live" \/ ToDeliver(next)

\* Restarts alone never strand a run: one that got its entry mission is done,
\* failed or paused in the end, unless a call fails or a mission is deleted.
RunSettles ==
  run.status = "running" /\ Rows # {}
    ~> run.status # "running" \/ faults > 0 \/ deletes > 0
=============================================================================
