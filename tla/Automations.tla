----------------------------- MODULE Automations -----------------------------
(* One automation: the dispatcher that turns its events into runs inside the  *)
(* inbox's transaction (automations/dispatcher.go), the starter that gives    *)
(* each started run a mission (starter.go), the mission's terminal event that *)
(* finalizes the run, the circuit breaker, the queue of one, and what the     *)
(* operator may edit meanwhile (store.go).                                    *)
(* Effects of an event happen once although it may be delivered again: that   *)
(* is EventsInbox. A mission's end and its terminal event are one transaction:*)
(* that is MissionDriver.                                                     *)
EXTENDS Naturals, Sequences, FiniteSets, FiniteSetsExt

CONSTANTS
  EventKeys,        \* dedup keys of the events: a cron boundary, a delivery, a request
  Manual,           \* those of run.now, which needs no trigger
  Policies,         \* concurrency policies considered
  MaxConcurrent,    \* max_concurrent, for the parallel policy
  MaxRunsPerHour,
  BreakerFailures,  \* breakerFailures
  MaxStartAttempts, \* maxStartAttempts
  MaxMissions,      \* bound: missions ever created
  MaxDisturbances   \* bound: edits, deleted missions, crashes and lost transactions

ASSUME KeysAssumption == IsFiniteSet(EventKeys) /\ Manual \subseteq EventKeys
ASSUME PoliciesAssumption == Policies \subseteq {"skip", "queue", "parallel"}
ASSUME LimitsAssumption ==
  /\ {MaxConcurrent, MaxRunsPerHour, BreakerFailures, MaxStartAttempts} \subseteq Nat \ {0}
  /\ {MaxMissions, MaxDisturbances} \subseteq Nat

VARIABLES
  concurrency, enabled, failures,  \* the automation's row
  trigger,   \* its trigger: on, off or gone
  runs,      \* automation_runs in the order of created_at
  recent,    \* the runs created within the last hour
  missions,  \* missions created for its runs, in order
  starter,   \* the run the starter's transaction has claimed, and how far it is
  disturbances, \* edits of the automation, missions deleted, transactions lost
  interfered    \* history: the operator edited the automation or deleted a mission

automation == <<concurrency, enabled, failures, trigger>>
bounds == <<disturbances, interfered>>
automationVars == <<automation, runs, recent, missions, starter, bounds>>

RunIds == DOMAIN runs
InStatus(rs, S) == {i \in DOMAIN rs : rs[i].status \in S}
Active(rs) == InStatus(rs, {"starting", "running"})
Queued(rs) == InStatus(rs, {"queued"})
Counted == {"queued", "starting", "running", "done", "failed"}
Limit == IF concurrency = "parallel" THEN MaxConcurrent ELSE 1
Idle == [run |-> 0, made |-> FALSE]
MissionsOf(i) == {m \in DOMAIN missions : missions[m].run = i}
Skipped(rs, S) == [i \in DOMAIN rs |-> IF i \in S THEN [rs[i] EXCEPT !.status = "skipped"] ELSE rs[i]]

AutomationInit ==
  /\ concurrency \in Policies
  /\ enabled = TRUE /\ failures = 0 /\ trigger = "on"
  /\ runs = <<>> /\ recent = {} /\ missions = <<>> /\ starter = Idle
  /\ disturbances = 0 /\ interfered = FALSE

Disturb(operator) ==
  /\ disturbances < MaxDisturbances
  /\ disturbances' = disturbances + 1
  /\ interfered' = (interfered \/ operator)

-----------------------------------------------------------------------------
(* The dispatcher. *)

\* decide: the status of a new run.
DecisionCountsRunning(on) ==
  LET counted == {i \in recent : runs[i].status \in Counted} IN
  CASE ~on -> "skipped"
    [] on /\ Cardinality(counted) >= MaxRunsPerHour -> "skipped"
    [] OTHER -> IF Cardinality(InStatus(runs, {"running"})) < Limit THEN "starting"
                ELSE IF concurrency = "skip" THEN "skipped" ELSE "queued"

Decision(on) ==
  LET counted == {i \in recent : runs[i].status \in Counted} IN
  CASE ~on -> "skipped"
    [] on /\ Cardinality(counted) >= MaxRunsPerHour -> "skipped"
    [] OTHER -> IF Cardinality(Active(runs)) < Limit THEN "starting"
                ELSE IF concurrency = "skip" THEN "skipped" ELSE "queued"

NewRun(k, s) == [key |-> k, status |-> s, attempts |-> 0]

\* fire: the run of one event, under the automation's row lock. A queued run
\* replaces the one queued before. An event that was swept may come again.
Fire(k) ==
  LET queue == Queued(runs)
      status == Decision(enabled /\ (k \in Manual \/ trigger = "on"))
      kept == IF status = "queued" THEN Skipped(runs, queue) ELSE runs
  IN /\ k \in Manual \/ trigger # "gone"
     /\ \A i \in RunIds : runs[i].key # k
     /\ runs' = Append(kept, NewRun(k, status))
     /\ recent' = recent \cup {Len(runs) + 1}
     /\ UNCHANGED <<automation, missions, starter, bounds>>

\* promoteQueued: the newest queued run takes a free slot, older ones are skipped.
PromotedLate(rs) ==
  LET queue == Queued(rs) IN
  IF queue = {} \/ Cardinality(Active(rs)) + 1 >= Limit THEN rs
  ELSE [Skipped(rs, queue) EXCEPT ![Max(queue)].status = "starting"]

Promoted(rs) ==
  LET queue == Queued(rs) IN
  IF queue = {} \/ Cardinality(Active(rs)) >= Limit THEN rs
  ELSE [Skipped(rs, queue) EXCEPT ![Max(queue)].status = "starting"]

PromotedAlways(rs) == Promoted(rs)
PromotedIfOn(rs) == IF enabled THEN Promoted(rs) ELSE rs

\* finalizeRun: the run's outcome, the breaker, and the queue.
FinalizeRun(rs, i, failed) ==
  LET after == [rs EXCEPT ![i] = [@ EXCEPT !.status = IF failed THEN "failed" ELSE "done", !.attempts = 0]]
      count == IF failed THEN failures + 1 ELSE 0
      trips == enabled /\ count >= BreakerFailures
  IN /\ failures' = count
     /\ enabled' = (enabled /\ ~trips)
     /\ runs' = IF trips THEN Skipped(after, Queued(after)) ELSE PromotedIfOn(after)
     /\ UNCHANGED <<concurrency, trigger>>

\* Fault: the run's row lock is not waited for.
FinalizeMissionUnlocked(m) ==
  LET i == missions[m].run IN
  /\ missions[m].phase \in {"done", "failed"}
  /\ missions' = [missions EXCEPT ![m].phase = "told"]
  /\ IF runs[i].status \in {"done", "failed"}
       THEN UNCHANGED <<automation, runs>>
       ELSE FinalizeRun(runs, i, missions[m].phase = "failed")
  /\ UNCHANGED <<recent, starter, bounds>>

\* finalizeMission, on the mission's terminal event. It waits for the run's row
\* lock while the starter holds it.
FinalizeMission(m) ==
  LET i == missions[m].run IN
  /\ missions[m].phase \in {"done", "failed"}
  /\ missions' = [missions EXCEPT ![m].phase = "told"]
  /\ i # starter.run
  /\ IF runs[i].status \in {"done", "failed"}
       THEN UNCHANGED <<automation, runs>>
       ELSE FinalizeRun(runs, i, missions[m].phase = "failed")
  /\ UNCHANGED <<recent, starter, bounds>>

\* An hour without a run.
HourPasses ==
  /\ recent # {}
  /\ recent' = {}
  /\ UNCHANGED <<automation, runs, missions, starter, bounds>>

-----------------------------------------------------------------------------
(* The starter: one transaction per run, open while the mission is created. *)

Startable(i) == runs[i].status = "starting" /\ starter = Idle

HasMissionUnseen(i) == FALSE
HasMission(i) == MissionsOf(i) # {}

\* startOne and start: a mission already linked to the run is adopted.
Adopt(i) ==
  /\ Startable(i) /\ HasMission(i)
  /\ runs' = [runs EXCEPT ![i].status = "running"]
  /\ UNCHANGED <<automation, recent, missions, starter, bounds>>

ClaimAsRunning(i) ==
  /\ Startable(i) /\ ~HasMission(i)
  /\ starter' = [Idle EXCEPT !.run = i]
  /\ runs' = [runs EXCEPT ![i].status = "running"]
  /\ UNCHANGED <<automation, recent, missions, bounds>>

Claim(i) ==
  /\ Startable(i) /\ ~HasMission(i)
  /\ starter' = [Idle EXCEPT !.run = i]
  /\ UNCHANGED <<automation, runs, recent, missions, bounds>>

TriggerGone(i) == runs[i].key \notin Manual /\ trigger = "gone"

\* skipRun: the run frees its slot and does not touch the breaker.
SkipRun ==
  LET i == starter.run IN
  /\ i # 0 /\ ~starter.made /\ TriggerGone(i)
  /\ runs' = PromotedIfOn([runs EXCEPT ![i].status = "skipped"])
  /\ starter' = Idle
  /\ UNCHANGED <<automation, recent, missions, bounds>>

\* The route cannot be used: the run stays starting for another attempt.
RouteUnusable ==
  LET i == starter.run IN
  /\ i # 0 /\ ~starter.made /\ ~TriggerGone(i)
  /\ runs[i].attempts + 1 < MaxStartAttempts
  /\ runs' = [runs EXCEPT ![i].attempts = @ + 1]
  /\ starter' = Idle
  /\ UNCHANGED <<automation, recent, missions, bounds>>

\* createMission fails before the mission is written, or while it is
\* provisioned: then the mission exists.
CreateFails ==
  LET i == starter.run IN
  /\ i # 0 /\ (starter.made \/ ~TriggerGone(i))
  /\ FinalizeRun(runs, i, TRUE)
  /\ starter' = Idle
  /\ UNCHANGED <<recent, missions, bounds>>

\* Driver.Create writes the mission, linked to the run.
InsertMission ==
  /\ starter.run # 0 /\ ~starter.made /\ ~TriggerGone(starter.run)
  /\ Len(missions) < MaxMissions
  /\ missions' = Append(missions, [run |-> starter.run, phase |-> "live"])
  /\ starter' = [starter EXCEPT !.made = TRUE]
  /\ UNCHANGED <<automation, runs, recent, bounds>>

\* The claim's transaction commits the run as running.
Started ==
  /\ starter.made
  /\ runs' = [runs EXCEPT ![starter.run] = [@ EXCEPT !.status = "running", !.attempts = 0]]
  /\ starter' = Idle
  /\ UNCHANGED <<automation, recent, missions, bounds>>

\* The process stops, or the database ends the idle transaction.
StartLost ==
  /\ starter # Idle /\ Disturb(FALSE)
  /\ starter' = Idle
  /\ UNCHANGED <<automation, runs, recent, missions>>

-----------------------------------------------------------------------------
(* Missions and the operator. *)

MissionEnds(m) ==
  /\ missions[m].phase = "live"
  /\ \E phase \in {"done", "failed"} :
       missions' = [missions EXCEPT ![m].phase = phase]
  /\ UNCHANGED <<automation, runs, recent, starter, bounds>>

\* A terminal mission may be deleted before its event was dispatched: the
\* event then finds no run.
DeleteMission(m) ==
  /\ missions[m].run # 0 /\ missions[m].phase # "live" /\ Disturb(TRUE)
  /\ missions' = [missions EXCEPT ![m] = [run |-> 0, phase |-> "told"]]
  /\ UNCHANGED <<automation, runs, recent, starter>>

\* Patch enables or disables the automation or its trigger, or removes the
\* trigger; a failed signature check may disable the trigger as well. It
\* promotes nothing and leaves consecutive_failures alone.
Patch ==
  /\ Disturb(TRUE)
  /\ \/ enabled' = ~enabled /\ UNCHANGED trigger
     \/ trigger' \in {"on", "off", "gone"} \ {trigger} /\ trigger # "gone" /\ UNCHANGED enabled
  /\ UNCHANGED <<concurrency, failures, runs, recent, missions, starter>>

StarterStep == (\E i \in RunIds : Adopt(i) \/ Claim(i)) \/ SkipRun \/ CreateFails \/ InsertMission \/ Started

AutomationNext ==
  \/ \E k \in EventKeys : Fire(k)
  \/ \E m \in DOMAIN missions : FinalizeMission(m) \/ MissionEnds(m) \/ DeleteMission(m)
  \/ \E i \in RunIds : Adopt(i) \/ Claim(i)
  \/ HourPasses \/ SkipRun \/ RouteUnusable \/ CreateFails \/ InsertMission \/ Started \/ StartLost
  \/ Patch

AutomationSpec == AutomationInit /\ [][AutomationNext]_automationVars

\* The starter runs at boot, on every poll and every kick; the drainer hands
\* every pending event to the dispatcher; a mission ends (MissionDriver).
AutomationFairSpec ==
  /\ AutomationSpec
  /\ WF_automationVars(StarterStep)
  /\ WF_automationVars(\E m \in DOMAIN missions : FinalizeMission(m))
  /\ WF_automationVars(\E m \in DOMAIN missions : MissionEnds(m))

-----------------------------------------------------------------------------
Statuses == Counted \cup {"skipped"}

\* The type invariant of the automation's rows, its missions and the starter.
AutomationTypeOK ==
  /\ concurrency \in Policies /\ enabled \in BOOLEAN /\ failures \in Nat
  /\ trigger \in {"on", "off", "gone"}
  /\ runs \in Seq([key : EventKeys, status : Statuses, attempts : 0..(MaxStartAttempts - 1)])
  /\ recent \subseteq RunIds
  /\ missions \in Seq([run : {0} \cup RunIds, phase : {"live", "done", "failed", "told"}])
  /\ starter \in [run : {0} \cup RunIds, made : BOOLEAN]
  /\ disturbances \in 0..MaxDisturbances /\ interfered \in BOOLEAN

\* No more runs than the concurrency policy allows are starting or running,
\* whether an event, the end of another run or a skipped start put them there
\* (decide and promoteQueued count them under the automation's lock).
ActiveWithinLimit == Cardinality(Active(runs)) <= Limit

\* At most one run waits, and never behind a free slot: queued runs leave only
\* when an active run ends, so a queued run with none active is stranded. Only
\* an edit of the automation or a lost mission can bring that about.
QueueBehindActive ==
  /\ Cardinality(Queued(runs)) <= 1
  /\ Queued(runs) # {} /\ ~interfered => Active(runs) # {}

\* The slots of the automation are neither overfilled nor left empty while a run waits: the
\* dispatcher, the starter and the end of a mission, each counting for itself, agree on them.
SlotsAgree == ActiveWithinLimit /\ QueueBehindActive

\* A run never has two missions, whatever the starter's transaction loses
\* between the creation of the mission and its commit.
OneMissionPerRun == \A i \in RunIds : Cardinality(MissionsOf(i)) <= 1

\* While the automation is disabled no run starts, neither from an event nor
\* from the queue behind a run that ends.
DisabledStartsNothing ==
  [][~enabled => Active(runs') \subseteq Active(runs)]_automationVars

\* A run that is running waits for something: it has a mission whose end has
\* not reached it yet, whatever the starter's transaction lost before the run
\* got there, and however fast the mission ended. Only a deletion can take the
\* mission away and leave the run running for ever.
RunsAwaitMissions ==
  ~interfered =>
    \A i \in InStatus(runs, {"running"}) : \E m \in MissionsOf(i) : missions[m].phase # "told"

\* Every run settles as long as the operator neither edits the automation nor
\* deletes a mission: a started run ends, a queued one starts or is replaced.
RunsSettle ==
  \A i \in 1..Cardinality(EventKeys) :
    i \in RunIds ~> (\/ interfered
                     \/ i \in RunIds /\ runs[i].status \in {"done", "failed", "skipped"})
=============================================================================
