---------------------------- MODULE WorkflowProofs ----------------------------
(***************************************************************************)
(* Proofs about Workflow, for every definition and any number of missions, *)
(* failed calls, restarts and deletions: a mission has one successor, caps *)
(* hold, and the trail is a path of the definition.                        *)
(***************************************************************************)
EXTENDS Workflow, SequenceTheorems, FiniteSetTheorems, WellFoundedInduction, TLAPS

\* The batch: what has been delivered of it, and the delivery in progress.
BatchInv ==
  /\ drain \in [size : Nat, at : Nat \ {0}, failed : SUBSET Nat]
  /\ drain.size = 0 => drain = NoDrain
  /\ \A i \in drain.failed : i < drain.at
  /\ engine \in [pc : EnginePcs, edge : Nat, child : Nat]
  /\ engine.pc # "rest" => Draining /\ drain.at <= drain.size

\* An event is about a mission that has ended.
EndedInv == \A i \in DOMAIN inbox : missions[inbox[i].mission].phase # "live"

\* The first edge that leaves a step on an outcome, and m's step on m's.
FirstEdgeOn(step, o) == Min({e \in DOMAIN Edges : Edges[e].from = step /\ Edges[e].on = o})
FirstEdge(m) == FirstEdgeOn(missions[m].step, missions[m].phase)

\* A mission still linked to its parent was created after it, for the parent's
\* outcome, at the step its first edge leads to; and it is the only one.
LineAt(c) ==
  missions[c].parent # 0 =>
    /\ missions[c].parent \in Rows
    /\ missions[c].parent < c
    /\ missions[missions[c].parent].phase \in Outcomes
    /\ missions[c].step = Edges[FirstEdge(missions[c].parent)].to

LineInv ==
  /\ \A c \in DOMAIN missions : LineAt(c)
  /\ \A c, d \in Rows :
       missions[c].parent = missions[d].parent /\ missions[c].parent # 0 => c = d

\* Unless missions are deleted they form a chain, and all but its last have ended.
ChainInv ==
  /\ deletes \in Nat
  /\ deletes = 0 =>
       \A k \in DOMAIN missions :
         /\ missions[k].phase # "deleted"
         /\ missions[k].parent = k - 1
         /\ k < Len(missions) => missions[k].phase # "live"

\* What a delivery carries from its decision to its record.
EngineInv ==
  engine.pc \in {"spawn", "record", "fail", "end"} =>
    /\ engine.edge \in DOMAIN Edges
    /\ Edges[engine.edge].from = missions[Delivered].step
    /\ Delivered \in Rows => engine.edge = FirstEdge(Delivered)
    /\ engine.pc \in {"spawn", "record"} =>
         /\ Edges[engine.edge].to # End
         /\ ~CapReached(engine.edge)
         /\ ~EdgeTakenFor(Delivered)
    /\ engine.pc = "record" =>
         /\ engine.child \in DOMAIN missions
         /\ engine.child # Delivered
         /\ missions[engine.child].step = Edges[engine.edge].to

\* Where the trail ends.
TrailEnd == IF trail = <<>> THEN Entry ELSE Edges[trail[Len(trail)].edge].to

\* The starter works for a run without rows, and it goes for the run's step.
StarterInv ==
  /\ run.status = "none" => run.step = Entry /\ missions = <<>>
  /\ starter.pc = "entry" => Rows = {} /\ run.status # "none"

\* As long as fewer than two missions are deleted.
PathInv ==
  deletes <= 1 =>
    /\ \A m, n \in DOMAIN missions \ Rows : m = n /\ deletes = 1
    /\ run.step # End => run.step = TrailEnd
    /\ starter.pc = "entry" => starter.step = TrailEnd /\ engine.pc # "record"
    /\ engine.pc \in {"spawn", "record", "fail", "end"} => Edges[engine.edge].from = run.step
    /\ \A i \in DOMAIN trail :
         Edges[trail[i].edge].from = IF i = 1 THEN Entry ELSE Edges[trail[i - 1].edge].to

RunInv == run.status = "running" => run.step # End

TrailInv ==
  /\ \A e \in DOMAIN Edges : Firings(e) <= Edges[e].max
  /\ \A i, j \in DOMAIN trail : trail[i].mission = trail[j].mission => i = j
  /\ \A i \in DOMAIN trail :
       /\ Edges[trail[i].edge].from = missions[trail[i].mission].step
       /\ Edges[trail[i].edge].to = missions[trail[i].child].step

IInv ==
  /\ TypeOK /\ BatchInv /\ EndedInv /\ LineInv /\ ChainInv
  /\ EngineInv /\ StarterInv /\ PathInv /\ RunInv /\ TrailInv

-----------------------------------------------------------------------------
(* Helpers. *)

\* A set of naturals with an element has a least one.
LEMMA MinIn ==
  ASSUME NEW S \in SUBSET Nat, S # {}
  PROVE  /\ Min(S) \in S
         /\ \A x \in S : Min(S) <= x
<1>1. PICK x \in S : \A y \in S : ~(<<y, x>> \in OpToRel(<, Nat))
  BY NatLessThanWellFounded, WFMin
<1>2. ASSUME NEW y \in S PROVE x <= y
  <2>1. x \in Nat /\ y \in Nat
    OBVIOUS
  <2>2. ~(y < x)
    BY <1>1, <2>1 DEF OpToRel
  <2> QED BY <2>1, <2>2
<1> QED BY <1>2 DEF Min

LEMMA MinOne ==
  ASSUME NEW x \in Nat
  PROVE  Min({x}) = x
BY MinIn

\* A finite set of n numbers has a k-th one, for each k up to n.
LEMMA NthIn ==
  ASSUME NEW S \in SUBSET Nat, IsFiniteSet(S), NEW k \in 1..Cardinality(S)
  PROVE  Nth(S, k) \in S
<1> DEFINE Below(i) == {j \in S : j < i}
           Ranked(n) == \E i \in S : Cardinality(Below(i)) = n
           Missing == {n \in 0..(Cardinality(S) - 1) : ~Ranked(n)}
<1>0. Cardinality(S) \in Nat
  BY FS_CardinalityType
<1>1. SUFFICES ASSUME Missing # {} PROVE FALSE
  <2>1. k - 1 \in 0..(Cardinality(S) - 1)
    BY <1>0
  <2>2. CASE Ranked(k - 1)
    BY <2>2 DEF Nth
  <2> QED BY <2>1, <2>2
<1>2. PICK n \in Missing : \A m \in Missing : n <= m
  <2>1. Missing \in SUBSET Nat
    BY <1>0
  <2> HIDE DEF Missing
  <2> QED BY <1>1, <2>1, MinIn
<1>3. CASE n = 0
  <2>1. S # {}
    BY <1>0, <1>2, FS_EmptySet
  <2>2. Below(Min(S)) = {}
    <3> DEFINE r == Min(S)
    <3>1. r \in Nat /\ \A x \in S : x \in Nat /\ r <= x
      BY <2>1, MinIn
    <3> HIDE DEF r
    <3>2. \A x \in S : ~(x < r)
      BY <3>1
    <3>3. {j \in S : j < r} = {}
      BY <3>2
    <3> QED BY <3>3 DEF r
  <2> QED BY <1>2, <1>3, <2>1, <2>2, MinIn, FS_EmptySet
<1>4. CASE n # 0
  <2>1. n - 1 \in 0..(Cardinality(S) - 1) /\ n - 1 \notin Missing /\ n \in Nat
    BY <1>0, <1>2, <1>4
  <2>2. PICK i \in S : Cardinality(Below(i)) = n - 1
    BY <2>1
  <2> DEFINE upto == Below(i) \cup {i}
             rest == S \ upto
  <2>3. IsFiniteSet(upto) /\ Cardinality(upto) = n
    <3>1. IsFiniteSet(Below(i)) /\ i \notin Below(i)
      BY FS_Subset
    <3> HIDE DEF Below
    <3> QED BY <2>1, <2>2, <3>1, FS_AddElement
  <2>4. rest # {}
    <3>1. upto # S
      BY <1>0, <1>2, <2>3
    <3> QED BY <3>1
  <2>5. Min(rest) \in rest /\ \A x \in rest : Min(rest) <= x
    BY <2>4, MinIn
  <2>6. Below(Min(rest)) = upto
    <3> DEFINE r == Min(rest)
    <3>1. r \in Nat /\ r \in S /\ i \in Nat /\ ~(r < i) /\ r # i
      BY <2>5
    <3>2. \A x \in S : x \in Nat /\ (x \notin upto => r <= x)
      BY <2>5
    <3>3. \A x \in upto : x \in S /\ x <= i
      OBVIOUS
    <3> HIDE DEF r
    <3>4. \A x \in S : x < r => x \in upto
      BY <3>1, <3>2
    <3>5. \A x \in upto : x \in S /\ x < r
      BY <3>1, <3>2, <3>3
    <3>6. {j \in S : j < r} = upto
      BY <3>4, <3>5
    <3> QED BY <3>6 DEF r
  <2> QED BY <1>2, <2>3, <2>5, <2>6
<1> QED BY <1>3, <1>4

LEMMA AtMostOne ==
  ASSUME NEW S, \A x, y \in S : x = y
  PROVE  Cardinality(S) <= 1
<1>1. CASE S = {}
  BY <1>1, FS_EmptySet
<1>2. CASE S # {}
  <2>1. PICK x \in S : TRUE
    BY <1>2
  <2>2. S = {x}
    BY <2>1
  <2> QED BY <2>2, FS_Singleton
<1> QED BY <1>1, <1>2

\* The constants.
LEMMA WorkflowConstants ==
  /\ Entry \in Steps /\ End \notin Steps
  /\ Len(Edges) \in Nat /\ DOMAIN Edges = 1..Len(Edges)
  /\ \A e \in DOMAIN Edges :
       /\ Edges[e].from \in Steps
       /\ Edges[e].to \in Steps \cup {End}
       /\ Edges[e].max \in Nat /\ Edges[e].max >= 1
  /\ MaxAttempts \in Nat /\ MaxAttempts >= 1
<1>1. Edges \in Seq([from : Steps, on : Outcomes, to : Steps \cup {End}, max : 1..MaxIterations])
  BY WorkflowAssumption
<1>2. Len(Edges) \in Nat /\ Edges \in [1..Len(Edges) -> [from : Steps, on : Outcomes, to : Steps \cup {End}, max : 1..MaxIterations]]
  BY <1>1, LenProperties
<1> QED BY <1>2, WorkflowAssumption DEF MaxIterations

-----------------------------------------------------------------------------
(* What a step does to the missions. *)

MissionRow == [step : Steps, parent : Nat, phase : {"live", "deleted"} \cup Outcomes]
Taken == [edge : DOMAIN Edges, mission : DOMAIN missions, child : DOMAIN missions]
Pending == [mission : DOMAIN missions, attempts : 0..MaxAttempts - 1]

LEMMA Sequences ==
  ASSUME TypeOK
  PROVE  /\ missions \in Seq(MissionRow) /\ Len(missions) \in Nat
         /\ DOMAIN missions = 1..Len(missions)
         /\ \A m \in DOMAIN missions : missions[m] \in MissionRow
         /\ trail \in Seq(Taken) /\ Len(trail) \in Nat
         /\ DOMAIN trail = 1..Len(trail)
         /\ \A i \in DOMAIN trail : trail[i] \in Taken
         /\ inbox \in Seq(Pending) /\ Len(inbox) \in Nat
         /\ DOMAIN inbox = 1..Len(inbox)
         /\ \A i \in DOMAIN inbox : inbox[i] \in Pending
<1>1. missions \in Seq(MissionRow) /\ trail \in Seq(Taken) /\ inbox \in Seq(Pending)
  BY DEF TypeOK, MissionRow, Taken, Pending
<1>2. Len(missions) \in Nat /\ missions \in [1..Len(missions) -> MissionRow]
  BY <1>1, LenProperties
<1>3. Len(trail) \in Nat /\ trail \in [1..Len(trail) -> Taken]
  BY <1>1, LenProperties
<1>4. Len(inbox) \in Nat /\ inbox \in [1..Len(inbox) -> Pending]
  BY <1>1, LenProperties
<1> QED BY <1>1, <1>2, <1>3, <1>4

\* The delivery under way is about an ended mission.
LEMMA DeliveredEnded ==
  ASSUME TypeOK, BatchInv, EndedInv, engine.pc # "rest" \/ (Draining /\ drain.at <= drain.size)
  PROVE  /\ drain.at \in DOMAIN inbox
         /\ Delivered \in DOMAIN missions
         /\ missions[Delivered].phase # "live"
<1>1. drain.size \in 0..Len(inbox) /\ drain.at \in Nat \ {0} /\ drain.at <= drain.size
  BY DEF TypeOK, BatchInv
<1>2. drain.at \in DOMAIN inbox
  BY <1>1, Sequences
<1>3. inbox[drain.at] \in Pending
  BY <1>2, Sequences
<1> QED BY <1>2, <1>3 DEF EndedInv, Delivered, Pending

\* Insert appends a live row.
Added(step, p) ==
  missions' = Append(missions, [step |-> step, parent |-> p, phase |-> "live"])

LEMMA AddedEffect ==
  ASSUME TypeOK, NEW step \in Steps, NEW p \in Nat, Added(step, p)
  PROVE  LET new == Len(missions) + 1
         IN  /\ missions' \in Seq(MissionRow)
             /\ new \notin DOMAIN missions
             /\ DOMAIN missions' = DOMAIN missions \cup {new}
             /\ Len(missions') = new
             /\ \A m \in DOMAIN missions : missions'[m] = missions[m]
             /\ missions'[new] = [step |-> step, parent |-> p, phase |-> "live"]
             /\ Rows' = Rows \cup {new}
<1> DEFINE new == Len(missions) + 1
           row == [step |-> step, parent |-> p, phase |-> "live"]
<1>1. row \in MissionRow
  BY DEF MissionRow
<1>2. missions \in Seq(MissionRow) /\ Len(missions) \in Nat /\ DOMAIN missions = 1..Len(missions)
  BY Sequences
<1>3. missions' = Append(missions, row)
  BY DEF Added
<1> HIDE DEF row
<1>4. /\ missions' \in Seq(MissionRow) /\ Len(missions') = new
      /\ \A m \in 1..Len(missions) : missions'[m] = missions[m]
      /\ missions'[new] = row
  BY <1>1, <1>2, <1>3, AppendProperties
<1>5. DOMAIN missions' = 1..new
  BY <1>4, LenProperties
<1>6. DOMAIN missions' = DOMAIN missions \cup {new} /\ new \notin DOMAIN missions
  BY <1>2, <1>5
<1>7. row.phase # "deleted"
  BY DEF row
<1>8. Rows' = Rows \cup {new}
  BY <1>2, <1>4, <1>6, <1>7 DEF Rows
<1> QED BY <1>2, <1>4, <1>6, <1>8 DEF row

\* A mission ends.
LEMMA EndsEffect ==
  ASSUME TypeOK, NEW m \in DOMAIN missions, MissionEnds(m)
  PROVE  /\ missions' \in Seq(MissionRow)
         /\ DOMAIN missions' = DOMAIN missions /\ Len(missions') = Len(missions)
         /\ \A c \in DOMAIN missions :
              /\ missions'[c].step = missions[c].step
              /\ missions'[c].parent = missions[c].parent
              /\ c # m => missions'[c].phase = missions[c].phase
         /\ missions[m].phase = "live" /\ missions'[m].phase \in Outcomes
         /\ Rows' = Rows
<1>1. PICK o \in Outcomes : missions' = [missions EXCEPT ![m].phase = o]
  BY DEF MissionEnds
<1>2. missions \in [1..Len(missions) -> MissionRow] /\ Len(missions) \in Nat
  BY Sequences, LenProperties
<1>3. missions' \in [1..Len(missions) -> MissionRow]
  BY <1>1, <1>2 DEF MissionRow
<1>4. missions' \in Seq(MissionRow) /\ Len(missions') = Len(missions) /\ DOMAIN missions' = DOMAIN missions
  BY <1>2, <1>3
<1>5. \A c \in DOMAIN missions :
        missions'[c] = IF c = m THEN [missions[c] EXCEPT !.phase = o] ELSE missions[c]
  BY <1>1, <1>2
<1>6. \A c \in DOMAIN missions : missions[c] \in MissionRow
  BY <1>2
<1>7. missions[m].phase = "live" /\ o # "deleted" /\ o # "live"
  BY DEF MissionEnds, Outcomes
<1>8. \A c \in DOMAIN missions :
              /\ missions'[c].step = missions[c].step
              /\ missions'[c].parent = missions[c].parent
              /\ c # m => missions'[c].phase = missions[c].phase
  BY <1>5, <1>6 DEF MissionRow
<1>9. missions'[m].phase = o
  BY <1>5, <1>6 DEF MissionRow
<1>10. Rows' = Rows
  BY <1>4, <1>7, <1>8, <1>9 DEF Rows
<1> QED BY <1>4, <1>7, <1>8, <1>9, <1>10

\* A mission is deleted.
LEMMA DeletedEffect ==
  ASSUME TypeOK, NEW m \in DOMAIN missions, DeleteMission(m)
  PROVE  /\ missions' \in Seq(MissionRow)
         /\ DOMAIN missions' = DOMAIN missions /\ Len(missions') = Len(missions)
         /\ \A c \in DOMAIN missions :
              /\ missions'[c].step = missions[c].step
              /\ c # m => missions'[c].phase = missions[c].phase
              /\ missions'[c].parent = IF c # m /\ missions[c].parent = m THEN 0 ELSE missions[c].parent
         /\ missions[m].phase \in Outcomes /\ missions'[m].phase = "deleted"
         /\ m \in Rows /\ Rows' = Rows \ {m}
<1>1. missions' = [c \in DOMAIN missions |->
       IF c = m THEN [missions[c] EXCEPT !.phase = "deleted"]
       ELSE IF missions[c].parent = m THEN [missions[c] EXCEPT !.parent = 0]
       ELSE missions[c]]
  BY DEF DeleteMission
<1>2. missions \in [1..Len(missions) -> MissionRow] /\ Len(missions) \in Nat
  BY Sequences, LenProperties
<1>3. missions' \in [1..Len(missions) -> MissionRow]
  BY <1>1, <1>2 DEF MissionRow
<1>4. missions' \in Seq(MissionRow) /\ Len(missions') = Len(missions) /\ DOMAIN missions' = DOMAIN missions
  BY <1>2, <1>3
<1>5. \A c \in DOMAIN missions : missions[c] \in MissionRow
  BY <1>2
<1>6. missions[m].phase \in Outcomes
  BY DEF DeleteMission
<1>7. \A c \in DOMAIN missions :
              /\ missions'[c].step = missions[c].step
              /\ missions'[c].phase = IF c = m THEN "deleted" ELSE missions[c].phase
              /\ missions'[c].parent = IF c # m /\ missions[c].parent = m THEN 0 ELSE missions[c].parent
  BY <1>1, <1>5 DEF MissionRow
<1>8. "deleted" \notin Outcomes
  BY DEF Outcomes
<1>9. m \in Rows /\ Rows' = Rows \ {m}
  BY <1>4, <1>6, <1>7, <1>8 DEF Rows
<1> QED BY <1>4, <1>6, <1>7, <1>9

\* The steps that touch the missions, with what they find.
EntrySpawned ==
  /\ starter.pc = "entry" /\ ChildrenOf(0) = {}
  /\ Added(starter.step, 0)
  /\ starter'.pc # "entry"
  /\ UNCHANGED <<trail, inbox, drain, engine, deletes>>

StepSpawned ==
  /\ engine.pc = "spawn" /\ Delivered \in Rows /\ ChildrenOf(Delivered) = {}
  /\ Added(Edges[engine.edge].to, Delivered)
  /\ \/ engine' = [engine EXCEPT !.pc = "record", !.child = Len(missions')]
     \/ engine' = [engine EXCEPT !.pc = "pause"]
  /\ UNCHANGED <<trail, inbox, drain, starter, deletes>>

MissionsMove ==
  \/ UNCHANGED <<missions, deletes>>
  \/ EntrySpawned
  \/ StepSpawned
  \/ \E m \in DOMAIN missions : MissionEnds(m) \/ DeleteMission(m)

LEMMA MissionsMoves ==
  ASSUME TypeOK, [Next]_vars
  PROVE  MissionsMove
<1>1. CASE StartRun \/ ProvisionEntry \/ PauseEntry \/ Recover \/ Claim \/ Settle \/ Commit \/ Crash
  BY <1>1 DEF MissionsMove, StartRun, ProvisionEntry, PauseEntry, Recover, Claim, Settle, Commit, Crash
<1>2. CASE Deliver \/ Record \/ PauseRun \/ FailRun \/ EndRun
  BY <1>2 DEF MissionsMove, Deliver, Record, PauseRun, FailRun, EndRun, Transition
<1>3. CASE SpawnEntry
  <2>1. CASE UNCHANGED missions
    BY <1>3, <2>1 DEF MissionsMove, SpawnEntry
  <2>2. CASE missions' # missions
    <3>1. starter.pc = "entry" /\ UNCHANGED <<trail, inbox, drain, engine, deletes>>
      BY <1>3 DEF SpawnEntry
    <3>2. WorkflowChild(0) = {} /\ Insert(starter.step, 0) /\ starter' = [starter EXCEPT !.pc = "provision"]
      BY <1>3, <2>2 DEF SpawnEntry
    <3>3. starter'.pc # "entry"
      BY <3>2 DEF TypeOK
    <3> QED BY <3>1, <3>2, <3>3 DEF MissionsMove, EntrySpawned, WorkflowChild, Insert, Added
  <2> QED BY <2>1, <2>2
<1>4. CASE Spawn
  <2>1. CASE UNCHANGED missions
    BY <1>4, <2>1 DEF MissionsMove, Spawn
  <2>2. CASE missions' # missions
    <3>1. engine.pc = "spawn" /\ UNCHANGED <<trail, inbox, drain, starter, deletes>>
      BY <1>4 DEF Spawn
    <3>2. /\ WorkflowChild(Delivered) = {} /\ Delivered \in Rows
          /\ Insert(Edges[engine.edge].to, Delivered)
          /\ \/ engine' = [engine EXCEPT !.pc = "record", !.child = Len(missions')]
             \/ engine' = [engine EXCEPT !.pc = "pause"]
      BY <1>4, <2>2 DEF Spawn
    <3> QED BY <3>1, <3>2 DEF MissionsMove, StepSpawned, WorkflowChild, Insert, Added
  <2> QED BY <2>1, <2>2
<1>5. CASE \E m \in DOMAIN missions : MissionEnds(m) \/ DeleteMission(m)
  BY <1>5 DEF MissionsMove
<1>6. CASE UNCHANGED vars
  BY <1>6 DEF MissionsMove, vars
<1> QED BY <1>1, <1>2, <1>3, <1>4, <1>5, <1>6 DEF Next, StarterStep, DrainStep, EngineStep

\* A row that is added has the step of the definition it is for.
LEMMA SpawnedTypes ==
  ASSUME IInv
  PROVE  /\ starter.step \in Steps
         /\ engine.pc = "spawn" =>
              Edges[engine.edge].to \in Steps /\ Delivered \in DOMAIN missions /\ Delivered \in Nat
<1>1. TypeOK /\ BatchInv /\ EndedInv /\ EngineInv
  BY DEF IInv
<1>2. starter.step \in Steps
  BY <1>1 DEF TypeOK
<1>3. ASSUME engine.pc = "spawn"
      PROVE  Edges[engine.edge].to \in Steps /\ Delivered \in DOMAIN missions /\ Delivered \in Nat
  <2>1. engine.edge \in DOMAIN Edges /\ Edges[engine.edge].to # End
    BY <1>1, <1>3 DEF EngineInv
  <2>2. Delivered \in DOMAIN missions
    BY <1>1, <1>3, DeliveredEnded
  <2> QED BY <1>1, <2>1, <2>2, WorkflowConstants, Sequences
<1> QED BY <1>2, <1>3

\* Missions are only added; they keep their step, and what has ended stays so.
LEMMA MissionsGrow ==
  ASSUME IInv, [Next]_vars
  PROVE  /\ missions' \in Seq(MissionRow)
         /\ DOMAIN missions \subseteq DOMAIN missions'
         /\ \A m \in DOMAIN missions :
              /\ missions'[m].step = missions[m].step
              /\ missions[m].phase # "live" => missions'[m].phase # "live"
<1>1. TypeOK /\ MissionsMove
  BY MissionsMoves DEF IInv
<1>2. missions \in Seq(MissionRow)
  BY <1>1, Sequences
<1>3. CASE UNCHANGED <<missions, deletes>>
  BY <1>2, <1>3
<1>4. CASE EntrySpawned
  BY <1>1, <1>4, SpawnedTypes, AddedEffect DEF EntrySpawned
<1>5. CASE StepSpawned
  BY <1>1, <1>5, SpawnedTypes, AddedEffect DEF StepSpawned
<1>6. ASSUME NEW m \in DOMAIN missions, MissionEnds(m)
      PROVE  /\ missions' \in Seq(MissionRow)
             /\ DOMAIN missions \subseteq DOMAIN missions'
             /\ \A c \in DOMAIN missions :
                  /\ missions'[c].step = missions[c].step
                  /\ missions[c].phase # "live" => missions'[c].phase # "live"
  BY <1>1, <1>6, EndsEffect
<1>7. ASSUME NEW m \in DOMAIN missions, DeleteMission(m)
      PROVE  /\ missions' \in Seq(MissionRow)
             /\ DOMAIN missions \subseteq DOMAIN missions'
             /\ \A c \in DOMAIN missions :
                  /\ missions'[c].step = missions[c].step
                  /\ missions[c].phase # "live" => missions'[c].phase # "live"
  <2>1. "deleted" # "live"
    OBVIOUS
  <2> QED BY <1>1, <1>7, <2>1, DeletedEffect
<1> QED BY <1>1, <1>3, <1>4, <1>5, <1>6, <1>7 DEF MissionsMove

-----------------------------------------------------------------------------
(* Types. *)

LEMMA SeqWider ==
  ASSUME NEW A, NEW B, A \subseteq B, NEW s \in Seq(A)
  PROVE  s \in Seq(B)
<1>1. Len(s) \in Nat /\ s \in [1..Len(s) -> A]
  BY LenProperties
<1> QED BY <1>1

\* What is left of a batch: pending events about missions of the inbox.
LEMMA KeptType ==
  ASSUME TypeOK
  PROVE  /\ Kept \in Seq(Pending)
         /\ \A k \in DOMAIN Kept : \E i \in DOMAIN inbox : Kept[k].mission = inbox[i].mission
<1>1. drain.failed \subseteq 1..drain.size /\ drain.size \in 0..Len(inbox)
  BY DEF TypeOK
<1>2. DOMAIN inbox = 1..Len(inbox) /\ Len(inbox) \in Nat /\ \A i \in DOMAIN inbox : inbox[i] \in Pending
  BY Sequences
<1>3. Retried \subseteq DOMAIN inbox /\ Retried \in SUBSET Nat
  BY <1>1, <1>2 DEF Retried
<1>4. IsFiniteSet(Retried) /\ Cardinality(Retried) \in Nat
  <2>1. IsFiniteSet(1..Len(inbox))
    BY <1>2, FS_Interval
  <2>2. IsFiniteSet(Retried)
    BY <1>2, <1>3, <2>1, FS_Subset
  <2> QED BY <2>2, FS_CardinalityType
<1>5. \A k \in 1..Cardinality(Retried) : Nth(Retried, k) \in Retried
  BY <1>3, <1>4, NthIn
<1>6. ASSUME NEW i \in Retried
      PROVE  /\ [inbox[i] EXCEPT !.attempts = @ + 1] \in Pending
             /\ [inbox[i] EXCEPT !.attempts = @ + 1].mission = inbox[i].mission
  <2>1. inbox[i] \in Pending /\ inbox[i].attempts + 1 < MaxAttempts
    BY <1>2, <1>3 DEF Retried
  <2> QED BY <2>1, WorkflowConstants DEF Pending
<1>7. Kept \in [1..Cardinality(Retried) -> Pending]
  BY <1>5, <1>6 DEF Kept
<1>8. Kept \in Seq(Pending)
  BY <1>4, <1>7
<1>9. \A k \in DOMAIN Kept : Kept[k].mission = inbox[Nth(Retried, k)].mission /\ Nth(Retried, k) \in DOMAIN inbox
  BY <1>3, <1>5, <1>6 DEF Kept
<1> QED BY <1>8, <1>9

LEMMA RunType ==
  ASSUME IInv, [Next]_vars
  PROVE  /\ run' \in [status : {"none", "running", "paused", "failed", "done"}, step : Steps \cup {End}]
         /\ starter' \in [pc : {"none", "entry", "provision", "pause"}, step : Steps]
<1> USE WorkflowConstants
<1>0. TypeOK /\ EngineInv /\ RunInv
  BY DEF IInv
<1>1. /\ run \in [status : {"none", "running", "paused", "failed", "done"}, step : Steps \cup {End}]
      /\ starter \in [pc : {"none", "entry", "provision", "pause"}, step : Steps]
  BY <1>0 DEF TypeOK
<1>2. engine.pc \in {"spawn", "record", "fail", "end"} => engine.edge \in DOMAIN Edges
  BY <1>0 DEF EngineInv
<1>3. CASE StartRun \/ ProvisionEntry \/ PauseEntry
  BY <1>1, <1>3 DEF StartRun, ProvisionEntry, PauseEntry, Running, Paused, Idle
<1>4. CASE SpawnEntry
  BY <1>1, <1>4 DEF SpawnEntry, Warn, Running, Idle
<1>5. CASE Recover
  <2>1. run.status = "running" => run.step \in Steps
    BY <1>0, <1>1 DEF RunInv
  <2> QED BY <1>1, <1>5, <2>1 DEF Recover, Entryless
<1>6. CASE \E m \in DOMAIN missions : MissionEnds(m) \/ DeleteMission(m)
  BY <1>1, <1>6 DEF MissionEnds, DeleteMission
<1>7. CASE Claim \/ Deliver \/ Settle \/ Commit
  BY <1>1, <1>7 DEF Claim, Deliver, Settle, Commit
<1>13. CASE Crash
  BY <1>1, <1>13 DEF Crash, Idle
<1>8. CASE Spawn
  BY <1>1, <1>2, <1>8 DEF Spawn, Warn, Running
<1>9. CASE Record
  BY <1>1, <1>2, <1>9 DEF Record, Transition, Running
<1>10. CASE PauseRun
  BY <1>1, <1>10 DEF PauseRun, Transition, Paused
<1>11. CASE FailRun \/ EndRun
  BY <1>1, <1>2, <1>11 DEF FailRun, EndRun, Transition
<1>12. CASE UNCHANGED vars
  BY <1>1, <1>12 DEF vars
<1> QED BY <1>3, <1>4, <1>5, <1>6, <1>7, <1>8, <1>9, <1>10, <1>11, <1>12, <1>13
        DEF Next, StarterStep, DrainStep, EngineStep

LEMMA BootingType ==
  ASSUME IInv, [Next]_vars
  PROVE  booting' \in BOOLEAN
<1>1. booting' \in {booting, TRUE, FALSE}
  BY DEF Next, StarterStep, DrainStep, EngineStep, vars, StartRun, SpawnEntry, ProvisionEntry, PauseEntry,
         Recover, MissionEnds, DeleteMission, Claim, Deliver, Spawn, Record, PauseRun, FailRun, EndRun,
         Transition, Settle, Commit, Crash
<1> QED BY <1>1 DEF IInv, TypeOK

\* Only Record lengthens the trail, by an edge that is not at its cap.
TrailGrows ==
  /\ engine.pc = "record"
  /\ trail' = Append(trail, [edge |-> engine.edge, mission |-> Delivered, child |-> engine.child])
  /\ run' = Running(Edges[engine.edge].to)
  /\ engine'.pc \in {"ok", "error"}
  /\ UNCHANGED <<missions, inbox, drain, starter, deletes>>

LEMMA TrailMoves ==
  ASSUME IInv, [Next]_vars
  PROVE  UNCHANGED trail \/ TrailGrows
<1>0. TypeOK
  BY DEF IInv
<1>1. CASE StartRun \/ SpawnEntry \/ ProvisionEntry \/ PauseEntry \/ Recover \/ Claim \/ Deliver \/ Spawn \/ Settle \/ Commit \/ Crash
  BY <1>1 DEF StartRun, SpawnEntry, ProvisionEntry, PauseEntry, Recover, Claim, Deliver, Spawn, Settle, Commit, Crash
<1>2. CASE \E m \in DOMAIN missions : MissionEnds(m) \/ DeleteMission(m)
  BY <1>2 DEF MissionEnds, DeleteMission
<1>3. CASE PauseRun \/ FailRun \/ EndRun
  <2>1. trail \o <<>> = trail
    BY <1>0, Sequences, ConcatEmptySeq
  <2> QED BY <1>3, <2>1 DEF PauseRun, FailRun, EndRun, Transition
<1>4. CASE Record
  <2> DEFINE new == [edge |-> engine.edge, mission |-> Delivered, child |-> engine.child]
  <2>1. trail \o <<new>> = Append(trail, new)
    <3>1. engine.edge \in DOMAIN Edges /\ Delivered \in DOMAIN missions /\ engine.child \in DOMAIN missions
      BY <1>0, <1>4, DeliveredEnded DEF IInv, EngineInv, Record
    <3>2. new \in Taken /\ trail \in Seq(Taken)
      BY <1>0, <3>1, Sequences DEF Taken
    <3> QED BY <3>2, AppendIsConcat
  <2>2. engine \in [pc : EnginePcs, edge : Nat, child : Nat]
    BY DEF IInv, BatchInv
  <2>3. engine.pc = "record" /\ UNCHANGED <<missions, inbox, drain, starter, deletes>>
    BY <1>4 DEF Record, Transition
  <2>4. \/ UNCHANGED trail
        \/ /\ trail' = trail \o <<new>> /\ run' = Running(Edges[engine.edge].to)
           /\ engine' \in {[engine EXCEPT !.pc = "ok"], [engine EXCEPT !.pc = "error"]}
    BY <1>4 DEF Record, Transition
  <2> QED BY <2>1, <2>2, <2>3, <2>4 DEF TrailGrows
<1>5. CASE UNCHANGED vars
  BY <1>5 DEF vars
<1> QED BY <1>1, <1>2, <1>3, <1>4, <1>5 DEF Next, StarterStep, DrainStep, EngineStep

LEMMA TrailType ==
  ASSUME IInv, [Next]_vars
  PROVE  trail' \in Seq([edge : DOMAIN Edges, mission : DOMAIN missions', child : DOMAIN missions'])
<1>1. TypeOK /\ EngineInv /\ trail \in Seq(Taken)
  BY Sequences DEF IInv
<1>2. DOMAIN missions \subseteq DOMAIN missions'
  BY MissionsGrow
<1>3. Taken \subseteq [edge : DOMAIN Edges, mission : DOMAIN missions', child : DOMAIN missions']
  BY <1>2 DEF Taken
<1>4. CASE UNCHANGED trail
  BY <1>1, <1>3, <1>4, SeqWider
<1>5. CASE TrailGrows
  <2> DEFINE new == [edge |-> engine.edge, mission |-> Delivered, child |-> engine.child]
  <2>1. engine.edge \in DOMAIN Edges /\ Delivered \in DOMAIN missions /\ engine.child \in DOMAIN missions
    BY <1>1, <1>5, DeliveredEnded DEF IInv, EngineInv, TrailGrows
  <2>2. new \in Taken
    BY <2>1 DEF Taken
  <2>3. trail' = Append(trail, new)
    BY <1>5 DEF TrailGrows
  <2>4. trail' \in Seq(Taken)
    BY <1>1, <2>2, <2>3, AppendProperties
  <2> QED BY <1>3, <2>4, SeqWider
<1> QED BY <1>4, <1>5, TrailMoves

\* The inbox grows by an ended mission, or loses what a batch has settled.
Recommitted ==
  /\ drain' = NoDrain
  /\ inbox' = Kept \o SubSeq(inbox, drain.size + 1, Len(inbox))
  /\ UNCHANGED <<missions, engine>>

LEMMA InboxMoves ==
  ASSUME [Next]_vars
  PROVE  \/ UNCHANGED inbox
         \/ \E m \in DOMAIN missions : MissionEnds(m)
         \/ Recommitted
<1>1. CASE StartRun \/ StarterStep \/ Recover \/ Claim \/ EngineStep \/ Settle \/ Crash
  BY <1>1 DEF StarterStep, EngineStep, StartRun, SpawnEntry, ProvisionEntry, PauseEntry, Recover, Claim, Deliver,
              Spawn, Record, PauseRun, FailRun, EndRun, Transition, Settle, Crash
<1>2. CASE \E m \in DOMAIN missions : MissionEnds(m) \/ DeleteMission(m)
  BY <1>2 DEF DeleteMission
<1>3. CASE Commit
  BY <1>3 DEF Commit, Recommitted
<1>4. CASE UNCHANGED vars
  BY <1>4 DEF vars
<1> QED BY <1>1, <1>2, <1>3, <1>4 DEF Next, DrainStep

LEMMA RecommittedEffect ==
  ASSUME TypeOK, Recommitted
  PROVE  /\ inbox' \in Seq(Pending)
         /\ \A k \in DOMAIN inbox' : \E i \in DOMAIN inbox : inbox'[k].mission = inbox[i].mission
<1> DEFINE rest == SubSeq(inbox, drain.size + 1, Len(inbox))
<1>1. DOMAIN inbox = 1..Len(inbox) /\ Len(inbox) \in Nat /\ \A i \in DOMAIN inbox : inbox[i] \in Pending
  BY Sequences
<1>2. drain.size \in 0..Len(inbox)
  BY DEF TypeOK
<1>3. \A i \in (drain.size + 1)..Len(inbox) : inbox[i] \in Pending
  BY <1>1, <1>2
<1>4. /\ rest \in Seq(Pending)
      /\ Len(rest) = IF drain.size + 1 <= Len(inbox) THEN Len(inbox) - (drain.size + 1) + 1 ELSE 0
      /\ \A i \in 1..Len(inbox) - (drain.size + 1) + 1 : rest[i] = inbox[(drain.size + 1) + i - 1]
  BY <1>1, <1>2, <1>3, SubSeqProperties
<1> HIDE DEF rest
<1>5. Kept \in Seq(Pending) /\ Len(Kept) \in Nat /\ DOMAIN Kept = 1..Len(Kept)
  BY KeptType, LenProperties
<1>6. Len(rest) = Len(inbox) - drain.size /\ Len(rest) \in Nat
  BY <1>1, <1>2, <1>4
<1>7. /\ Kept \o rest \in Seq(Pending) /\ Len(Kept \o rest) = Len(Kept) + Len(rest)
      /\ \A k \in 1..Len(Kept) + Len(rest) :
           (Kept \o rest)[k] = IF k <= Len(Kept) THEN Kept[k] ELSE rest[k - Len(Kept)]
  BY <1>4, <1>5, ConcatProperties
<1>8. inbox' = Kept \o rest
  BY DEF Recommitted, rest
<1>9. DOMAIN inbox' = 1..Len(Kept) + Len(rest)
  BY <1>7, <1>8, LenProperties
<1>10. ASSUME NEW k \in DOMAIN inbox'
       PROVE  \E i \in DOMAIN inbox : inbox'[k].mission = inbox[i].mission
  <2>1. k \in 1..Len(Kept) + Len(rest)
    BY <1>9
  <2>2. CASE k <= Len(Kept)
    <3>1. inbox'[k] = Kept[k] /\ k \in DOMAIN Kept
      BY <1>5, <1>6, <1>7, <1>8, <2>1, <2>2
    <3> QED BY <3>1, KeptType
  <2>3. CASE ~(k <= Len(Kept))
    <3>1. inbox'[k] = rest[k - Len(Kept)] /\ k - Len(Kept) \in 1..Len(rest)
      BY <1>5, <1>6, <1>7, <1>8, <2>1, <2>3
    <3>2. rest[k - Len(Kept)] = inbox[drain.size + (k - Len(Kept))]
      <4> DEFINE j == k - Len(Kept)
      <4>1. j \in 1..Len(rest)
        BY <3>1
      <4> HIDE DEF j
      <4>2. j \in 1..Len(inbox) - (drain.size + 1) + 1 /\ (drain.size + 1) + j - 1 = drain.size + j
        BY <1>1, <1>2, <1>6, <4>1
      <4>3. rest[j] = inbox[drain.size + j]
        BY <1>4, <4>2
      <4> QED BY <4>3 DEF j
    <3>3. drain.size + (k - Len(Kept)) \in DOMAIN inbox
      BY <1>1, <1>2, <1>6, <3>1
    <3> QED BY <3>1, <3>2, <3>3
  <2> QED BY <2>2, <2>3
<1> QED BY <1>7, <1>8, <1>10

LEMMA InboxGrows ==
  ASSUME TypeOK, NEW m \in DOMAIN missions, MissionEnds(m)
  PROVE  /\ inbox' \in Seq(Pending)
         /\ Len(inbox') = Len(inbox) + 1
         /\ DOMAIN inbox' = DOMAIN inbox \cup {Len(inbox) + 1}
         /\ \A i \in DOMAIN inbox : inbox'[i] = inbox[i]
         /\ inbox'[Len(inbox) + 1].mission = m
<1> DEFINE event == [mission |-> m, attempts |-> 0]
<1>1. event \in Pending /\ event.mission = m
  BY WorkflowConstants DEF Pending
<1>2. inbox' = Append(inbox, event)
  BY DEF MissionEnds
<1> HIDE DEF event
<1>3. inbox \in Seq(Pending) /\ Len(inbox) \in Nat /\ DOMAIN inbox = 1..Len(inbox)
  BY Sequences
<1>4. /\ inbox' \in Seq(Pending) /\ Len(inbox') = Len(inbox) + 1
      /\ \A i \in 1..Len(inbox) : inbox'[i] = inbox[i]
      /\ inbox'[Len(inbox) + 1] = event
  BY <1>1, <1>2, <1>3, AppendProperties
<1>5. DOMAIN inbox' = 1..(Len(inbox) + 1)
  BY <1>4, LenProperties
<1> QED BY <1>1, <1>3, <1>4, <1>5

LEMMA InboxType ==
  ASSUME IInv, [Next]_vars
  PROVE  /\ inbox' \in Seq([mission : DOMAIN missions', attempts : 0..MaxAttempts - 1])
         /\ EndedInv'
<1>1. TypeOK /\ EndedInv /\ inbox \in Seq(Pending)
  BY Sequences DEF IInv
<1>2. /\ DOMAIN missions \subseteq DOMAIN missions'
      /\ \A m \in DOMAIN missions : missions[m].phase # "live" => missions'[m].phase # "live"
  BY MissionsGrow
<1>3. Pending \subseteq [mission : DOMAIN missions', attempts : 0..MaxAttempts - 1]
  BY <1>2 DEF Pending
<1>4. \A i \in DOMAIN inbox : inbox[i].mission \in DOMAIN missions
  BY <1>1, Sequences DEF Pending
<1>5. CASE UNCHANGED inbox
  BY <1>1, <1>2, <1>3, <1>4, <1>5, SeqWider DEF EndedInv
<1>6. ASSUME NEW m \in DOMAIN missions, MissionEnds(m)
      PROVE  inbox' \in Seq(Pending) /\ EndedInv'
  <2>1. missions'[m].phase \in Outcomes /\ "live" \notin Outcomes
    BY <1>1, <1>6, EndsEffect DEF Outcomes
  <2>2. /\ inbox' \in Seq(Pending)
        /\ DOMAIN inbox' = DOMAIN inbox \cup {Len(inbox) + 1}
        /\ \A i \in DOMAIN inbox : inbox'[i] = inbox[i]
        /\ inbox'[Len(inbox) + 1].mission = m
    BY <1>1, <1>6, InboxGrows
  <2>3. \A i \in DOMAIN inbox' : missions'[inbox'[i].mission].phase # "live"
    BY <1>1, <1>2, <1>4, <2>1, <2>2 DEF EndedInv
  <2> QED BY <2>2, <2>3 DEF EndedInv
<1>7. CASE Recommitted
  <2>1. /\ inbox' \in Seq(Pending) /\ missions' = missions
        /\ \A k \in DOMAIN inbox' : \E i \in DOMAIN inbox : inbox'[k].mission = inbox[i].mission
    BY <1>1, <1>7, RecommittedEffect DEF Recommitted
  <2>2. EndedInv'
    BY <1>1, <2>1 DEF EndedInv
  <2> QED BY <1>3, <2>1, <2>2, SeqWider
<1> QED BY <1>3, <1>5, <1>6, <1>7, InboxMoves, SeqWider

\* The batch lies in the inbox, and a delivery in the batch.
LEMMA BatchStep ==
  ASSUME IInv, [Next]_vars
  PROVE  /\ drain'.size \in 0..Len(inbox')
         /\ drain'.failed \subseteq 1..drain'.size
         /\ engine'.pc \in EnginePcs
         /\ BatchInv'
<1>1. /\ drain \in [size : Nat, at : Nat \ {0}, failed : SUBSET Nat]
      /\ engine \in [pc : EnginePcs, edge : Nat, child : Nat]
      /\ drain.size = 0 => drain = NoDrain
      /\ \A i \in drain.failed : i < drain.at
      /\ engine.pc # "rest" => drain.size > 0 /\ drain.at <= drain.size
      /\ drain.size <= Len(inbox) /\ drain.failed \subseteq 1..drain.size
      /\ Len(inbox) \in Nat
  BY Sequences DEF IInv, BatchInv, TypeOK, Draining
<1> DEFINE Goal == /\ drain' \in [size : Nat, at : Nat \ {0}, failed : SUBSET Nat]
                   /\ engine' \in [pc : EnginePcs, edge : Nat, child : Nat]
                   /\ drain'.size = 0 => drain' = NoDrain
                   /\ \A i \in drain'.failed : i < drain'.at
                   /\ engine'.pc # "rest" => drain'.size > 0 /\ drain'.at <= drain'.size
                   /\ drain'.size <= Len(inbox') /\ drain'.failed \subseteq 1..drain'.size
<1>2. SUFFICES Goal
  BY DEF BatchInv, Draining
<1>3. CASE StartRun \/ StarterStep \/ Recover
  BY <1>1, <1>3 DEF StarterStep, StartRun, SpawnEntry, ProvisionEntry, PauseEntry, Recover
<1>4. ASSUME NEW m \in DOMAIN missions, MissionEnds(m)
      PROVE  Goal
  <2>1. UNCHANGED <<drain, engine>> /\ Len(inbox') = Len(inbox) + 1
    BY <1>4, InboxGrows DEF MissionEnds, IInv
  <2> QED BY <1>1, <2>1
<1>5. CASE \E m \in DOMAIN missions : DeleteMission(m)
  BY <1>1, <1>5 DEF DeleteMission
<1>6. CASE Claim
  <2>1. drain' = [NoDrain EXCEPT !.size = Len(inbox)] /\ UNCHANGED <<inbox, engine>> /\ engine.pc = "rest"
    BY <1>1, <1>6 DEF Claim, Draining
  <2> QED BY <1>1, <2>1 DEF NoDrain, EnginePcs
<1>7. CASE Deliver
  <2>1. UNCHANGED <<inbox, drain>> /\ drain.size > 0 /\ drain.at <= drain.size
    BY <1>7 DEF Deliver, Draining
  <2>2. engine' \in [pc : EnginePcs, edge : Nat, child : Nat]
    <3>1. Decision(Delivered) \in [pc : EnginePcs, edge : Nat, child : Nat]
      <4> DEFINE matching == Matching(missions[Delivered].phase)
      <4>1. matching # {} => Min(matching) \in Nat
        <5>1. matching \in SUBSET Nat
          BY WorkflowConstants DEF Matching
        <5> HIDE DEF matching
        <5> QED BY <5>1, MinIn
      <4> HIDE DEF matching
      <4> QED BY <4>1 DEF Decision, Resting, EnginePcs, matching
    <3> QED BY <1>7, <3>1 DEF Deliver, Resting, EnginePcs
  <2> QED BY <1>1, <2>1, <2>2
<1>8. CASE Spawn
  <2>1. UNCHANGED <<inbox, drain>> /\ engine.pc = "spawn"
    BY <1>8 DEF Spawn
  <2>2. engine' \in [pc : EnginePcs, edge : Nat, child : Nat]
    <3>1. engine.pc = "spawn" => Delivered \in DOMAIN missions
      BY SpawnedTypes
    <3>2. WorkflowChild(Delivered) # {} => Min(WorkflowChild(Delivered)) \in Nat
      <4>1. ChildrenOf(Delivered) \in SUBSET Nat
        BY Sequences DEF ChildrenOf, Rows, IInv
      <4>2. ChildrenOf(Delivered) # {} => Min(ChildrenOf(Delivered)) \in Nat
        BY <4>1, MinIn
      <4> QED BY <4>2, MinOne DEF WorkflowChild
    <3>3. missions' # missions => Len(missions') \in Nat
      BY MissionsGrow, LenProperties
    <3>4. Len(missions') \in Nat
      BY MissionsGrow, LenProperties
    <3> QED BY <1>1, <1>8, <3>2, <3>4 DEF Spawn, Adopted, EnginePcs
  <2> QED BY <1>1, <2>1, <2>2
<1>9. CASE Record \/ PauseRun \/ FailRun \/ EndRun
  <2>1. UNCHANGED <<inbox, drain>> /\ engine.pc # "rest"
        /\ engine' \in {[engine EXCEPT !.pc = "ok"], [engine EXCEPT !.pc = "error"]}
    BY <1>9 DEF Record, PauseRun, FailRun, EndRun, Transition
  <2> QED BY <1>1, <2>1 DEF EnginePcs
<1>10. CASE Settle
  <2>1. PICK failed \in BOOLEAN : drain' = [drain EXCEPT
            !.at = @ + 1,
            !.failed = IF failed THEN @ \cup {drain.at} ELSE @]
    BY <1>10 DEF Settle
  <2>2. engine' = Resting /\ UNCHANGED inbox /\ engine.pc # "rest"
    BY <1>10 DEF Settle
  <2>3. drain.at \in Nat \ {0} /\ drain.at <= drain.size /\ drain.size \in Nat
    BY <1>1, <2>2
  <2>4. drain'.size = drain.size /\ drain'.at = drain.at + 1 /\ drain'.failed \in {drain.failed, drain.failed \cup {drain.at}}
        /\ drain' \in [size : Nat, at : Nat \ {0}, failed : SUBSET Nat]
    <3> DEFINE both == drain.failed \cup {drain.at}
    <3>1. drain' = [drain EXCEPT !.at = @ + 1, !.failed = both]
          \/ drain' = [drain EXCEPT !.at = @ + 1, !.failed = drain.failed]
      BY <2>1, Zenon
    <3>2. drain \in [size : Nat, at : Nat \ {0}, failed : SUBSET Nat]
      BY <1>1
    <3>3. both \in SUBSET Nat /\ drain.at + 1 \in Nat \ {0}
      BY <2>3, <3>2
    <3>4. both = drain.failed \cup {drain.at}
      OBVIOUS
    <3> HIDE DEF both
    <3>5. drain'.size = drain.size /\ drain'.at = drain.at + 1 /\ drain'.failed \in {drain.failed, both}
          /\ drain' \in [size : Nat, at : Nat \ {0}, failed : SUBSET Nat]
      BY <3>1, <3>2, <3>3
    <3> QED BY <3>4, <3>5
  <2>5. \A i \in drain'.failed : i \in 1..drain.size /\ i < drain.at + 1
    <3>1. \A i \in drain.failed : i \in 1..drain.size /\ i < drain.at /\ i \in Nat
      BY <1>1
    <3> QED BY <2>3, <2>4, <3>1
  <2>6. engine' \in [pc : EnginePcs, edge : Nat, child : Nat] /\ engine'.pc = "rest"
    BY <2>2 DEF Resting, EnginePcs
  <2>7. drain'.size # 0
    BY <2>3, <2>4
  <2> QED BY <1>1, <2>2, <2>4, <2>5, <2>6, <2>7
<1>11. CASE Commit
  <2>1. drain' = NoDrain /\ UNCHANGED engine /\ engine.pc = "rest"
    BY <1>1, <1>11 DEF Commit
  <2>2. Len(inbox') \in Nat
    BY InboxType, LenProperties
  <2> QED BY <1>1, <2>1, <2>2 DEF NoDrain
<1>12. CASE Crash
  BY <1>1, <1>12 DEF Crash, NoDrain, Resting, EnginePcs
<1>13. CASE UNCHANGED vars
  BY <1>1, <1>13 DEF vars
<1> QED BY <1>3, <1>4, <1>5, <1>6, <1>7, <1>8, <1>9, <1>10, <1>11, <1>12, <1>13
        DEF Next, DrainStep, EngineStep

-----------------------------------------------------------------------------
(* The missions of a run. *)

LEMMA RowsAre ==
  \A m : m \in Rows <=> m \in DOMAIN missions /\ missions[m].phase # "deleted"
BY DEF Rows

\* A line survives if its mission keeps step and parent, and its parent stays.
LEMMA LineKept ==
  ASSUME NEW c, LineAt(c),
         missions'[c].step = missions[c].step,
         missions'[c].parent # 0 =>
           LET p == missions[c].parent
           IN  /\ missions'[c].parent = p
               /\ p \in Rows => p \in Rows'
               /\ missions[p].phase \in Outcomes => missions'[p].phase = missions[p].phase
               /\ missions'[p].step = missions[p].step
  PROVE  LineAt(c)'
BY DEF LineAt, FirstEdge

LEMMA LineStep ==
  ASSUME IInv, [Next]_vars
  PROVE  LineInv'
<1>1. TypeOK /\ BatchInv /\ EndedInv /\ LineInv /\ EngineInv /\ MissionsMove
  BY MissionsMoves DEF IInv
<1>2. DOMAIN missions = 1..Len(missions) /\ Len(missions) \in Nat /\ Rows \subseteq DOMAIN missions
  BY <1>1, Sequences DEF Rows
<1>3. \A c \in DOMAIN missions :
        /\ LineAt(c)
        /\ missions[c].parent # 0 => missions[c].parent \in DOMAIN missions
  BY <1>1, <1>2 DEF LineInv, LineAt
<1>4. CASE UNCHANGED <<missions, deletes>>
  BY <1>1, <1>4 DEF LineInv, LineAt, FirstEdge, Rows
<1>5. ASSUME NEW step \in Steps, NEW p \in Nat, Added(step, p),
             p # 0 => /\ p \in Rows /\ missions[p].phase \in Outcomes
                      /\ step = Edges[FirstEdge(p)].to
                      /\ ChildrenOf(p) = {}
      PROVE  LineInv'
  <2>0. PICK new \in Nat : new = Len(missions) + 1
    BY <1>2
  <2>1. /\ new \notin DOMAIN missions
        /\ DOMAIN missions' = DOMAIN missions \cup {new}
        /\ \A m \in DOMAIN missions : missions'[m] = missions[m]
        /\ missions'[new] = [step |-> step, parent |-> p, phase |-> "live"]
        /\ Rows' = Rows \cup {new}
    BY <1>1, <1>5, <2>0, AddedEffect
  <2>2. \A c \in DOMAIN missions : LineAt(c)'
    BY <1>3, <2>1, LineKept
  <2>3. LineAt(new)'
    <3>1. CASE p = 0
      BY <2>1, <3>1 DEF LineAt
    <3>2. CASE p # 0
      <4>1. p \in DOMAIN missions /\ p < new
        BY <1>2, <1>5, <2>0, <3>2
      <4>2. missions'[p] = missions[p] /\ p \in Rows' /\ missions'[new].parent = p /\ missions'[new].step = step
        BY <1>5, <2>1, <3>2, <4>1
      <4>3. missions[p].phase \in Outcomes /\ step = Edges[FirstEdge(p)].to
        BY <1>5, <3>2
      <4> QED BY <4>1, <4>2, <4>3 DEF LineAt, FirstEdge
    <3> QED BY <3>1, <3>2
  <2>4. \A c \in DOMAIN missions' : LineAt(c)'
    BY <2>1, <2>2, <2>3
  <2>5. ASSUME NEW c \in Rows', NEW d \in Rows', missions'[c].parent = missions'[d].parent, missions'[c].parent # 0
        PROVE  c = d
    <3>1. CASE c # new /\ d # new
      <4>1. c \in Rows /\ d \in Rows
        BY <2>1, <3>1
      <4> QED BY <1>1, <1>2, <2>1, <2>5, <4>1 DEF LineInv
    <3>2. CASE c = new /\ d # new
      <4>1. d \in Rows /\ missions[d].parent = p /\ p # 0
        BY <1>2, <2>1, <2>5, <3>2
      <4> QED BY <1>5, <4>1 DEF ChildrenOf
    <3>3. CASE c # new /\ d = new
      <4>1. c \in Rows /\ missions[c].parent = p /\ p # 0
        BY <1>2, <2>1, <2>5, <3>3
      <4> QED BY <1>5, <4>1 DEF ChildrenOf
    <3> QED BY <3>1, <3>2, <3>3
  <2> QED BY <2>4, <2>5 DEF LineInv
<1>6. CASE EntrySpawned
  BY <1>5, <1>6, SpawnedTypes DEF EntrySpawned
<1>7. CASE StepSpawned
  <2>1. Delivered \in DOMAIN missions /\ Delivered \in Nat /\ Edges[engine.edge].to \in Steps
    BY <1>7, SpawnedTypes DEF StepSpawned
  <2>2. Delivered \in Rows /\ ChildrenOf(Delivered) = {} /\ Added(Edges[engine.edge].to, Delivered) /\ engine.pc = "spawn"
    BY <1>7 DEF StepSpawned
  <2>3. engine.edge = FirstEdge(Delivered)
    BY <1>1, <2>2 DEF EngineInv
  <2>4. missions[Delivered].phase \in Outcomes
    <3>1. missions[Delivered].phase # "live" /\ missions[Delivered].phase # "deleted"
      BY <1>1, <2>2, DeliveredEnded, RowsAre
    <3>2. missions[Delivered] \in MissionRow
      BY <1>1, <2>1, Sequences
    <3> QED BY <3>1, <3>2 DEF MissionRow
  <2> QED BY <1>5, <2>1, <2>2, <2>3, <2>4
<1>8. ASSUME NEW m \in DOMAIN missions, MissionEnds(m)
      PROVE  LineInv'
  <2>1. /\ DOMAIN missions' = DOMAIN missions /\ Rows' = Rows
        /\ \A c \in DOMAIN missions :
              /\ missions'[c].step = missions[c].step
              /\ missions'[c].parent = missions[c].parent
              /\ c # m => missions'[c].phase = missions[c].phase
        /\ missions[m].phase \notin Outcomes
    BY <1>1, <1>8, EndsEffect DEF Outcomes
  <2>2. ASSUME NEW c \in DOMAIN missions PROVE LineAt(c)'
    <3>1. missions[c].parent # 0 => missions[c].parent # m /\ missions[c].parent \in DOMAIN missions
      BY <1>3, <2>1 DEF LineAt
    <3> QED BY <1>3, <2>1, <3>1, LineKept
  <2> QED BY <1>1, <1>2, <2>1, <2>2 DEF LineInv
<1>9. ASSUME NEW m \in DOMAIN missions, DeleteMission(m)
      PROVE  LineInv'
  <2>1. /\ DOMAIN missions' = DOMAIN missions /\ Rows' = Rows \ {m}
        /\ \A c \in DOMAIN missions :
              /\ missions'[c].step = missions[c].step
              /\ c # m => missions'[c].phase = missions[c].phase
              /\ missions'[c].parent = IF c # m /\ missions[c].parent = m THEN 0 ELSE missions[c].parent
    BY <1>1, <1>9, DeletedEffect
  <2>2. ASSUME NEW c \in DOMAIN missions PROVE LineAt(c)'
    <3>1. missions[c].parent # 0 => missions[c].parent < c /\ missions[c].parent \in DOMAIN missions
      BY <1>3 DEF LineAt
    <3>2. missions'[c].parent # 0 => missions'[c].parent = missions[c].parent /\ missions[c].parent # m
      BY <1>2, <2>1, <3>1
    <3>3. missions'[c].parent # 0 => missions[c].parent \in DOMAIN missions
      BY <3>1, <3>2
    <3> QED BY <1>3, <2>1, <3>2, <3>3, LineKept
  <2>3. ASSUME NEW c \in Rows', NEW d \in Rows', missions'[c].parent = missions'[d].parent, missions'[c].parent # 0
        PROVE  c = d
    BY <1>1, <1>2, <2>1, <2>3 DEF LineInv
  <2> QED BY <2>1, <2>2, <2>3 DEF LineInv
<1> QED BY <1>1, <1>4, <1>6, <1>7, <1>8, <1>9 DEF MissionsMove

LEMMA ChainStep ==
  ASSUME IInv, [Next]_vars
  PROVE  ChainInv'
<1>1. TypeOK /\ BatchInv /\ EndedInv /\ ChainInv /\ MissionsMove
  BY MissionsMoves DEF IInv
<1>2. DOMAIN missions = 1..Len(missions) /\ Len(missions) \in Nat
  BY <1>1, Sequences
<1>3. CASE UNCHANGED <<missions, deletes>>
  BY <1>1, <1>3 DEF ChainInv
<1>4. ASSUME NEW step \in Steps, NEW p \in Nat, Added(step, p), deletes' = deletes,
             deletes = 0 => p = Len(missions) /\ \A k \in DOMAIN missions : missions[k].phase # "live"
      PROVE  ChainInv'
  <2>0. PICK new \in Nat : new = Len(missions) + 1
    BY <1>2
  <2>1. /\ DOMAIN missions' = DOMAIN missions \cup {new}
        /\ Len(missions') = new
        /\ \A m \in DOMAIN missions : missions'[m] = missions[m]
        /\ missions'[new] = [step |-> step, parent |-> p, phase |-> "live"]
    BY <1>1, <1>4, <2>0, AddedEffect
  <2>2. ASSUME deletes' = 0, NEW k \in DOMAIN missions'
        PROVE  /\ missions'[k].phase # "deleted"
               /\ missions'[k].parent = k - 1
               /\ k < Len(missions') => missions'[k].phase # "live"
    <3>1. CASE k = new
      <4>1. missions'[k].parent = p /\ missions'[k].phase = "live"
        BY <2>1, <3>1
      <4>2. p = k - 1 /\ ~(k < Len(missions'))
        BY <1>2, <1>4, <2>0, <2>1, <2>2, <3>1
      <4> QED BY <4>1, <4>2
    <3>2. CASE k # new
      <4>1. k \in DOMAIN missions /\ missions'[k] = missions[k]
        BY <2>1, <3>2
      <4>2. missions[k].phase # "live"
        BY <1>4, <2>2, <4>1
      <4> QED BY <1>1, <1>4, <2>2, <4>1, <4>2 DEF ChainInv
    <3> QED BY <3>1, <3>2
  <2> QED BY <1>1, <1>4, <2>2 DEF ChainInv
<1>5. CASE EntrySpawned
  <2>1. starter.step \in Steps /\ Added(starter.step, 0) /\ ChildrenOf(0) = {} /\ deletes' = deletes
    BY <1>5, SpawnedTypes DEF EntrySpawned
  <2>2. ASSUME deletes = 0 PROVE Len(missions) = 0
    <3>1. SUFFICES ASSUME Len(missions) # 0 PROVE FALSE
      OBVIOUS
    <3>2. 1 \in DOMAIN missions /\ missions[1].parent = 0 /\ missions[1].phase # "deleted"
      BY <1>1, <1>2, <2>2, <3>1 DEF ChainInv
    <3> QED BY <2>1, <3>2, RowsAre DEF ChildrenOf
  <2>3. deletes = 0 => 0 = Len(missions) /\ \A k \in DOMAIN missions : missions[k].phase # "live"
    BY <1>2, <2>2
  <2> QED BY <1>4, <2>1, <2>3
<1>6. CASE StepSpawned
  <2>1. /\ Delivered \in DOMAIN missions /\ Delivered \in Nat /\ Edges[engine.edge].to \in Steps
        /\ Added(Edges[engine.edge].to, Delivered) /\ ChildrenOf(Delivered) = {} /\ deletes' = deletes
        /\ engine.pc = "spawn"
    BY <1>6, SpawnedTypes DEF StepSpawned
  <2>2. missions[Delivered].phase # "live"
    BY <1>1, <2>1, DeliveredEnded
  <2>3. ASSUME deletes = 0
        PROVE  Delivered = Len(missions) /\ \A k \in DOMAIN missions : missions[k].phase # "live"
    <3>1. Delivered = Len(missions)
      <4>1. SUFFICES ASSUME Delivered < Len(missions) PROVE FALSE
        BY <1>2, <2>1
      <4>2. Delivered + 1 \in DOMAIN missions /\ (Delivered + 1) - 1 = Delivered
        BY <1>2, <2>1, <4>1
      <4>3. missions[Delivered + 1].parent = Delivered /\ missions[Delivered + 1].phase # "deleted"
        BY <1>1, <2>3, <4>2 DEF ChainInv
      <4> QED BY <2>1, <4>2, <4>3, RowsAre DEF ChildrenOf
    <3>2. ASSUME NEW k \in DOMAIN missions PROVE missions[k].phase # "live"
      <4>1. CASE k < Len(missions)
        BY <1>1, <2>3, <4>1 DEF ChainInv
      <4>2. CASE ~(k < Len(missions))
        <5>1. k = Delivered
          BY <1>2, <3>1, <4>2
        <5> QED BY <2>2, <5>1
      <4> QED BY <4>1, <4>2
    <3> QED BY <3>1, <3>2
  <2> QED BY <1>4, <2>1, <2>3
<1>7. ASSUME NEW m \in DOMAIN missions, MissionEnds(m)
      PROVE  ChainInv'
  <2>1. /\ DOMAIN missions' = DOMAIN missions /\ Len(missions') = Len(missions)
        /\ \A c \in DOMAIN missions :
              /\ missions'[c].parent = missions[c].parent
              /\ c # m => missions'[c].phase = missions[c].phase
        /\ missions'[m].phase \in Outcomes
    BY <1>1, <1>7, EndsEffect
  <2>2. deletes' = deletes /\ "live" \notin Outcomes /\ "deleted" \notin Outcomes
    BY <1>7 DEF MissionEnds, Outcomes
  <2>3. ASSUME deletes' = 0, NEW k \in DOMAIN missions'
        PROVE  /\ missions'[k].phase # "deleted"
               /\ missions'[k].parent = k - 1
               /\ k < Len(missions') => missions'[k].phase # "live"
    <3>1. CASE k = m
      <4>1. missions'[k].parent = k - 1
        BY <1>1, <2>1, <2>2, <2>3 DEF ChainInv
      <4>2. missions'[k].phase \in Outcomes
        BY <2>1, <3>1
      <4> QED BY <2>2, <4>1, <4>2
    <3>2. CASE k # m
      BY <1>1, <2>1, <2>2, <2>3, <3>2 DEF ChainInv
    <3> QED BY <3>1, <3>2
  <2> QED BY <1>1, <2>2, <2>3 DEF ChainInv
<1>8. CASE \E m \in DOMAIN missions : DeleteMission(m)
  BY <1>1, <1>8 DEF DeleteMission, ChainInv
<1> QED BY <1>1, <1>3, <1>5, <1>6, <1>7, <1>8 DEF MissionsMove

-----------------------------------------------------------------------------
(* The starter and the row of the run. *)

\* What a step does to the row of the run.
RunMoves ==
  \/ UNCHANGED run
  \/ run' = Paused /\ run'.status # "running"
  \/ StartRun
  \/ starter.pc = "entry" /\ run' = Running(starter.step) /\ UNCHANGED <<trail, engine, deletes>>
  \/ engine.pc = "spawn" /\ run' = Running(Edges[engine.edge].from)
  \/ TrailGrows
  \/ engine.pc = "fail" /\ run' = [status |-> "failed", step |-> Edges[engine.edge].from]
  \/ run' = [status |-> "done", step |-> End] /\ engine'.pc \in {"ok", "error"}

LEMMA RunMovesSo ==
  ASSUME IInv, [Next]_vars
  PROVE  RunMoves
<1>0. TypeOK /\ BatchInv
  BY DEF IInv
<1>1. Paused.status = "paused"
  BY <1>0 DEF Paused, TypeOK
<1>2. CASE StartRun \/ ProvisionEntry \/ Recover \/ Claim \/ Deliver \/ Settle \/ Commit \/ Crash
  BY <1>2 DEF RunMoves, ProvisionEntry, Recover, Claim, Deliver, Settle, Commit, Crash
<1>3. CASE SpawnEntry
  BY <1>3 DEF RunMoves, SpawnEntry, Warn
<1>4. CASE PauseEntry \/ PauseRun
  BY <1>1, <1>4 DEF RunMoves, PauseEntry, PauseRun, Transition
<1>5. CASE \E m \in DOMAIN missions : MissionEnds(m) \/ DeleteMission(m)
  BY <1>5 DEF RunMoves, MissionEnds, DeleteMission
<1>6. CASE Spawn
  BY <1>6 DEF RunMoves, Spawn, Warn
<1>7. CASE FailRun
  BY <1>7 DEF RunMoves, FailRun, Transition
<1>8. CASE EndRun
  <2>1. engine' \in {[engine EXCEPT !.pc = "ok"], [engine EXCEPT !.pc = "error"]}
    BY <1>8 DEF EndRun, Transition
  <2>2. engine'.pc \in {"ok", "error"}
    BY <1>0, <2>1 DEF BatchInv
  <2> QED BY <1>8, <2>2 DEF RunMoves, EndRun, Transition
<1>9. CASE Record
  <2>1. UNCHANGED run \/ run' = Running(Edges[engine.edge].to)
    BY <1>9 DEF Record, Transition
  <2>2. CASE UNCHANGED trail
    <3>1. trail \in Seq(Taken)
      BY <1>0, Sequences
    <3> DEFINE new == [edge |-> engine.edge, mission |-> Delivered, child |-> engine.child]
    <3>2. trail # trail \o <<new>>
      <4>1. engine.edge \in DOMAIN Edges /\ Delivered \in DOMAIN missions /\ engine.child \in DOMAIN missions
        BY <1>0, <1>9, DeliveredEnded DEF IInv, EngineInv, Record
      <4>2. new \in Taken
        BY <4>1 DEF Taken
      <4> HIDE DEF new
      <4>3. Append(trail, new) = trail \o <<new>> /\ Len(Append(trail, new)) = Len(trail) + 1 /\ Len(trail) \in Nat
        BY <3>1, <4>2, AppendIsConcat, AppendProperties, LenProperties
      <4> QED BY <4>3
    <3>3. UNCHANGED run
      BY <1>9, <2>2, <3>2 DEF Record, Transition
    <3> QED BY <3>3 DEF RunMoves
  <2>3. CASE TrailGrows
    BY <2>3 DEF RunMoves
  <2> QED BY <2>2, <2>3, TrailMoves
<1>10. CASE UNCHANGED vars
  BY <1>10 DEF RunMoves, vars
<1> QED BY <1>2, <1>3, <1>4, <1>5, <1>6, <1>7, <1>8, <1>9, <1>10
        DEF Next, StarterStep, DrainStep, EngineStep

\* An edge that a delivery carries leaves a step, never the end.
LEMMA CarriedEdge ==
  ASSUME IInv, engine.pc \in {"spawn", "record", "fail", "end"}
  PROVE  /\ engine.edge \in DOMAIN Edges
         /\ Edges[engine.edge].from \in Steps /\ Edges[engine.edge].from # End
         /\ engine.pc = "record" => Edges[engine.edge].to # End
BY WorkflowConstants DEF IInv, EngineInv

\* A running run is at one of its steps.
LEMMA RunningStep ==
  ASSUME IInv, [Next]_vars
  PROVE  RunInv'
<1>1. TypeOK /\ RunInv /\ RunMoves
  BY RunMovesSo DEF IInv
<1>2. CASE UNCHANGED run
  BY <1>1, <1>2 DEF RunInv
<1>3. CASE StartRun
  BY <1>3, WorkflowConstants DEF RunInv, StartRun, Running
<1>4. CASE starter.pc = "entry" /\ run' = Running(starter.step)
  BY <1>4, SpawnedTypes, WorkflowConstants DEF RunInv, Running
<1>5. CASE engine.pc = "spawn" /\ run' = Running(Edges[engine.edge].from)
  BY <1>5, CarriedEdge DEF RunInv, Running
<1>6. CASE TrailGrows
  BY <1>6, CarriedEdge DEF RunInv, Running, TrailGrows
<1>7. CASE run'.status # "running"
  BY <1>7 DEF RunInv
<1> QED BY <1>1, <1>2, <1>3, <1>4, <1>5, <1>6, <1>7 DEF RunMoves

\* The starter goes for a run without rows.
LEMMA StarterStepSo ==
  ASSUME IInv, [Next]_vars
  PROVE  StarterInv'
<1>1. TypeOK /\ StarterInv /\ MissionsMove /\ RunMoves
  BY MissionsMoves, RunMovesSo DEF IInv
<1>2. run'.status = "none" => UNCHANGED run
  <2>1. Paused.status # "none"
    BY <1>1 DEF Paused, TypeOK
  <2> QED BY <1>1, <2>1 DEF RunMoves, StartRun, TrailGrows, Running
<1>3. ASSUME Rows = {}, ~EntrySpawned
      PROVE  Rows' = {} /\ (missions = <<>> => missions' = <<>>)
  <2>1. CASE UNCHANGED <<missions, deletes>>
    BY <1>3, <2>1 DEF Rows
  <2>2. CASE StepSpawned
    BY <1>3, <2>2 DEF StepSpawned
  <2>3. ASSUME NEW m \in DOMAIN missions, MissionEnds(m) PROVE FALSE
    <3>1. m \in Rows
      BY <2>3, RowsAre DEF MissionEnds
    <3> QED BY <1>3, <3>1
  <2>4. ASSUME NEW m \in DOMAIN missions, DeleteMission(m) PROVE FALSE
    <3>1. m \in Rows
      BY <1>1, <2>4, DeletedEffect
    <3> QED BY <1>3, <3>1
  <2> QED BY <1>1, <1>3, <2>1, <2>2, <2>3, <2>4 DEF MissionsMove
<1>4. ASSUME run'.status = "none"
      PROVE  run'.step = Entry /\ missions' = <<>>
  <2>1. UNCHANGED run /\ run.status = "none"
    BY <1>2, <1>4
  <2>2. run.step = Entry /\ missions = <<>> /\ starter.pc # "entry"
    BY <1>1, <2>1 DEF StarterInv
  <2>3. Rows = {}
    BY <2>2 DEF Rows
  <2>4. ~EntrySpawned
    BY <2>2 DEF EntrySpawned
  <2> QED BY <1>3, <2>1, <2>2, <2>3, <2>4
<1>5. ASSUME starter'.pc = "entry"
      PROVE  Rows' = {} /\ run'.status # "none"
  <2>1. \/ starter.pc = "entry"
        \/ StartRun
        \/ Recover /\ Entryless
    <3>1. CASE StartRun \/ SpawnEntry \/ ProvisionEntry \/ PauseEntry \/ Recover
      BY <1>1, <1>5, <3>1 DEF StartRun, SpawnEntry, ProvisionEntry, PauseEntry, Recover, Idle, TypeOK
    <3>2. CASE (\E m \in DOMAIN missions : MissionEnds(m) \/ DeleteMission(m)) \/ Claim \/ Deliver \/ Spawn \/ Settle \/ Commit
      BY <1>5, <3>2 DEF MissionEnds, DeleteMission, Claim, Deliver, Spawn, Settle, Commit
    <3>3. CASE Record \/ PauseRun \/ FailRun \/ EndRun
      BY <1>5, <3>3 DEF Record, PauseRun, FailRun, EndRun, Transition
    <3>4. CASE Crash
      BY <1>5, <3>4 DEF Crash, Idle
    <3>5. CASE UNCHANGED vars
      BY <1>5, <3>5 DEF vars
    <3> QED BY <3>1, <3>2, <3>3, <3>4, <3>5 DEF Next, StarterStep, DrainStep, EngineStep
  <2>2. ~EntrySpawned
    BY <1>5 DEF EntrySpawned
  <2>3. CASE starter.pc = "entry"
    <3>1. Rows = {} /\ run.status # "none"
      BY <1>1, <2>3 DEF StarterInv
    <3> QED BY <1>2, <1>3, <2>2, <3>1
  <2>4. CASE StartRun
    <3>1. run.status = "none" /\ run'.status = "running"
      BY <2>4 DEF StartRun, Running
    <3>2. Rows = {}
      BY <1>1, <3>1 DEF StarterInv, Rows
    <3> QED BY <1>3, <2>2, <3>1, <3>2
  <2>5. CASE Recover /\ Entryless
    <3>1. Rows = {} /\ run'.status = "running"
      BY <2>5 DEF Recover, Entryless
    <3> QED BY <1>3, <2>2, <3>1
  <2> QED BY <2>1, <2>3, <2>4, <2>5
<1> QED BY <1>4, <1>5 DEF StarterInv

-----------------------------------------------------------------------------
(* A delivery. *)

\* What the decision hands on fits the run and the mission it is about.
LEMMA DecisionFits ==
  ASSUME IInv, Deliver, engine'.pc \in {"spawn", "record", "fail", "end"}
  PROVE  LET e == engine'.edge
         IN  /\ engine'.pc # "record"
             /\ e \in DOMAIN Edges
             /\ Edges[e].from = run.step /\ run.step = missions[Delivered].step
             /\ e = FirstEdge(Delivered)
             /\ ~EdgeTakenFor(Delivered)
             /\ engine'.pc = "spawn" => Edges[e].to # End /\ ~CapReached(e)
<1> DEFINE m == Delivered
           matching == Matching(missions[m].phase)
           e == Min(matching)
<1>1. engine' = Decision(m)
  BY DEF Deliver, Resting
<1>2. /\ ~(missions[m].phase = "deleted" \/ run.status # "running" \/ Stale(m) \/ EdgeTakenFor(m))
      /\ matching # {}
  BY <1>1 DEF Decision, Resting
<1>3. engine' = [Resting EXCEPT !.edge = e,
                                !.pc = IF CapReached(e) THEN "fail"
                                       ELSE IF Edges[e].to = End THEN "end" ELSE "spawn"]
  BY <1>1, <1>2 DEF Decision
<1>4. engine'.edge = e /\ engine'.pc = IF CapReached(e) THEN "fail"
                                       ELSE IF Edges[e].to = End THEN "end" ELSE "spawn"
  BY <1>3 DEF Resting
<1>5. e \in matching
  <2>1. matching \in SUBSET Nat
    BY WorkflowConstants DEF Matching
  <2> HIDE DEF matching
  <2> QED BY <1>2, <2>1, MinIn
<1>6. e \in DOMAIN Edges /\ Edges[e].from = run.step
  BY <1>5 DEF Matching
<1>7. missions[m].step = run.step
  BY <1>2 DEF Stale
<1>8. e = FirstEdge(m)
  BY <1>7 DEF FirstEdge, FirstEdgeOn, Matching
<1> HIDE DEF e, m
<1> QED BY <1>2, <1>4, <1>6, <1>7, <1>8 DEF m

\* Only a deletion or the delivery's own steps change what a delivery is about.
LEMMA DeliveredKept ==
  ASSUME IInv, [Next]_vars, UNCHANGED <<engine, drain>>, engine.pc # "rest"
  PROVE  /\ Delivered' = Delivered
         /\ Delivered \in DOMAIN missions
         /\ missions[Delivered].phase # "live"
<1>1. TypeOK /\ BatchInv /\ EndedInv
  BY DEF IInv
<1>2. drain.at \in DOMAIN inbox /\ Delivered \in DOMAIN missions /\ missions[Delivered].phase # "live"
  BY <1>1, DeliveredEnded
<1>3. CASE UNCHANGED inbox
  BY <1>2, <1>3 DEF Delivered
<1>4. ASSUME NEW m \in DOMAIN missions, MissionEnds(m)
      PROVE  Delivered' = Delivered
  BY <1>1, <1>2, <1>4, InboxGrows DEF Delivered
<1>5. CASE Recommitted
  <2>1. drain.size > 0
    BY <1>1 DEF BatchInv, Draining
  <2>2. drain'.size = 0
    BY <1>5 DEF Recommitted, NoDrain
  <2>3. drain'.size = drain.size
    OBVIOUS
  <2> QED BY <2>1, <2>2, <2>3
<1> QED BY <1>2, <1>3, <1>4, <1>5, InboxMoves

\* What a step does to the delivery.
EngineMoves ==
  \/ UNCHANGED <<engine, drain>>
  \/ engine'.pc \notin {"spawn", "record", "fail", "end"}
  \/ Deliver
  \/ Spawn

LEMMA EngineMovesSo ==
  ASSUME IInv, [Next]_vars
  PROVE  EngineMoves
<1>1. BatchInv
  BY DEF IInv
<1>2. CASE StartRun \/ StarterStep \/ Recover
  BY <1>2 DEF EngineMoves, StarterStep, StartRun, SpawnEntry, ProvisionEntry, PauseEntry, Recover
<1>3. CASE \E m \in DOMAIN missions : MissionEnds(m) \/ DeleteMission(m)
  BY <1>3 DEF EngineMoves, MissionEnds, DeleteMission
<1>4. CASE Claim \/ Commit
  <2>1. engine.pc = "rest" /\ engine' = engine
    BY <1>1, <1>4 DEF Claim, Commit, BatchInv
  <2> QED BY <2>1 DEF EngineMoves
<1>5. CASE Deliver \/ Spawn
  BY <1>5 DEF EngineMoves
<1>6. CASE Record \/ PauseRun \/ FailRun \/ EndRun
  <2>1. engine' \in {[engine EXCEPT !.pc = "ok"], [engine EXCEPT !.pc = "error"]}
    BY <1>6 DEF Record, PauseRun, FailRun, EndRun, Transition
  <2> QED BY <1>1, <2>1 DEF EngineMoves, BatchInv
<1>7. CASE Settle \/ Crash
  <2>1. engine' = Resting
    BY <1>7 DEF Settle, Crash
  <2> QED BY <2>1 DEF EngineMoves, Resting
<1>8. CASE UNCHANGED vars
  BY <1>8 DEF EngineMoves, vars
<1> QED BY <1>2, <1>3, <1>4, <1>5, <1>6, <1>7, <1>8 DEF Next, DrainStep, EngineStep

\* A delivery keeps what it carries while others step.
LEMMA CarriedOn ==
  ASSUME IInv, [Next]_vars, UNCHANGED <<engine, drain>>,
         engine.pc \in {"spawn", "record", "fail", "end"}
  PROVE  EngineInv'
<1> DEFINE m == Delivered
<1>1. TypeOK /\ EngineInv /\ MissionsMove
  BY MissionsMoves DEF IInv
<1>2. Delivered' = m /\ m \in DOMAIN missions /\ missions[m].phase # "live"
  BY DeliveredKept
<1>3. /\ DOMAIN missions \subseteq DOMAIN missions'
      /\ \A c \in DOMAIN missions : missions'[c].step = missions[c].step
  BY MissionsGrow
<1>4. UNCHANGED trail
  BY TrailMoves DEF TrailGrows
<1>5. (m \in Rows)' => m \in Rows /\ missions'[m].phase = missions[m].phase
  <2>1. m \in DOMAIN missions
    BY <1>2
  <2>2. CASE UNCHANGED <<missions, deletes>>
    BY <1>2, <2>2 DEF Rows, m
  <2>3. CASE EntrySpawned \/ StepSpawned
    <3>1. missions'[m] = missions[m]
      BY <1>1, <1>2, <2>3, SpawnedTypes, AddedEffect, MissionsMoves DEF EntrySpawned, StepSpawned
    <3> QED BY <1>2, <3>1 DEF Rows, m
  <2>4. ASSUME NEW c \in DOMAIN missions, MissionEnds(c)
        PROVE  (m \in Rows)' => m \in Rows /\ missions'[m].phase = missions[m].phase
    <3>1. c # m
      BY <1>1, <1>2, <2>4, EndsEffect
    <3> QED BY <1>1, <1>2, <2>4, <3>1, EndsEffect DEF m
  <2>5. ASSUME NEW c \in DOMAIN missions, DeleteMission(c)
        PROVE  (m \in Rows)' => m \in Rows /\ missions'[m].phase = missions[m].phase
    <3>1. Rows' = Rows \ {c} /\ \A d \in DOMAIN missions : d # c => missions'[d].phase = missions[d].phase
      BY <1>1, <2>5, DeletedEffect
    <3> QED BY <1>2, <3>1 DEF m
  <2> QED BY <1>1, <2>2, <2>3, <2>4, <2>5 DEF MissionsMove
<1>6. (Delivered \in Rows)' => (Delivered \in Rows /\ FirstEdge(Delivered)' = FirstEdge(Delivered))
  BY <1>2, <1>3, <1>5 DEF FirstEdge
<1>7. EdgeTakenFor(Delivered)' = EdgeTakenFor(Delivered) /\ CapReached(engine.edge)' = CapReached(engine.edge)
  BY <1>2, <1>4 DEF EdgeTakenFor, CapReached, Firings
<1>8. /\ engine.edge \in DOMAIN Edges
      /\ Edges[engine.edge].from = missions[Delivered].step
      /\ Delivered \in Rows => engine.edge = FirstEdge(Delivered)
      /\ engine.pc \in {"spawn", "record"} =>
           /\ Edges[engine.edge].to # End
           /\ ~CapReached(engine.edge)
           /\ ~EdgeTakenFor(Delivered)
      /\ engine.pc = "record" =>
           /\ engine.child \in DOMAIN missions
           /\ engine.child # Delivered
           /\ missions[engine.child].step = Edges[engine.edge].to
  BY <1>1 DEF EngineInv
<1>9. Edges[engine'.edge].from = missions'[Delivered'].step
  BY <1>2, <1>3, <1>8
<1>10. engine'.pc = "record" =>
           /\ engine'.child \in DOMAIN missions'
           /\ engine'.child # Delivered'
           /\ missions'[engine'.child].step = Edges[engine'.edge].to
  BY <1>2, <1>3, <1>8
<1> QED BY <1>6, <1>7, <1>8, <1>9, <1>10 DEF EngineInv

LEMMA EngineInvStep ==
  ASSUME IInv, [Next]_vars
  PROVE  EngineInv'
<1>1. TypeOK /\ BatchInv /\ EndedInv /\ LineInv /\ EngineInv
  BY DEF IInv
<1>2. CASE engine'.pc \notin {"spawn", "record", "fail", "end"}
  BY <1>2 DEF EngineInv
<1>3. CASE UNCHANGED <<engine, drain>>
  BY <1>2, <1>3, CarriedOn
<1>4. CASE Deliver
  <2>1. UNCHANGED <<run, trail, missions, inbox, drain>>
    BY <1>4 DEF Deliver
  <2>2. Delivered' = Delivered /\ Rows' = Rows /\ FirstEdge(Delivered)' = FirstEdge(Delivered)
    BY <2>1 DEF Delivered, Rows, FirstEdge
  <2>3. EdgeTakenFor(Delivered)' = EdgeTakenFor(Delivered)
    BY <2>1 DEF EdgeTakenFor, Delivered
  <2>4. CapReached(engine.edge)' = CapReached(engine'.edge)
    BY <2>1 DEF CapReached, Firings
  <2>5. ASSUME engine'.pc \in {"spawn", "record", "fail", "end"} PROVE EngineInv'
    <3> DEFINE e == engine'.edge
    <3>1. /\ engine'.pc # "record"
          /\ e \in DOMAIN Edges
          /\ Edges[e].from = missions[Delivered].step
          /\ e = FirstEdge(Delivered)
          /\ ~EdgeTakenFor(Delivered)
          /\ engine'.pc = "spawn" => Edges[e].to # End /\ ~CapReached(e)
      BY <1>4, <2>5, DecisionFits
    <3> QED BY <2>1, <2>2, <2>3, <2>4, <3>1 DEF EngineInv
  <2> QED BY <1>2, <2>5
<1>5. CASE Spawn
  <2> DEFINE m == Delivered
  <2>1. engine.pc = "spawn" /\ UNCHANGED <<trail, inbox, drain>>
    BY <1>5 DEF Spawn
  <2>2. /\ engine.edge \in DOMAIN Edges
        /\ Edges[engine.edge].from = missions[m].step
        /\ m \in Rows => engine.edge = FirstEdge(m)
        /\ Edges[engine.edge].to # End
        /\ ~CapReached(engine.edge)
        /\ ~EdgeTakenFor(m)
    BY <1>1, <2>1 DEF EngineInv
  <2>3. m \in DOMAIN missions /\ missions[m].phase # "live" /\ m \in Nat \ {0}
    BY <1>1, <2>1, DeliveredEnded, Sequences
  <2>4. Delivered' = m
    BY <2>1 DEF Delivered
  <2>5. EdgeTakenFor(Delivered)' = EdgeTakenFor(m) /\ CapReached(engine.edge)' = CapReached(engine'.edge)
    BY <2>1, <2>4 DEF EdgeTakenFor, CapReached, Firings
  <2>6. CapReached(engine'.edge) = CapReached(engine.edge) \/ engine'.edge # engine.edge
    OBVIOUS
  <2>7. engine \in [pc : EnginePcs, edge : Nat, child : Nat]
    BY <1>1 DEF BatchInv
  <2>8. CASE UNCHANGED missions /\ engine'.pc = "record"
    <3>1. WorkflowChild(m) # {} /\ engine' = Adopted(Min(WorkflowChild(m)))
      <4>1. ~Insert(Edges[engine.edge].to, m)
        <5>1. SUFFICES ASSUME Added(Edges[engine.edge].to, m) PROVE FALSE
          BY DEF Insert, Added
        <5>2. Edges[engine.edge].to \in Steps
          BY <2>1, SpawnedTypes
        <5>3. PICK new \in Nat : new = Len(missions) + 1
          BY <1>1, Sequences
        <5>4. new \notin DOMAIN missions /\ DOMAIN missions' = DOMAIN missions \cup {new}
          BY <1>1, <2>3, <5>1, <5>2, <5>3, AddedEffect
        <5> QED BY <2>8, <5>4
      <4>2. engine' # [engine EXCEPT !.pc = "error"] /\ engine' # [engine EXCEPT !.pc = "pause"]
        BY <2>7, <2>8
      <4> QED BY <1>5, <4>1, <4>2 DEF Spawn
    <3> DEFINE c == Min(WorkflowChild(m))
    <3>2. c \in ChildrenOf(m)
      <4>1. ChildrenOf(m) \in SUBSET Nat /\ ChildrenOf(m) # {}
        BY <1>1, <3>1, Sequences DEF ChildrenOf, Rows, WorkflowChild
      <4>2. Min(ChildrenOf(m)) \in ChildrenOf(m) /\ Min(ChildrenOf(m)) \in Nat
        BY <4>1, MinIn
      <4> QED BY <4>1, <4>2, MinOne DEF WorkflowChild
    <3>3. c \in DOMAIN missions /\ missions[c].parent = m
      BY <3>2 DEF ChildrenOf, Rows
    <3>4. engine'.edge = engine.edge /\ engine'.child = c
      BY <2>7, <3>1 DEF Adopted
    <3> HIDE DEF c
    <3>5. m \in Rows /\ m < c /\ missions[c].step = Edges[FirstEdge(m)].to
      BY <1>1, <2>3, <3>3 DEF LineInv, LineAt
    <3>6. c # m
      BY <2>3, <3>5
    <3>7. Rows' = Rows /\ FirstEdge(Delivered)' = FirstEdge(m)
      BY <2>4, <2>8 DEF Rows, FirstEdge
    <3> QED BY <2>2, <2>3, <2>4, <2>5, <2>8, <3>3, <3>4, <3>5, <3>6, <3>7 DEF EngineInv
  <2>9. CASE StepSpawned
    <3>1. PICK new \in Nat : new = Len(missions) + 1
      BY <1>1, Sequences
    <3>2. /\ new \notin DOMAIN missions
          /\ DOMAIN missions' = DOMAIN missions \cup {new}
          /\ Len(missions') = new
          /\ \A c \in DOMAIN missions : missions'[c] = missions[c]
          /\ missions'[new].step = Edges[engine.edge].to
      <4>1. /\ Edges[engine.edge].to \in Steps /\ Delivered \in Nat
            /\ Added(Edges[engine.edge].to, Delivered)
        BY <2>1, <2>9, SpawnedTypes DEF StepSpawned
      <4>2. missions'[new] = [step |-> Edges[engine.edge].to, parent |-> Delivered, phase |-> "live"]
        BY <1>1, <3>1, <4>1, AddedEffect
      <4>3. missions'[new].step = Edges[engine.edge].to
        BY <4>2
      <4> QED BY <1>1, <3>1, <4>1, <4>3, AddedEffect
    <3>3. CASE engine' = [engine EXCEPT !.pc = "record", !.child = Len(missions')]
      <4>1. engine'.pc = "record" /\ engine'.edge = engine.edge /\ engine'.child = new
        BY <2>7, <3>2, <3>3
      <4>2. m \in Rows
        BY <2>9 DEF StepSpawned
      <4>3. missions'[m] = missions[m]
        BY <2>3, <3>2
      <4>4. FirstEdge(Delivered)' = FirstEdge(m)
        BY <2>4, <4>3 DEF FirstEdge
      <4>5. new # m
        BY <2>3, <3>2
      <4>6. Edges[engine'.edge].from = missions'[Delivered'].step
        BY <2>2, <2>4, <4>1, <4>3
      <4>7. engine'.edge = FirstEdge(Delivered)'
        BY <2>2, <4>1, <4>2, <4>4
      <4> QED BY <2>2, <2>4, <2>5, <3>2, <4>1, <4>5, <4>6, <4>7 DEF EngineInv
    <3>4. CASE engine' = [engine EXCEPT !.pc = "pause"]
      BY <1>2, <2>7, <3>4
    <3> QED BY <2>9, <3>3, <3>4 DEF StepSpawned
  <2>10. missions' # missions => StepSpawned
    <3>1. ASSUME missions' # missions PROVE StepSpawned
      BY <1>5, <2>1, <3>1 DEF Spawn, StepSpawned, WorkflowChild, Insert, Added
    <3> QED BY <3>1
  <2>11. UNCHANGED missions /\ engine'.pc # "record" => engine'.pc \notin {"spawn", "record", "fail", "end"}
    BY <1>5, <2>7 DEF Spawn, Adopted
  <2> QED BY <1>2, <2>8, <2>9, <2>10, <2>11
<1> QED BY <1>2, <1>3, <1>4, <1>5, EngineMovesSo DEF EngineMoves

-----------------------------------------------------------------------------
(* The trail. *)

\* An edge that is taken is at none of its caps, and takes its mission once.
LEMMA TrailStep ==
  ASSUME IInv, [Next]_vars
  PROVE  TrailInv'
<1>1. TypeOK /\ EngineInv /\ TrailInv
  BY DEF IInv
<1>2. /\ DOMAIN missions \subseteq DOMAIN missions'
      /\ \A c \in DOMAIN missions : missions'[c].step = missions[c].step
  BY MissionsGrow
<1>3. DOMAIN trail = 1..Len(trail) /\ Len(trail) \in Nat /\ trail \in Seq(Taken)
      /\ \A i \in DOMAIN trail : trail[i].mission \in DOMAIN missions /\ trail[i].child \in DOMAIN missions
  BY <1>1, Sequences DEF Taken
<1>4. CASE UNCHANGED trail
  <2>1. \A e \in DOMAIN Edges : Firings(e)' = Firings(e)
    BY <1>4 DEF Firings
  <2>2. \A i \in DOMAIN trail : /\ missions'[trail[i].mission].step = missions[trail[i].mission].step
                                /\ missions'[trail[i].child].step = missions[trail[i].child].step
    BY <1>2, <1>3
  <2> QED BY <1>1, <1>4, <2>1, <2>2 DEF TrailInv
<1>5. CASE TrailGrows
  <2> DEFINE new == [edge |-> engine.edge, mission |-> Delivered, child |-> engine.child]
  <2>1. /\ engine.edge \in DOMAIN Edges /\ engine.child \in DOMAIN missions
        /\ Edges[engine.edge].from = missions[Delivered].step
        /\ Edges[engine.edge].to = missions[engine.child].step
        /\ ~CapReached(engine.edge) /\ ~EdgeTakenFor(Delivered)
    BY <1>1, <1>5 DEF EngineInv, TrailGrows
  <2>2. Delivered \in DOMAIN missions
    BY <1>5, DeliveredEnded DEF IInv, TrailGrows
  <2>3. new \in Taken /\ new.edge = engine.edge /\ new.mission = Delivered /\ new.child = engine.child
    BY <2>1, <2>2 DEF Taken
  <2>4. trail' = Append(trail, new) /\ UNCHANGED missions
    BY <1>5 DEF TrailGrows
  <2> HIDE DEF new
  <2>5. PICK n \in Nat : n = Len(trail) + 1
    BY <1>3
  <2>6. /\ trail' \in Seq(Taken) /\ Len(trail') = n /\ trail'[n] = new
        /\ \A i \in 1..Len(trail) : trail'[i] = trail[i]
    BY <1>3, <2>3, <2>4, <2>5, AppendProperties
  <2>7. DOMAIN trail' = DOMAIN trail \cup {n} /\ n \notin DOMAIN trail
    <3>1. DOMAIN trail' = 1..n
      BY <2>6, LenProperties
    <3> QED BY <1>3, <2>5, <3>1
  <2>8. \A i \in DOMAIN trail : trail'[i] = trail[i]
    BY <1>3, <2>6
  <2>9. ASSUME NEW e \in DOMAIN Edges PROVE Firings(e)' <= Edges[e].max
    <3> DEFINE taken == {i \in DOMAIN trail : trail[i].edge = e}
               taken2 == {i \in DOMAIN trail' : trail'[i].edge = e}
    <3>1. IsFiniteSet(taken) /\ Cardinality(taken) \in Nat /\ n \notin taken
      <4>1. IsFiniteSet(1..Len(trail))
        BY <1>3, FS_Interval
      <4>2. IsFiniteSet(taken)
        BY <1>3, <4>1, FS_Subset
      <4> QED BY <2>7, <4>2, FS_CardinalityType
    <3>2. taken2 = IF e = engine.edge THEN taken \cup {n} ELSE taken
      BY <2>3, <2>6, <2>7, <2>8
    <3>3. Firings(e) = Cardinality(taken) /\ Firings(e)' = Cardinality(taken2)
      BY DEF Firings
    <3>4. Edges[e].max \in Nat /\ Firings(e) <= Edges[e].max
      BY <1>1, WorkflowConstants DEF TrailInv
    <3> HIDE DEF taken, taken2
    <3>5. CASE e = engine.edge
      <4>1. Cardinality(taken2) = Cardinality(taken) + 1
        BY <3>1, <3>2, <3>5, FS_AddElement
      <4>2. ~(Firings(e) >= Edges[e].max)
        BY <2>1, <3>5 DEF CapReached
      <4> QED BY <3>1, <3>3, <3>4, <4>1, <4>2
    <3>6. CASE e # engine.edge
      BY <3>2, <3>3, <3>4, <3>6
    <3> QED BY <3>5, <3>6
  <2>10. ASSUME NEW i \in DOMAIN trail', NEW j \in DOMAIN trail', trail'[i].mission = trail'[j].mission
         PROVE  i = j
    <3>1. \A k \in DOMAIN trail : trail'[k].mission # Delivered
      BY <2>1, <2>8 DEF EdgeTakenFor
    <3>2. CASE i # n /\ j # n
      BY <1>1, <2>7, <2>8, <2>10, <3>2 DEF TrailInv
    <3>3. CASE i = n \/ j = n
      BY <2>3, <2>6, <2>7, <2>10, <3>1, <3>3
    <3> QED BY <3>2, <3>3
  <2>11. ASSUME NEW i \in DOMAIN trail'
         PROVE  /\ Edges[trail'[i].edge].from = missions'[trail'[i].mission].step
                /\ Edges[trail'[i].edge].to = missions'[trail'[i].child].step
    <3>1. CASE i = n
      BY <2>1, <2>3, <2>4, <2>6, <3>1
    <3>2. CASE i # n
      BY <1>1, <2>4, <2>7, <2>8, <3>2 DEF TrailInv
    <3> QED BY <3>1, <3>2
  <2> QED BY <2>9, <2>10, <2>11 DEF TrailInv
<1> QED BY <1>4, <1>5, TrailMoves

\* Where the trail ends after a step.
LEMMA TrailEndMoves ==
  ASSUME IInv, [Next]_vars
  PROVE  \/ UNCHANGED trail /\ TrailEnd' = TrailEnd
         \/ TrailGrows /\ TrailEnd' = run'.step
<1>1. CASE UNCHANGED trail
  BY <1>1 DEF TrailEnd
<1>2. CASE TrailGrows
  <2> DEFINE new == [edge |-> engine.edge, mission |-> Delivered, child |-> engine.child]
  <2>1. trail' = Append(trail, new) /\ run'.step = Edges[engine.edge].to /\ new.edge = engine.edge
    BY <1>2 DEF TrailGrows, Running
  <2>2. trail \in Seq(Taken) /\ new \in Taken
    <3>1. TypeOK
      BY DEF IInv
    <3>2. engine.edge \in DOMAIN Edges /\ engine.child \in DOMAIN missions /\ Delivered \in DOMAIN missions
      BY <1>2, DeliveredEnded DEF IInv, EngineInv, TrailGrows
    <3> QED BY <3>1, <3>2, Sequences DEF Taken
  <2> HIDE DEF new
  <2>3. trail' # <<>> /\ trail'[Len(trail')] = new
    BY <2>1, <2>2, AppendProperties
  <2> QED BY <1>2, <2>1, <2>3 DEF TrailEnd
<1> QED BY <1>1, <1>2, TrailMoves

\* While fewer than two missions are deleted, the run is where its trail ends.
LEMMA PathStep ==
  ASSUME IInv, [Next]_vars, StarterInv', EngineInv', TypeOK'
  PROVE  PathInv'
<1>1. TypeOK /\ BatchInv /\ ChainInv /\ EngineInv /\ StarterInv /\ PathInv /\ RunInv /\ MissionsMove /\ RunMoves /\ EngineMoves
  BY MissionsMoves, RunMovesSo, EngineMovesSo DEF IInv
<1>2. SUFFICES ASSUME deletes' <= 1 PROVE PathInv'
  BY DEF PathInv
<1>3. deletes \in Nat /\ deletes <= 1 /\ (deletes' # deletes => deletes = 0 /\ deletes' = 1)
  <2>1. deletes \in Nat
    BY <1>1 DEF ChainInv
  <2>2. deletes' = deletes \/ deletes' = deletes + 1
    <3>1. CASE UNCHANGED <<missions, deletes>>
      BY <3>1
    <3>2. CASE EntrySpawned \/ StepSpawned
      BY <3>2 DEF EntrySpawned, StepSpawned
    <3>3. CASE \E m \in DOMAIN missions : MissionEnds(m) \/ DeleteMission(m)
      BY <3>3 DEF MissionEnds, DeleteMission
    <3> QED BY <1>1, <3>1, <3>2, <3>3 DEF MissionsMove
  <2> QED BY <1>2, <2>1, <2>2
<1>4. /\ \A m, n \in DOMAIN missions \ Rows : m = n /\ deletes = 1
      /\ run.step # End => run.step = TrailEnd
      /\ starter.pc = "entry" => starter.step = TrailEnd /\ engine.pc # "record"
      /\ engine.pc \in {"spawn", "record", "fail", "end"} => Edges[engine.edge].from = run.step
      /\ \A i \in DOMAIN trail :
           Edges[trail[i].edge].from = IF i = 1 THEN Entry ELSE Edges[trail[i - 1].edge].to
  BY <1>1, <1>3 DEF PathInv
<1>5. \A m, n \in DOMAIN missions' \ Rows' : m = n /\ deletes' = 1
  <2>1. CASE UNCHANGED <<missions, deletes>>
    BY <1>4, <2>1 DEF Rows
  <2>2. CASE EntrySpawned \/ StepSpawned
    <3>1. PICK new \in Nat : new = Len(missions) + 1
      BY <1>1, Sequences
    <3>2. DOMAIN missions' = DOMAIN missions \cup {new} /\ Rows' = Rows \cup {new} /\ deletes' = deletes
      BY <1>1, <2>2, <3>1, SpawnedTypes, AddedEffect DEF EntrySpawned, StepSpawned
    <3> QED BY <1>4, <3>2
  <2>3. ASSUME NEW c \in DOMAIN missions, MissionEnds(c)
        PROVE  \A m, n \in DOMAIN missions' \ Rows' : m = n /\ deletes' = 1
    <3>1. DOMAIN missions' = DOMAIN missions /\ Rows' = Rows /\ deletes' = deletes
      BY <1>1, <2>3, EndsEffect DEF MissionEnds
    <3> QED BY <1>4, <3>1
  <2>4. ASSUME NEW c \in DOMAIN missions, DeleteMission(c)
        PROVE  \A m, n \in DOMAIN missions' \ Rows' : m = n /\ deletes' = 1
    <3>1. DOMAIN missions' = DOMAIN missions /\ Rows' = Rows \ {c}
      BY <1>1, <2>4, DeletedEffect
    <3>2. deletes = 0 /\ deletes' = 1
      BY <1>3, <2>4 DEF DeleteMission
    <3>3. \A m \in DOMAIN missions' \ Rows' : m = c
      BY <1>4, <3>1, <3>2
    <3> QED BY <3>2, <3>3
  <2> QED BY <1>1, <2>1, <2>2, <2>3, <2>4 DEF MissionsMove
<1>6. starter'.pc = "entry" => engine'.pc # "record"
  <2>1. ASSUME starter'.pc = "entry", engine'.pc = "record" PROVE FALSE
    <3>1. Rows' = {}
      BY <2>1 DEF StarterInv
    <3>2. engine'.child \in DOMAIN missions' /\ engine'.child # Delivered'
      BY <2>1 DEF EngineInv
    <3>3. Delivered' \in DOMAIN missions'
      <4>1. CASE UNCHANGED <<engine, drain>>
        BY <2>1, <4>1, DeliveredKept, MissionsGrow
      <4>2. CASE Deliver
        BY <2>1, <4>2, DecisionFits
      <4>3. CASE Spawn
        <5>1. Delivered' = Delivered /\ Delivered \in DOMAIN missions
          BY <4>3, SpawnedTypes DEF Spawn, Delivered
        <5> QED BY <5>1, MissionsGrow
      <4>4. CASE engine'.pc \notin {"spawn", "record", "fail", "end"}
        BY <2>1, <4>4
      <4> QED BY <1>1, <4>1, <4>2, <4>3, <4>4 DEF EngineMoves
    <3> QED BY <1>5, <3>1, <3>2, <3>3
  <2> QED BY <2>1
<1>7. TrailGrows => starter.pc # "entry" /\ starter'.pc # "entry" /\ engine'.pc \in {"ok", "error"}
  BY <1>4 DEF TrailGrows
<1>8. run'.step # End => run'.step = TrailEnd'
  <2>1. CASE TrailGrows
    BY <2>1, TrailEndMoves DEF TrailGrows
  <2>2. CASE ~TrailGrows
    <3>1. TrailEnd' = TrailEnd
      BY <2>2, TrailEndMoves
    <3>2. CASE UNCHANGED run \/ (run' = Paused /\ run'.status # "running")
      <4>1. run'.step = run.step
        BY <1>1, <3>2 DEF Paused, TypeOK
      <4> QED BY <1>4, <3>1, <4>1
    <3>3. CASE StartRun
      <4>1. run.step = Entry /\ run'.step = Entry
        BY <1>1, <3>3 DEF StarterInv, StartRun, Running
      <4> QED BY <1>4, <3>1, <4>1, WorkflowConstants
    <3>4. CASE starter.pc = "entry" /\ run' = Running(starter.step)
      BY <1>4, <3>1, <3>4 DEF Running
    <3>5. CASE engine.pc = "spawn" /\ run' = Running(Edges[engine.edge].from)
      BY <1>4, <3>1, <3>5, CarriedEdge DEF Running
    <3>6. CASE engine.pc = "fail" /\ run' = [status |-> "failed", step |-> Edges[engine.edge].from]
      BY <1>4, <3>1, <3>6, CarriedEdge
    <3>7. CASE run' = [status |-> "done", step |-> End]
      BY <3>7
    <3> QED BY <1>1, <2>2, <3>2, <3>3, <3>4, <3>5, <3>6, <3>7 DEF RunMoves
  <2> QED BY <2>1, <2>2
<1>9. starter'.pc = "entry" => starter'.step = TrailEnd'
  <2>1. ASSUME starter'.pc = "entry" PROVE starter'.step = TrailEnd'
    <3>1. TrailEnd' = TrailEnd
      BY <1>7, <2>1, TrailEndMoves
    <3>2. \/ starter' = starter
          \/ StartRun
          \/ Entryless /\ starter'.step = run.step
      <4>1. CASE StartRun \/ SpawnEntry \/ ProvisionEntry \/ PauseEntry \/ Recover
        BY <1>1, <2>1, <4>1 DEF StartRun, SpawnEntry, ProvisionEntry, PauseEntry, Recover, Idle, TypeOK
      <4>2. CASE (\E m \in DOMAIN missions : MissionEnds(m) \/ DeleteMission(m)) \/ Claim \/ Deliver \/ Spawn \/ Settle \/ Commit
        BY <4>2 DEF MissionEnds, DeleteMission, Claim, Deliver, Spawn, Settle, Commit
      <4>3. CASE Record \/ PauseRun \/ FailRun \/ EndRun
        BY <4>3 DEF Record, PauseRun, FailRun, EndRun, Transition
      <4>4. CASE Crash
        BY <2>1, <4>4 DEF Crash, Idle
      <4>5. CASE UNCHANGED vars
        BY <4>5 DEF vars
      <4> QED BY <4>1, <4>2, <4>3, <4>4, <4>5 DEF Next, StarterStep, DrainStep, EngineStep
    <3>3. CASE starter' = starter
      BY <1>4, <2>1, <3>1, <3>3
    <3>4. CASE StartRun
      <4>1. run.step = Entry /\ starter'.step = Entry
        BY <1>1, <3>4 DEF StarterInv, StartRun
      <4> QED BY <1>4, <3>1, <4>1, WorkflowConstants
    <3>5. CASE Entryless /\ starter'.step = run.step
      BY <1>1, <1>4, <3>1, <3>5 DEF Entryless, RunInv
    <3> QED BY <3>2, <3>3, <3>4, <3>5
  <2> QED BY <2>1
<1>10. engine'.pc \in {"spawn", "record", "fail", "end"} => Edges[engine'.edge].from = run'.step
  <2>1. ASSUME engine'.pc \in {"spawn", "record", "fail", "end"} PROVE Edges[engine'.edge].from = run'.step
    <3>1. CASE Deliver
      <4>1. UNCHANGED run
        BY <3>1 DEF Deliver
      <4> QED BY <2>1, <3>1, <4>1, DecisionFits
    <3>2. CASE ~Deliver
      <4>1. engine.pc \in {"spawn", "record", "fail", "end"} /\ engine'.edge = engine.edge
        <5>1. CASE UNCHANGED <<engine, drain>>
          BY <2>1, <5>1
        <5>2. CASE Spawn
          <6>1. engine \in [pc : EnginePcs, edge : Nat, child : Nat]
            BY <1>1 DEF BatchInv
          <6> QED BY <5>2, <6>1 DEF Spawn, Adopted
        <5> QED BY <1>1, <2>1, <3>2, <5>1, <5>2 DEF EngineMoves
      <4>2. Edges[engine.edge].from = run.step /\ run.step # End
        BY <1>4, <4>1, CarriedEdge
      <4>3. run.step = TrailEnd
        BY <1>4, <4>2
      <4>4. run'.step = run.step
        <5>1. CASE UNCHANGED run \/ (run' = Paused /\ run'.status # "running")
          BY <1>1, <5>1 DEF Paused, TypeOK
        <5>2. CASE StartRun
          BY <1>1, <5>2 DEF StarterInv, StartRun, Running
        <5>3. CASE starter.pc = "entry" /\ run' = Running(starter.step)
          BY <1>4, <4>3, <5>3 DEF Running
        <5>4. CASE engine.pc = "spawn" /\ run' = Running(Edges[engine.edge].from)
          BY <4>2, <5>4 DEF Running
        <5>5. CASE TrailGrows
          BY <1>7, <2>1, <5>5
        <5>6. CASE engine.pc = "fail" /\ run' = [status |-> "failed", step |-> Edges[engine.edge].from]
          BY <4>2, <5>6
        <5>7. CASE run' = [status |-> "done", step |-> End] /\ engine'.pc \in {"ok", "error"}
          BY <2>1, <5>7
        <5> QED BY <1>1, <5>1, <5>2, <5>3, <5>4, <5>5, <5>6, <5>7 DEF RunMoves
      <4> QED BY <4>1, <4>2, <4>4
    <3> QED BY <3>1, <3>2
  <2> QED BY <2>1
<1>11. \A i \in DOMAIN trail' :
         Edges[trail'[i].edge].from = IF i = 1 THEN Entry ELSE Edges[trail'[i - 1].edge].to
  <2>1. CASE UNCHANGED trail
    BY <1>4, <2>1
  <2>2. CASE TrailGrows
    <3> DEFINE new == [edge |-> engine.edge, mission |-> Delivered, child |-> engine.child]
    <3>1. trail \in Seq(Taken) /\ new \in Taken /\ new.edge = engine.edge
      <4>1. engine.edge \in DOMAIN Edges /\ engine.child \in DOMAIN missions /\ Delivered \in DOMAIN missions
        BY <2>2, DeliveredEnded DEF IInv, EngineInv, TrailGrows
      <4> QED BY <1>1, <4>1, Sequences DEF Taken
    <3>2. trail' = Append(trail, new)
      BY <2>2 DEF TrailGrows
    <3> HIDE DEF new
    <3>3. Len(trail) \in Nat /\ DOMAIN trail = 1..Len(trail) /\ (trail = <<>> <=> Len(trail) = 0)
      BY <3>1, LenProperties, EmptySeq
    <3>4. PICK n \in Nat : n = Len(trail) + 1
      BY <3>3
    <3>5. /\ trail' \in Seq(Taken) /\ Len(trail') = n /\ trail'[n] = new
          /\ \A i \in 1..Len(trail) : trail'[i] = trail[i]
      BY <3>1, <3>2, <3>4, AppendProperties
    <3>6. DOMAIN trail' = 1..n
      BY <3>5, LenProperties
    <3>7. Edges[engine.edge].from = TrailEnd
      BY <1>4, <2>2, CarriedEdge DEF TrailGrows
    <3>8. ASSUME NEW i \in DOMAIN trail'
          PROVE  Edges[trail'[i].edge].from = IF i = 1 THEN Entry ELSE Edges[trail'[i - 1].edge].to
      <4>1. CASE i # n
        <5>1. i \in DOMAIN trail /\ trail'[i] = trail[i] /\ (i # 1 => trail'[i - 1] = trail[i - 1])
          BY <3>3, <3>4, <3>5, <3>6, <4>1
        <5> QED BY <1>4, <5>1
      <4>2. CASE i = n /\ n = 1
        <5>1. trail = <<>>
          BY <3>3, <3>4, <4>2
        <5> QED BY <3>1, <3>5, <3>7, <4>2, <5>1 DEF TrailEnd
      <4>3. CASE i = n /\ n # 1
        <5>1. trail # <<>> /\ i - 1 = Len(trail) /\ trail'[i - 1] = trail[Len(trail)]
          BY <3>3, <3>4, <3>5, <4>3
        <5> QED BY <3>1, <3>5, <3>7, <4>3, <5>1 DEF TrailEnd
      <4> QED BY <4>1, <4>2, <4>3
    <3> QED BY <3>8
  <2> QED BY <2>1, <2>2, TrailMoves
<1> QED BY <1>5, <1>6, <1>8, <1>9, <1>10, <1>11 DEF PathInv

-----------------------------------------------------------------------------
(* The theorems. *)

LEMMA Start == Init => IInv
<1> SUFFICES ASSUME Init PROVE IInv
  OBVIOUS
<1>1. DOMAIN missions = {} /\ DOMAIN trail = {} /\ DOMAIN inbox = {} /\ Rows = {}
  BY DEF Init, Rows
<1>2. Entry \in Steps /\ Entry # End
  BY WorkflowConstants
<1>3. TypeOK
  <2>1. /\ trail \in Seq([edge : DOMAIN Edges, mission : DOMAIN missions, child : DOMAIN missions])
        /\ missions \in Seq([step : Steps, parent : Nat, phase : {"live", "deleted"} \cup Outcomes])
        /\ inbox \in Seq([mission : DOMAIN missions, attempts : 0..MaxAttempts - 1]) /\ Len(inbox) = 0
    BY EmptySeq DEF Init
  <2>2. /\ run \in [status : {"none", "running", "paused", "failed", "done"}, step : Steps \cup {End}]
        /\ starter \in [pc : {"none", "entry", "provision", "pause"}, step : Steps]
        /\ drain.size \in 0..Len(inbox) /\ drain.failed \subseteq 1..drain.size
        /\ engine.pc \in EnginePcs
    BY <1>2, <2>1 DEF Init, Idle, NoDrain, Resting, EnginePcs
  <2>3. booting \in BOOLEAN
    BY DEF Init
  <2> QED BY <2>1, <2>2, <2>3 DEF TypeOK
<1>4. BatchInv
  BY DEF Init, BatchInv, NoDrain, Resting, EnginePcs
<1>5. EndedInv /\ LineInv /\ ChainInv
  BY <1>1 DEF Init, EndedInv, LineInv, ChainInv
<1>6. EngineInv /\ StarterInv /\ RunInv
  BY DEF Init, EngineInv, StarterInv, RunInv, Resting, Idle
<1>7. PathInv
  BY <1>1 DEF Init, PathInv, TrailEnd, Resting, Idle
<1>8. TrailInv
  <2>1. \A e \in DOMAIN Edges : Firings(e) = 0 /\ Edges[e].max \in Nat
    <3>1. \A e \in DOMAIN Edges : {i \in DOMAIN trail : trail[i].edge = e} = {}
      BY <1>1
    <3> QED BY <3>1, FS_EmptySet, WorkflowConstants DEF Firings
  <2> QED BY <1>1, <2>1 DEF TrailInv
<1> QED BY <1>3, <1>4, <1>5, <1>6, <1>7, <1>8 DEF IInv

\* Every variable keeps its type in a step.
LEMMA TypeStep ==
  ASSUME IInv, [Next]_vars
  PROVE  TypeOK'
<1>1. missions' \in Seq([step : Steps, parent : Nat, phase : {"live", "deleted"} \cup Outcomes])
  BY MissionsGrow DEF MissionRow
<1> QED BY <1>1, RunType, BootingType, TrailType, InboxType, BatchStep DEF TypeOK

\* The inductive invariant holds throughout.
THEOREM Invariant == Spec => []IInv
<1>1. IInv /\ [Next]_vars => IInv'
  <2> SUFFICES ASSUME IInv, [Next]_vars PROVE IInv'
    OBVIOUS
  <2>1. TypeOK' /\ StarterInv' /\ EngineInv' /\ RunInv'
    BY TypeStep, StarterStepSo, EngineInvStep, RunningStep
  <2>2. BatchInv' /\ EndedInv' /\ LineInv' /\ ChainInv' /\ TrailInv'
    BY BatchStep, InboxType, LineStep, ChainStep, TrailStep
  <2>3. PathInv'
    BY <2>1, PathStep
  <2> QED BY <2>1, <2>2, <2>3 DEF IInv
<1> QED BY <1>1, Start, PTL DEF Spec

\* The run, its trail, its missions, the inbox and the delivery under way keep their types
\* (StartRun, OnMissionTerminal, ApplyRunTransition, Drain).
THEOREM TypeCorrect == Spec => []TypeOK
<1>1. IInv => TypeOK
  BY DEF IInv
<1> QED BY <1>1, Invariant, PTL

\* A mission has at most one successor, and unless missions are deleted at most one is at work:
\* whatever fails between a spawn and its record, the child is adopted (OnMissionTerminal).
THEOREM OneStepOneMission == Spec => []OneMissionPerStep
<1>1. ASSUME IInv PROVE OneChildPerMission
  <2>1. TypeOK /\ LineInv
    BY <1>1 DEF IInv
  <2>2. DOMAIN missions = 1..Len(missions) /\ Len(missions) \in Nat /\ Rows \subseteq DOMAIN missions
    BY <2>1, Sequences DEF Rows
  <2>3. ASSUME NEW m \in Rows PROVE Cardinality(ChildrenOf(m)) <= 1
    <3>1. \A c, d \in ChildrenOf(m) : c = d
      BY <2>1, <2>2 DEF ChildrenOf, LineInv
    <3> QED BY <3>1, AtMostOne
  <2> QED BY <2>3 DEF OneChildPerMission
<1>2. ASSUME IInv PROVE OneLiveMission
  <2>1. TypeOK /\ ChainInv
    BY <1>2 DEF IInv
  <2>2. DOMAIN missions = 1..Len(missions) /\ Len(missions) \in Nat /\ Rows \subseteq DOMAIN missions
    BY <2>1, Sequences DEF Rows
  <2>3. ASSUME deletes = 0 PROVE Cardinality({m \in Rows : missions[m].phase = "live"}) <= 1
    <3> DEFINE live == {m \in Rows : missions[m].phase = "live"}
    <3>1. \A c \in live : c = Len(missions)
      BY <2>1, <2>2, <2>3 DEF ChainInv
    <3>2. \A c, d \in live : c = d
      BY <3>1
    <3> HIDE DEF live
    <3>3. Cardinality(live) <= 1
      BY <3>2, AtMostOne
    <3> QED BY <3>3 DEF live
  <2> QED BY <2>3 DEF OneLiveMission
<1>3. IInv => OneMissionPerStep
  BY <1>1, <1>2 DEF OneMissionPerStep
<1> QED BY <1>3, Invariant, PTL

\* No edge fires beyond its cap, no mission takes two edges, and the trail is a path of the
\* definition that a running run stands at the end of (CountEdgeFirings, edgeTakenFor).
THEOREM StaysOnPath == Spec => []TrailIsPath
<1>1. ASSUME IInv PROVE TrailIsPath
  <2>1. TypeOK /\ TrailInv /\ PathInv /\ RunInv
    BY <1>1 DEF IInv
  <2>2. EdgeFiringsCapped /\ MissionTakesOneEdge
    BY <2>1 DEF TrailInv, EdgeFiringsCapped, MissionTakesOneEdge
  <2>3. DOMAIN trail = 1..Len(trail) /\ Len(trail) \in Nat /\ trail \in Seq(Taken)
    BY <2>1, Sequences
  <2>4. ASSUME NEW i \in DOMAIN trail, deletes <= 1
        PROVE  Edges[trail[i].edge].from = IF i - 1 = 0 THEN Entry ELSE Edges[trail[i - 1].edge].to
    BY <2>1, <2>3, <2>4 DEF PathInv
  <2>5. ASSUME run.status = "running", deletes <= 1
        PROVE  run.step = IF Len(trail) = 0 THEN Entry ELSE Edges[trail[Len(trail)].edge].to
    <3>1. run.step = TrailEnd
      BY <2>1, <2>5 DEF PathInv, RunInv
    <3>2. trail = <<>> <=> Len(trail) = 0
      BY <2>3, EmptySeq
    <3> QED BY <3>1, <3>2 DEF TrailEnd
  <2>6. FollowsEdges
    BY <2>1, <2>4, <2>5 DEF FollowsEdges, TrailInv
  <2> QED BY <2>2, <2>6 DEF TrailIsPath
<1>2. IInv => TrailIsPath
  BY <1>1
<1> QED BY <1>2, Invariant, PTL

-----------------------------------------------------------------------------
(* Restarts.  As long as no call fails and no mission is deleted, missions, *)
(* trail and inbox advance in step: the k-th entry of the trail is the k-th *)
(* mission's, and the events are in the missions' order.                    *)

Calm == faults = 0 /\ deletes = 0

\* The mission whose edge is the next to be recorded.
Due == Len(trail) + 1

CalmInv ==
  /\ engine.pc # "error" /\ drain.failed = {} /\ starter.pc # "pause"
  /\ \A i \in DOMAIN trail : trail[i].mission = i /\ trail[i].child = i + 1
  /\ missions # <<>> => missions[1].step = Entry /\ Due \in DOMAIN missions
  /\ \A i, j \in DOMAIN inbox : i < j => inbox[i].mission < inbox[j].mission
  /\ engine.pc \in {"spawn", "record", "pause", "fail", "end"} => run.status = "running" /\ Delivered = Due
  /\ engine.pc = "record" => engine.child = Due + 1
  /\ run.status = "running" =>
       \A m \in DOMAIN missions : m >= Due /\ missions[m].phase # "live" => ToDeliver(m)

RestartInv ==
  /\ faults \in Nat
  /\ drain.at <= drain.size + 1
  /\ Calm => CalmInv

\* What is known of the missions and the sequences meanwhile.
LEMMA CalmFacts ==
  ASSUME IInv, Calm
  PROVE  /\ TypeOK /\ BatchInv /\ EndedInv
         /\ Len(missions) \in Nat /\ DOMAIN missions = 1..Len(missions)
         /\ Len(trail) \in Nat /\ DOMAIN trail = 1..Len(trail)
         /\ Len(inbox) \in Nat /\ DOMAIN inbox = 1..Len(inbox)
         /\ \A i \in DOMAIN inbox : inbox[i].mission \in DOMAIN missions
         /\ missions = <<>> <=> Len(missions) = 0
         /\ missions = <<>> => Len(trail) = 0 /\ Len(inbox) = 0 /\ engine.pc = "rest"
         /\ starter.pc = "entry" => missions = <<>>
         /\ Rows = DOMAIN missions
         /\ \A k \in DOMAIN missions :
              /\ missions[k].parent = k - 1
              /\ k < Len(missions) => missions[k].phase # "live"
         /\ drain.at \in Nat \ {0} /\ drain.size \in 0..Len(inbox)
         /\ engine \in [pc : EnginePcs, edge : Nat, child : Nat]
<1>1. TypeOK /\ BatchInv /\ EndedInv /\ ChainInv /\ StarterInv
  BY DEF IInv
<1>2. /\ missions \in Seq(MissionRow) /\ Len(missions) \in Nat /\ DOMAIN missions = 1..Len(missions)
      /\ Len(trail) \in Nat /\ DOMAIN trail = 1..Len(trail)
      /\ Len(inbox) \in Nat /\ DOMAIN inbox = 1..Len(inbox)
      /\ \A i \in DOMAIN inbox : inbox[i].mission \in DOMAIN missions
      /\ \A i \in DOMAIN trail : trail[i].mission \in DOMAIN missions
  BY <1>1, Sequences DEF Pending, Taken
<1>3. missions = <<>> <=> Len(missions) = 0
  BY <1>2, EmptySeq
<1>4. /\ drain \in [size : Nat, at : Nat \ {0}, failed : SUBSET Nat] /\ drain.size \in 0..Len(inbox)
      /\ engine \in [pc : EnginePcs, edge : Nat, child : Nat]
  BY <1>1 DEF BatchInv, TypeOK
<1>5. ASSUME missions = <<>> PROVE Len(trail) = 0 /\ Len(inbox) = 0 /\ engine.pc = "rest"
  <2>1. Len(trail) = 0 /\ Len(inbox) = 0
    <3>1. 1 \notin DOMAIN trail /\ 1 \notin DOMAIN inbox
      BY <1>2, <1>3, <1>5
    <3> QED BY <1>2, <3>1
  <2>2. drain.size = 0
    BY <1>4, <2>1
  <2> QED BY <1>1, <2>1, <2>2 DEF BatchInv, Draining
<1>6. /\ Rows = DOMAIN missions
      /\ \A k \in DOMAIN missions :
           missions[k].parent = k - 1 /\ (k < Len(missions) => missions[k].phase # "live")
  BY <1>1 DEF Calm, ChainInv, Rows
<1>7. ASSUME starter.pc = "entry" PROVE missions = <<>>
  <2>1. DOMAIN missions = {}
    BY <1>1, <1>6, <1>7 DEF StarterInv
  <2> QED BY <1>2, <1>3, <2>1
<1> QED BY <1>1, <1>2, <1>3, <1>4, <1>5, <1>6, <1>7

\* A mission that a delivery is about and whose edge is not recorded is the one that is due:
\* its event stands behind that of the due mission otherwise.
LEMMA DeliveredDue ==
  ASSUME IInv, Calm, CalmInv, engine.pc = "rest", Draining, drain.at <= drain.size,
         run.status = "running"
  PROVE  /\ Delivered \in DOMAIN missions
         /\ EdgeTakenFor(Delivered) <=> Delivered < Due
         /\ ~EdgeTakenFor(Delivered) => Delivered = Due
<1>1. /\ Len(missions) \in Nat /\ DOMAIN missions = 1..Len(missions)
      /\ Len(trail) \in Nat /\ DOMAIN trail = 1..Len(trail)
      /\ Len(inbox) \in Nat /\ DOMAIN inbox = 1..Len(inbox)
      /\ \A k \in DOMAIN missions : k < Len(missions) => missions[k].phase # "live"
      /\ TypeOK /\ BatchInv /\ EndedInv
  BY CalmFacts
<1>2. drain.at \in DOMAIN inbox /\ Delivered \in DOMAIN missions
  BY <1>1, DeliveredEnded
<1>3. EdgeTakenFor(Delivered) <=> Delivered < Due
  <2>1. \A i \in DOMAIN trail : trail[i].mission = i
    BY DEF CalmInv
  <2> QED BY <1>1, <1>2, <2>1 DEF EdgeTakenFor, Due
<1>4. ASSUME Delivered > Due PROVE FALSE
  <2>1. Due \in DOMAIN missions /\ Due >= Due /\ missions[Due].phase # "live"
    BY <1>1, <1>2, <1>4 DEF Due
  <2>2. PICK i \in DOMAIN inbox : inbox[i].mission = Due /\ i >= drain.at
    BY <2>1 DEF CalmInv, ToDeliver
  <2>3. i # drain.at
    BY <1>1, <1>2, <1>4, <2>2 DEF Delivered, Due
  <2>4. drain.at < i
    BY <1>1, <1>2, <2>2, <2>3
  <2>5. Delivered < Due
    BY <1>2, <2>2, <2>4 DEF CalmInv, Delivered
  <2> QED BY <1>1, <1>2, <1>4, <2>5 DEF Due
<1> QED BY <1>1, <1>2, <1>3, <1>4 DEF Due

\* Nothing moves but the row of a run without missions.
LEMMA CalmQuiet ==
  ASSUME IInv, Calm, CalmInv, UNCHANGED <<trail, missions, inbox, drain, engine>>,
         UNCHANGED run \/ missions = <<>>, starter'.pc # "pause"
  PROVE  CalmInv'
<1>1. missions = <<>> => DOMAIN missions = {} /\ engine.pc = "rest"
  BY CalmFacts
<1>2. CASE UNCHANGED run
  BY <1>2 DEF CalmInv, Due, Delivered, ToDeliver
<1>3. CASE missions = <<>>
  BY <1>1, <1>3 DEF CalmInv, Due, Delivered, ToDeliver
<1> QED BY <1>2, <1>3

\* A row is added: the first mission, or the one after the mission that is due.
LEMMA CalmAdded ==
  ASSUME IInv, Calm, CalmInv, NEW step \in Steps, NEW p \in Nat, Added(step, p),
         UNCHANGED <<trail, inbox, drain>>, starter'.pc # "pause",
         missions = <<>> => step = Entry,
         \/ missions = <<>> /\ engine' = engine
         \/ /\ engine.pc = "spawn" /\ p = Due /\ run'.status = "running"
            /\ engine' = [engine EXCEPT !.pc = "record", !.child = Len(missions')]
            /\ p = Len(missions)
  PROVE  CalmInv'
<1>0. /\ TypeOK /\ Len(missions) \in Nat /\ DOMAIN missions = 1..Len(missions)
      /\ Len(trail) \in Nat /\ engine \in [pc : EnginePcs, edge : Nat, child : Nat]
      /\ missions = <<>> <=> Len(missions) = 0
      /\ missions = <<>> => Len(trail) = 0 /\ engine.pc = "rest"
      /\ DOMAIN inbox = 1..Len(inbox) /\ drain.at \in Nat
  BY CalmFacts
<1>1. PICK new \in Nat : new = Len(missions) + 1
  BY <1>0
<1>2. /\ DOMAIN missions' = DOMAIN missions \cup {new} /\ new \notin DOMAIN missions
      /\ Len(missions') = new
      /\ \A m \in DOMAIN missions : missions'[m] = missions[m]
      /\ missions'[new] = [step |-> step, parent |-> p, phase |-> "live"]
  BY <1>0, <1>1, AddedEffect
<1>3. /\ engine'.pc \in {"rest", "record"}
      /\ engine'.pc = "record" => engine.pc = "spawn" /\ engine'.child = new /\ new = Due + 1
  BY <1>0, <1>1, <1>2
<1>4. Due' = Due /\ Delivered' = Delivered
  BY DEF Due, Delivered
<1>5. /\ engine'.pc # "error" /\ drain'.failed = {} /\ starter'.pc # "pause"
      /\ \A i \in DOMAIN trail' : trail'[i].mission = i /\ trail'[i].child = i + 1
      /\ \A i, j \in DOMAIN inbox' : i < j => inbox'[i].mission < inbox'[j].mission
  BY <1>3 DEF CalmInv
<1>6. missions'[1].step = Entry /\ Due' \in DOMAIN missions'
  <2>1. CASE missions = <<>>
    BY <1>0, <1>1, <1>2, <1>4, <2>1 DEF Due
  <2>2. CASE missions # <<>>
    <3>1. 1 \in DOMAIN missions
      BY <1>0, <2>2
    <3> QED BY <1>2, <1>4, <2>2, <3>1 DEF CalmInv
  <2> QED BY <2>1, <2>2
<1>7. engine'.pc \in {"spawn", "record", "pause", "fail", "end"} => run'.status = "running" /\ Delivered' = Due'
  BY <1>0, <1>3, <1>4 DEF CalmInv
<1>8. engine'.pc = "record" => engine'.child = Due' + 1
  BY <1>3, <1>4
<1>9. ASSUME NEW m \in DOMAIN missions', m >= Due', missions'[m].phase # "live"
      PROVE  ToDeliver(m)'
  <2>1. m \in DOMAIN missions /\ missions[m].phase # "live" /\ m >= Due
    BY <1>2, <1>4, <1>9
  <2>2. run.status = "running"
    BY <1>0, <2>1 DEF CalmInv
  <2>3. ToDeliver(m)
    BY <2>1, <2>2 DEF CalmInv
  <2> QED BY <1>3, <2>3 DEF ToDeliver
<1> QED BY <1>5, <1>6, <1>7, <1>8, <1>9 DEF CalmInv

\* A mission ends: it is the last one, so its event is the last one too.
LEMMA CalmEnds ==
  ASSUME IInv, Calm, CalmInv, drain.at <= drain.size + 1, NEW m \in DOMAIN missions, MissionEnds(m)
  PROVE  CalmInv'
<1>0. /\ TypeOK /\ BatchInv /\ EndedInv /\ Len(missions) \in Nat /\ DOMAIN missions = 1..Len(missions)
      /\ \A k \in DOMAIN missions : k < Len(missions) => missions[k].phase # "live"
      /\ Len(inbox) \in Nat /\ DOMAIN inbox = 1..Len(inbox)
      /\ \A i \in DOMAIN inbox : inbox[i].mission \in DOMAIN missions
      /\ drain.at \in Nat \ {0} /\ drain.size \in 0..Len(inbox)
      /\ missions # <<>> /\ 1 \in DOMAIN missions
  BY CalmFacts
<1>1. PICK new \in Nat : new = Len(inbox) + 1
  BY <1>0
<1>2. /\ DOMAIN inbox' = DOMAIN inbox \cup {new}
      /\ \A i \in DOMAIN inbox : inbox'[i] = inbox[i]
      /\ inbox'[new].mission = m
  BY <1>0, <1>1, InboxGrows
<1>3. /\ DOMAIN missions' = DOMAIN missions
      /\ \A c \in DOMAIN missions :
            /\ missions'[c].step = missions[c].step
            /\ c # m => missions'[c].phase = missions[c].phase
      /\ missions[m].phase = "live"
      /\ UNCHANGED <<run, trail, drain, engine, starter>>
  BY <1>0, EndsEffect DEF MissionEnds
<1>4. \A i \in DOMAIN inbox : inbox[i].mission < m
  <2>1. m = Len(missions)
    BY <1>0, <1>3
  <2> QED BY <1>0, <1>3, <2>1 DEF EndedInv
<1>5. engine.pc # "rest" => drain.at \in DOMAIN inbox
  BY <1>0 DEF BatchInv
<1>6. Due' = Due /\ (engine.pc # "rest" => Delivered' = Delivered)
  BY <1>2, <1>3, <1>5 DEF Due, Delivered
<1>7. /\ engine'.pc # "error" /\ drain'.failed = {} /\ starter'.pc # "pause"
      /\ \A i \in DOMAIN trail' : trail'[i].mission = i /\ trail'[i].child = i + 1
      /\ engine'.pc = "record" => engine'.child = Due' + 1
      /\ engine'.pc \in {"spawn", "record", "pause", "fail", "end"} => run'.status = "running" /\ Delivered' = Due'
  BY <1>3, <1>6 DEF CalmInv
<1>8. missions'[1].step = Entry /\ Due' \in DOMAIN missions'
  BY <1>0, <1>3, <1>6 DEF CalmInv
<1>9. ASSUME NEW i \in DOMAIN inbox', NEW j \in DOMAIN inbox', i < j
      PROVE  inbox'[i].mission < inbox'[j].mission
  <2>1. i \in DOMAIN inbox
    BY <1>0, <1>1, <1>2, <1>9
  <2> QED BY <1>2, <1>4, <1>9, <2>1 DEF CalmInv
<1>10. ASSUME run.status = "running", NEW k \in DOMAIN missions, k >= Due, missions'[k].phase # "live"
       PROVE  ToDeliver(k)'
  <2>1. CASE k = m
    <3>1. new >= drain.at /\ (new = drain.at => engine.pc = "rest")
      BY <1>0, <1>1, <1>5
    <3> QED BY <1>2, <1>3, <2>1, <3>1 DEF ToDeliver
  <2>2. CASE k # m
    <3>1. ToDeliver(k)
      BY <1>3, <1>10, <2>2 DEF CalmInv
    <3> QED BY <1>2, <1>3, <3>1 DEF ToDeliver
  <2> QED BY <2>1, <2>2
<1> QED BY <1>3, <1>6, <1>7, <1>8, <1>9, <1>10 DEF CalmInv

\* The drain goes to its next event, or starts over at the first.
LEMMA CalmDrain ==
  ASSUME IInv, Calm, CalmInv, UNCHANGED <<run, trail, missions, inbox>>, starter'.pc # "pause",
         engine'.pc = "rest", drain'.failed = {}, drain'.at \in Nat,
         \/ drain'.at <= drain.at /\ engine.pc # "ok"
         \/ drain'.at = drain.at + 1 /\ engine.pc = "ok"
         \/ drain'.at = 1
  PROVE  CalmInv'
<1>0. DOMAIN inbox = 1..Len(inbox) /\ Len(inbox) \in Nat /\ drain.at \in Nat \ {0}
  BY CalmFacts
<1>1. ASSUME NEW m, ToDeliver(m) PROVE ToDeliver(m)'
  <2>1. PICK i \in DOMAIN inbox :
          /\ inbox[i].mission = m /\ i >= drain.at
          /\ i = drain.at => engine.pc \notin {"ok", "error"}
    BY <1>1 DEF ToDeliver
  <2>2. i >= drain'.at
    BY <1>0, <2>1
  <2> QED BY <2>1, <2>2 DEF ToDeliver
<1> QED BY <1>1 DEF CalmInv, Due

\* A batch without failures is gone when its marks are committed.
LEMMA CalmCommit ==
  ASSUME IInv, Calm, CalmInv, Commit, UNCHANGED faults
  PROVE  CalmInv'
<1>0. /\ TypeOK /\ BatchInv /\ Len(inbox) \in Nat /\ DOMAIN inbox = 1..Len(inbox)
      /\ drain.at \in Nat \ {0} /\ drain.size \in 0..Len(inbox)
  BY CalmFacts
<1>1. engine.pc = "rest" /\ drain.at > drain.size /\ drain' = NoDrain
      /\ UNCHANGED <<run, trail, missions, engine, starter>>
  BY <1>0 DEF Commit, BatchInv
<1>2. CASE UNCHANGED inbox
  BY <1>1, <1>2, CalmDrain DEF NoDrain, CalmInv
<1>3. CASE inbox' = Kept \o SubSeq(inbox, drain.size + 1, Len(inbox))
  <2> DEFINE rest == SubSeq(inbox, drain.size + 1, Len(inbox))
             left == Len(inbox) - drain.size
  <2>1. Kept \in Seq(Pending) /\ Len(Kept) = 0
    <3>1. Retried = {}
      BY DEF Retried, CalmInv
    <3>2. Cardinality(Retried) = 0
      BY <3>1, FS_EmptySet
    <3>3. DOMAIN Kept = 1..0
      BY <3>2 DEF Kept
    <3>4. Kept \in Seq(Pending)
      BY <1>0, KeptType
    <3> QED BY <3>3, <3>4, LenProperties
  <2>2. left \in Nat /\ \A i \in (drain.size + 1)..Len(inbox) : inbox[i] \in Pending
    BY <1>0, Sequences
  <2>3. /\ rest \in Seq(Pending) /\ Len(rest) = left
        /\ \A i \in 1..left : rest[i] = inbox[drain.size + i]
    <3>1. /\ rest \in Seq(Pending)
          /\ Len(rest) = IF drain.size + 1 <= Len(inbox) THEN Len(inbox) - (drain.size + 1) + 1 ELSE 0
          /\ \A i \in 1..Len(inbox) - (drain.size + 1) + 1 : rest[i] = inbox[(drain.size + 1) + i - 1]
      <4> DEFINE from == drain.size + 1
                 last == Len(inbox)
      <4>1. from \in Int /\ last \in Int /\ \A i \in from..last : inbox[i] \in Pending
        BY <1>0, <2>2
      <4> HIDE DEF from, last
      <4>2. /\ SubSeq(inbox, from, last) \in Seq(Pending)
            /\ Len(SubSeq(inbox, from, last)) = IF from <= last THEN last - from + 1 ELSE 0
            /\ \A i \in 1..last - from + 1 : SubSeq(inbox, from, last)[i] = inbox[from + i - 1]
        BY <4>1, SubSeqProperties
      <4> QED BY <4>2, Zenon DEF from, last
    <3>2. Len(inbox) - (drain.size + 1) + 1 = left /\ \A i \in 1..left : (drain.size + 1) + i - 1 = drain.size + i
      BY <1>0
    <3> HIDE DEF rest, left
    <3>3. \A i \in 1..left : rest[i] = inbox[drain.size + i]
      BY <3>1, <3>2
    <3>4. Len(rest) = left
      BY <1>0, <3>1 DEF left
    <3> QED BY <3>1, <3>3, <3>4
  <2> HIDE DEF rest, left
  <2>4. /\ inbox' \in Seq(Pending) /\ Len(inbox') = left
        /\ \A i \in 1..left : inbox'[i] = rest[i]
    <3>1. /\ Kept \o rest \in Seq(Pending) /\ Len(Kept \o rest) = Len(Kept) + Len(rest)
          /\ \A k \in 1..Len(Kept) + Len(rest) :
               (Kept \o rest)[k] = IF k <= Len(Kept) THEN Kept[k] ELSE rest[k - Len(Kept)]
      BY <2>1, <2>3, ConcatProperties
    <3>2. inbox' = Kept \o rest
      BY <1>3 DEF rest
    <3> QED BY <2>1, <2>2, <2>3, <3>1, <3>2
  <2>5. DOMAIN inbox' = 1..left /\ \A i \in 1..left : inbox'[i] = inbox[drain.size + i]
    BY <2>3, <2>4, LenProperties
  <2>6. \A i \in 1..left : drain.size + i \in DOMAIN inbox
    BY <1>0, <2>2 DEF left
  <2>7. ASSUME NEW i \in DOMAIN inbox', NEW j \in DOMAIN inbox', i < j
        PROVE  inbox'[i].mission < inbox'[j].mission
    <3>1. drain.size + i < drain.size + j
      BY <1>0, <2>2, <2>5, <2>7
    <3> QED BY <2>5, <2>6, <3>1 DEF CalmInv
  <2>8. ASSUME NEW m, ToDeliver(m) PROVE ToDeliver(m)'
    <3>1. PICK i \in DOMAIN inbox : inbox[i].mission = m /\ i >= drain.at
      BY <2>8 DEF ToDeliver
    <3>2. PICK k \in 1..left : i = drain.size + k
      <4>1. i - drain.size \in 1..left /\ i = drain.size + (i - drain.size)
        BY <1>0, <1>1, <3>1 DEF left
      <4> QED BY <4>1
    <3>3. inbox'[k].mission = m /\ k \in DOMAIN inbox' /\ k >= 1
      BY <2>5, <3>1, <3>2
    <3> QED BY <1>1, <3>3 DEF ToDeliver, NoDrain
  <2> QED BY <1>1, <2>7, <2>8 DEF CalmInv, Due, NoDrain
<1> QED BY <1>2, <1>3 DEF Commit

\* A delivery is let through exactly if it is about the mission that is due.
LEMMA CalmDeliver ==
  ASSUME IInv, Calm, CalmInv, Deliver, UNCHANGED faults
  PROVE  CalmInv'
<1>0. /\ TypeOK /\ BatchInv /\ EndedInv /\ RunInv /\ PathInv
      /\ Len(trail) \in Nat /\ DOMAIN trail = 1..Len(trail)
      /\ DOMAIN missions = 1..Len(missions) /\ Len(missions) \in Nat
      /\ DOMAIN inbox = 1..Len(inbox) /\ Len(inbox) \in Nat /\ drain.at \in Nat \ {0}
      /\ Rows = DOMAIN missions
  BY CalmFacts DEF IInv
<1>1. /\ engine.pc = "rest" /\ Draining /\ drain.at <= drain.size
      /\ UNCHANGED <<run, trail, missions, inbox, drain, starter>>
  BY DEF Deliver
<1>2. engine' = Decision(Delivered)
  <2>1. faults \in Nat => faults + 1 # faults
    OBVIOUS
  <2>2. CASE engine' = [Resting EXCEPT !.pc = "error"]
    <3>1. Draining /\ (engine' = Decision(Delivered) \/ Fault)
      BY DEF Deliver
    <3> QED BY <2>1, <3>1 DEF Fault, Calm
  <2> QED BY <2>2 DEF Deliver
<1>3. engine'.pc \in {"ok", "pause", "fail", "end", "spawn"}
  BY <1>2 DEF Decision, Resting
<1>4. Due' = Due /\ Delivered' = Delivered
  BY <1>1 DEF Due, Delivered
<1>5. drain.at \in DOMAIN inbox /\ Delivered \in DOMAIN missions /\ missions[Delivered].phase # "live"
  BY <1>0, <1>1, DeliveredEnded
<1>6. ASSUME engine'.pc # "ok" PROVE run'.status = "running" /\ Delivered' = Due'
  <2>1. run.status = "running" /\ ~EdgeTakenFor(Delivered)
    BY <1>2, <1>6 DEF Decision, Resting
  <2> QED BY <1>1, <1>4, <2>1, DeliveredDue
<1>7. ASSUME run.status = "running", NEW m \in DOMAIN missions, m >= Due, missions[m].phase # "live",
             engine'.pc = "ok"
      PROVE  m # Delivered
  <2>1. SUFFICES ASSUME Delivered >= Due PROVE FALSE
    BY <1>0, <1>5, <1>7 DEF Due
  <2>2. ~EdgeTakenFor(Delivered) /\ Delivered = Due
    BY <1>0, <1>1, <1>5, <1>7, <2>1, DeliveredDue DEF Due
  <2>3. missions[Due].step = run.step
    <3>1. run.step = TrailEnd
      BY <1>0, <1>7 DEF PathInv, RunInv, Calm
    <3>2. CASE Len(trail) = 0
      <4>1. trail = <<>>
        BY <1>0, <3>2, Sequences, EmptySeq
      <4>2. missions # <<>>
        BY <1>5, CalmFacts
      <4> QED BY <3>1, <3>2, <4>1, <4>2 DEF Due, TrailEnd, CalmInv
    <3>3. CASE Len(trail) # 0
      <4>1. Len(trail) \in DOMAIN trail
        BY <1>0, <3>3
      <4>2. trail # <<>>
        BY <1>0, <3>3, EmptySeq
      <4>3. Edges[trail[Len(trail)].edge].to = missions[trail[Len(trail)].child].step
        BY <4>1 DEF IInv, TrailInv
      <4> QED BY <3>1, <4>1, <4>2, <4>3 DEF Due, TrailEnd, CalmInv
    <3> QED BY <3>2, <3>3
  <2>4. missions[Delivered].phase # "deleted"
    BY <1>0, <1>5, RowsAre
  <2>5. ~(missions[Delivered].phase = "deleted" \/ run.status # "running" \/ Stale(Delivered) \/ EdgeTakenFor(Delivered))
    BY <1>7, <2>2, <2>3, <2>4 DEF Stale
  <2>6. engine'.pc # "ok"
    BY <1>2, <2>5 DEF Decision, Resting
  <2> QED BY <1>7, <2>6
<1>8. ASSUME run.status = "running", NEW m \in DOMAIN missions, m >= Due, missions[m].phase # "live"
      PROVE  ToDeliver(m)'
  <2>1. PICK i \in DOMAIN inbox : inbox[i].mission = m /\ i >= drain.at
    BY <1>8 DEF CalmInv, ToDeliver
  <2>2. i = drain.at => engine'.pc # "ok"
    BY <1>7, <1>8, <2>1 DEF Delivered
  <2> QED BY <1>1, <1>3, <2>1, <2>2 DEF ToDeliver
<1> QED BY <1>1, <1>3, <1>4, <1>6, <1>8 DEF CalmInv

\* The successor is adopted or created: it is the mission after the one that is due.
LEMMA CalmSpawn ==
  ASSUME IInv, [Next]_vars, Calm, CalmInv, Spawn, UNCHANGED faults, faults \in Nat
  PROVE  CalmInv'
<1>0. /\ TypeOK /\ BatchInv /\ EndedInv
      /\ engine \in [pc : EnginePcs, edge : Nat, child : Nat]
      /\ Rows = DOMAIN missions /\ DOMAIN missions = 1..Len(missions) /\ Len(missions) \in Nat
      /\ \A k \in DOMAIN missions : missions[k].parent = k - 1
  BY CalmFacts
<1>1. /\ engine.pc = "spawn" /\ UNCHANGED <<trail, inbox, drain, starter>>
      /\ run.status = "running" /\ Delivered = Due
  BY DEF Spawn, CalmInv
<1>2. Delivered \in DOMAIN missions /\ Delivered \in Nat /\ Edges[engine.edge].to \in Steps
  BY <1>1, SpawnedTypes
<1>3. run'.status = "running"
  BY <1>1 DEF Spawn, Warn, Running
<1>4. ~Fault
  BY DEF Fault
<1>5. Due' = Due /\ Delivered' = Delivered
  BY <1>1 DEF Due, Delivered
<1>6. \A c \in ChildrenOf(Delivered) : c = Due + 1
  <2>1. \A c \in ChildrenOf(Delivered) : c \in DOMAIN missions /\ missions[c].parent = Delivered
    BY <1>0 DEF ChildrenOf
  <2> QED BY <1>0, <1>1, <2>1
<1>7. CASE missions' = missions
  <2>1. CASE WorkflowChild(Delivered) # {} /\ engine' = Adopted(Min(WorkflowChild(Delivered)))
    <3>1. Min(WorkflowChild(Delivered)) = Due + 1
      <4>1. ChildrenOf(Delivered) \in SUBSET Nat /\ ChildrenOf(Delivered) # {}
        BY <1>0, <2>1 DEF ChildrenOf, WorkflowChild
      <4>2. Min(ChildrenOf(Delivered)) = Due + 1 /\ Min(ChildrenOf(Delivered)) \in Nat
        BY <1>6, <4>1, MinIn
      <4> QED BY <4>1, <4>2, MinOne DEF WorkflowChild
    <3>2. engine'.pc = "record" /\ engine'.child = Due + 1
      BY <1>0, <2>1, <3>1 DEF Adopted
    <3>3. \A m : ToDeliver(m) => ToDeliver(m)'
      BY <1>1, <3>2 DEF ToDeliver
    <3> QED BY <1>1, <1>3, <1>5, <1>7, <3>2, <3>3 DEF CalmInv
  <2>2. CASE ~(WorkflowChild(Delivered) # {} /\ engine' = Adopted(Min(WorkflowChild(Delivered))))
    <3>1. WorkflowChild(Delivered) = {} /\ Insert(Edges[engine.edge].to, Delivered)
      BY <1>0, <1>2, <1>4, <2>2 DEF Spawn
    <3>2. Added(Edges[engine.edge].to, Delivered)
      BY <3>1 DEF Insert, Added
    <3>3. Len(missions') = Len(missions) + 1
      BY <1>0, <1>1, <1>2, <3>2, AddedEffect
    <3> QED BY <1>0, <1>7, <3>3
  <2> QED BY <2>1, <2>2
<1>8. CASE missions' # missions
  <2>1. /\ WorkflowChild(Delivered) = {} /\ Insert(Edges[engine.edge].to, Delivered)
        /\ engine' = [engine EXCEPT !.pc = "record", !.child = Len(missions')]
    BY <1>4, <1>8 DEF Spawn
  <2>2. Added(Edges[engine.edge].to, Delivered)
    BY <2>1 DEF Insert, Added
  <2>3. Delivered = Len(missions)
    <3>1. SUFFICES ASSUME Delivered # Len(missions) PROVE FALSE
      OBVIOUS
    <3>2. Delivered + 1 \in DOMAIN missions /\ missions[Delivered + 1].parent = Delivered
      BY <1>0, <1>2, <3>1
    <3> QED BY <1>0, <2>1, <3>2 DEF WorkflowChild, ChildrenOf
  <2>4. Delivered \in Nat /\ missions # <<>> /\ starter'.pc # "pause"
    BY <1>0, <1>1, <1>2, CalmFacts DEF CalmInv
  <2> QED BY <1>1, <1>2, <1>3, <2>1, <2>2, <2>3, <2>4, CalmAdded
<1> QED BY <1>7, <1>8

\* A recorded edge makes the next mission due; a run that leaves "running" waits for none.
LEMMA CalmTransition ==
  ASSUME IInv, [Next]_vars, Calm, CalmInv, Record \/ PauseRun \/ FailRun \/ EndRun, UNCHANGED faults, faults \in Nat
  PROVE  CalmInv'
<1>0. /\ TypeOK /\ BatchInv /\ EndedInv
      /\ engine \in [pc : EnginePcs, edge : Nat, child : Nat]
      /\ Len(trail) \in Nat /\ DOMAIN trail = 1..Len(trail)
      /\ DOMAIN missions = 1..Len(missions) /\ Len(missions) \in Nat
      /\ DOMAIN inbox = 1..Len(inbox) /\ drain.at \in Nat
  BY CalmFacts
<1>1. ~Fault
  BY DEF Fault
<1>2. /\ engine' = [engine EXCEPT !.pc = "ok"] /\ engine.pc \in {"record", "pause", "fail", "end"}
      /\ UNCHANGED <<missions, inbox, drain, starter>>
  BY <1>1 DEF Record, PauseRun, FailRun, EndRun, Transition
<1>3. engine'.pc = "ok"
  BY <1>0, <1>2
<1>4. CASE run'.status # "running" /\ UNCHANGED trail
  BY <1>2, <1>3, <1>4 DEF CalmInv, Due
<1>5. CASE PauseRun \/ FailRun \/ EndRun
  <2>1. run'.status # "running"
    BY <1>0, <1>1, <1>5 DEF PauseRun, FailRun, EndRun, Transition, Paused, TypeOK
  <2>2. trail' = trail \o <<>>
    BY <1>1, <1>5 DEF PauseRun, FailRun, EndRun, Transition
  <2>3. trail \o <<>> = trail
    BY <1>0, Sequences, ConcatEmptySeq
  <2> QED BY <1>4, <2>1, <2>2, <2>3
<1>6. CASE Record
  <2> DEFINE new == [edge |-> engine.edge, mission |-> Delivered, child |-> engine.child]
  <2>1. trail' = trail \o <<new>> /\ run' = Running(Edges[engine.edge].to) /\ engine.pc = "record"
    BY <1>1, <1>6 DEF Record, Transition
  <2>2. engine.edge \in DOMAIN Edges /\ Delivered \in DOMAIN missions /\ engine.child \in DOMAIN missions
    BY <1>0, <2>1, DeliveredEnded DEF IInv, EngineInv
  <2>3. Delivered = Due /\ engine.child = Due + 1
    BY <2>1 DEF CalmInv
  <2>4. /\ DOMAIN trail' = 1..(Len(trail) + 1) /\ Len(trail') = Len(trail) + 1
        /\ \A i \in 1..Len(trail) : trail'[i] = trail[i]
        /\ trail'[Len(trail) + 1] = new
    <3>1. new \in Taken /\ trail \in Seq(Taken)
      BY <1>0, <2>2, Sequences DEF Taken
    <3> HIDE DEF new
    <3>2. trail' = Append(trail, new)
      BY <2>1, <3>1, AppendIsConcat
    <3>3. /\ trail' \in Seq(Taken) /\ Len(trail') = Len(trail) + 1
          /\ \A i \in 1..Len(trail) : trail'[i] = trail[i]
          /\ trail'[Len(trail) + 1] = new
      BY <3>1, <3>2, AppendProperties
    <3> QED BY <3>3, LenProperties
  <2>5. Due' = Due + 1 /\ Due = Len(trail) + 1
    BY <2>4 DEF Due
  <2>6. \A i \in DOMAIN trail' : trail'[i].mission = i /\ trail'[i].child = i + 1
    <3>1. new.mission = Len(trail) + 1 /\ new.child = (Len(trail) + 1) + 1
      BY <2>3, <2>5
    <3> HIDE DEF new
    <3>2. ASSUME NEW i \in DOMAIN trail' PROVE trail'[i].mission = i /\ trail'[i].child = i + 1
      <4>1. CASE i \in DOMAIN trail
        BY <1>0, <2>4, <4>1 DEF CalmInv
      <4>2. CASE i = Len(trail) + 1
        BY <2>4, <3>1, <4>2
      <4> QED BY <1>0, <2>4, <4>1, <4>2
    <3> QED BY <3>2
  <2>7. ASSUME NEW m \in DOMAIN missions, m >= Due', missions[m].phase # "live"
        PROVE  ToDeliver(m)'
    <3>1. m >= Due /\ m # Delivered
      BY <1>0, <2>3, <2>5, <2>7
    <3>2. PICK i \in DOMAIN inbox : inbox[i].mission = m /\ i >= drain.at
      BY <2>1, <2>7, <3>1 DEF CalmInv, ToDeliver
    <3>3. i # drain.at
      BY <3>1, <3>2 DEF Delivered
    <3> QED BY <1>2, <3>2, <3>3 DEF ToDeliver
  <2>8. missions'[1].step = Entry /\ Due' \in DOMAIN missions'
    <3>1. missions # <<>>
      BY <2>2, CalmFacts
    <3> QED BY <1>2, <2>2, <2>3, <2>5, <3>1 DEF CalmInv
  <2> QED BY <1>2, <1>3, <2>6, <2>7, <2>8 DEF CalmInv
<1> QED BY <1>5, <1>6

\* Faults are counted, and the batch is never passed by more than its end.
LEMMA CountsStep ==
  ASSUME IInv, [Next]_vars, faults \in Nat, drain.at <= drain.size + 1
  PROVE  /\ faults' \in Nat /\ drain'.at <= drain'.size + 1
         /\ Calm' => Calm /\ UNCHANGED faults
<1>1. faults' \in {faults, faults + 1} /\ deletes' \in {deletes, deletes + 1} /\ deletes \in Nat
  <2>1. deletes \in Nat
    BY DEF IInv, ChainInv
  <2>2. CASE StartRun \/ SpawnEntry \/ ProvisionEntry \/ PauseEntry \/ Recover
    BY <2>1, <2>2 DEF StartRun, SpawnEntry, ProvisionEntry, PauseEntry, Recover, Fault, Fine
  <2>3. CASE \E m \in DOMAIN missions : MissionEnds(m) \/ DeleteMission(m)
    BY <2>1, <2>3 DEF MissionEnds, DeleteMission
  <2>4. CASE Claim \/ Deliver \/ Settle \/ Commit \/ Crash
    BY <2>1, <2>4 DEF Claim, Deliver, Settle, Commit, Crash, Fault, Fine
  <2>5. CASE Spawn
    <3>1. UNCHANGED deletes
      BY <2>5 DEF Spawn
    <3>2. UNCHANGED faults \/ Fault
      BY <2>5 DEF Spawn, Fine
    <3> QED BY <2>1, <3>1, <3>2 DEF Fault
  <2>6. CASE Record \/ PauseRun \/ FailRun \/ EndRun
    BY <2>1, <2>6 DEF Record, PauseRun, FailRun, EndRun, Transition, Fault, Fine
  <2>7. CASE UNCHANGED vars
    BY <2>1, <2>7 DEF vars
  <2> QED BY <2>1, <2>2, <2>3, <2>4, <2>5, <2>6, <2>7 DEF Next, StarterStep, DrainStep, EngineStep
<1>2. drain'.at <= drain'.size + 1
  <2>0. drain \in [size : Nat, at : Nat \ {0}, failed : SUBSET Nat] /\ BatchInv
    BY DEF IInv, BatchInv
  <2>1. CASE UNCHANGED drain
    BY <2>1
  <2>2. CASE drain' = NoDrain
    BY <2>2 DEF NoDrain
  <2>3. CASE Claim
    BY <2>3, Sequences DEF Claim, NoDrain, IInv
  <2>4. CASE Settle
    <3>1. drain'.at = drain.at + 1 /\ drain'.size = drain.size /\ engine.pc # "rest"
      BY <2>0, <2>4 DEF Settle
    <3> QED BY <2>0, <3>1 DEF BatchInv
  <2>5. UNCHANGED drain \/ drain' = NoDrain \/ Claim \/ Settle
    BY DEF Next, StarterStep, DrainStep, EngineStep, vars, StartRun, SpawnEntry, ProvisionEntry, PauseEntry,
           Recover, MissionEnds, DeleteMission, Deliver, Spawn, Record, PauseRun, FailRun, EndRun,
           Transition, Commit, Crash
  <2> QED BY <2>1, <2>2, <2>3, <2>4, <2>5
<1> QED BY <1>1, <1>2 DEF Calm

\* The first mission is created for the entry, or nothing is.
LEMMA CalmEntry ==
  ASSUME IInv, [Next]_vars, Calm, CalmInv, SpawnEntry, UNCHANGED faults, faults \in Nat
  PROVE  CalmInv'
<1>0. TypeOK /\ PathInv /\ missions = <<>> /\ Len(missions) = 0 /\ Len(trail) = 0
  BY CalmFacts DEF IInv, SpawnEntry
<1>1. starter.pc = "entry" /\ UNCHANGED <<trail, inbox, drain, engine>> /\ ~Fault
  BY DEF SpawnEntry, Fault
<1>2. starter'.pc # "pause"
  BY <1>0, <1>1 DEF SpawnEntry, Idle, TypeOK
<1>3. CASE UNCHANGED missions
  BY <1>0, <1>1, <1>2, <1>3, CalmQuiet
<1>4. CASE missions' # missions
  <2>1. Added(starter.step, 0)
    BY <1>4 DEF SpawnEntry, Insert, Added
  <2>2. starter.step = Entry
    <3>1. trail = <<>>
      BY <1>0, Sequences, EmptySeq
    <3> QED BY <1>0, <1>1, <3>1 DEF PathInv, TrailEnd, Calm
  <2>3. starter.step \in Steps /\ 0 \in Nat
    BY SpawnedTypes
  <2> QED BY <1>0, <1>1, <1>2, <2>1, <2>2, <2>3, CalmAdded
<1> QED BY <1>3, <1>4

LEMMA RestartStep ==
  ASSUME IInv, RestartInv, [Next]_vars
  PROVE  RestartInv'
<1>1. faults \in Nat /\ drain.at <= drain.size + 1 /\ BatchInv /\ StarterInv
  BY DEF RestartInv, IInv
<1>2. faults' \in Nat /\ drain'.at <= drain'.size + 1
  BY <1>1, CountsStep
<1>3. SUFFICES ASSUME Calm' PROVE CalmInv'
  BY <1>2 DEF RestartInv
<1>4. Calm /\ CalmInv /\ UNCHANGED faults /\ ~Fault
  BY <1>1, <1>3, CountsStep DEF RestartInv, Fault
<1>5. CASE StartRun
  <2>1. missions = <<>> /\ starter'.pc # "pause"
    BY <1>1, <1>5 DEF StartRun, StarterInv
  <2> QED BY <1>4, <1>5, <2>1, CalmQuiet DEF StartRun
<1>6. CASE ProvisionEntry \/ PauseEntry \/ Recover
  <2>1. starter'.pc # "pause" /\ UNCHANGED <<run, trail, missions, inbox, drain, engine>>
    BY <1>4, <1>6 DEF ProvisionEntry, PauseEntry, Recover, Idle, CalmInv
  <2> QED BY <1>4, <2>1, CalmQuiet
<1>7. CASE SpawnEntry
  BY <1>1, <1>4, <1>7, CalmEntry
<1>8. CASE \E m \in DOMAIN missions : MissionEnds(m)
  BY <1>1, <1>4, <1>8, CalmEnds
<1>9. CASE \E m \in DOMAIN missions : DeleteMission(m)
  BY <1>3, <1>4, <1>9 DEF DeleteMission, Calm
<1>10. CASE Claim
  <2>1. drain = NoDrain /\ engine.pc = "rest"
    BY <1>1, <1>10 DEF Claim, BatchInv, Draining
  <2>2. UNCHANGED <<run, trail, missions, inbox, engine, starter>> /\ drain'.at = 1 /\ drain'.failed = {}
    BY <1>10 DEF Claim, NoDrain
  <2> QED BY <1>4, <2>1, <2>2, CalmDrain DEF CalmInv
<1>11. CASE Deliver \/ Spawn \/ Record \/ PauseRun \/ FailRun \/ EndRun
  BY <1>1, <1>4, <1>11, CalmDeliver, CalmSpawn, CalmTransition
<1>12. CASE Settle
  <2>0. drain \in [size : Nat, at : Nat \ {0}, failed : SUBSET Nat]
    BY <1>1 DEF BatchInv
  <2>1. engine.pc = "ok" /\ engine' = Resting /\ UNCHANGED <<run, trail, missions, inbox, starter>>
    BY <1>4, <1>12 DEF Settle, CalmInv
  <2>2. drain' = [drain EXCEPT !.at = @ + 1, !.failed = @]
    BY <1>4, <1>12, <2>1 DEF Settle
  <2>3. drain'.at = drain.at + 1 /\ drain'.at \in Nat /\ drain'.failed = {}
    BY <1>4, <2>0, <2>2 DEF CalmInv
  <2> QED BY <1>4, <2>1, <2>3, CalmDrain DEF Resting, CalmInv
<1>13. CASE Commit
  BY <1>4, <1>13, CalmCommit
<1>14. CASE Crash
  <2>1. /\ UNCHANGED <<run, trail, missions, inbox>>
        /\ drain'.at = 1 /\ drain'.failed = {} /\ engine'.pc = "rest" /\ starter'.pc # "pause"
    BY <1>14 DEF Crash, NoDrain, Resting, Idle
  <2> QED BY <1>4, <2>1, CalmDrain
<1>15. CASE UNCHANGED vars
  BY <1>4, <1>15, CalmQuiet DEF vars, CalmInv
<1> QED BY <1>5, <1>6, <1>7, <1>8, <1>9, <1>10, <1>11, <1>12, <1>13, <1>14, <1>15
        DEF Next, StarterStep, DrainStep, EngineStep

\* However often the process restarts, and between whichever of its writes: without a failed call
\* or a deletion, a running run's next mission is at work or its event is still to be delivered
\* (OnMissionTerminal's adoption, RecoverRunsWithoutEntry).
THEOREM RestartsStrandNothing == Spec => []NeverStranded
<1>1. Init => RestartInv
  <2> SUFFICES ASSUME Init PROVE RestartInv
    OBVIOUS
  <2>1. DOMAIN missions = {} /\ DOMAIN trail = {} /\ DOMAIN inbox = {}
    BY DEF Init
  <2> QED BY <2>1 DEF Init, RestartInv, CalmInv, NoDrain, Resting, Idle
<1>2. IInv /\ RestartInv /\ [Next]_vars => RestartInv'
  BY RestartStep
<1>3. IInv /\ RestartInv => NeverStranded
  <2> SUFFICES ASSUME IInv, RestartInv, Calm, run.status = "running", missions # <<>>
               PROVE  /\ Due \in DOMAIN missions
                      /\ missions[Due].step = run.step
                      /\ missions[Due].phase = "live" \/ ToDeliver(Due)
    BY DEF NeverStranded, Due, Calm
  <2>1. CalmInv /\ PathInv /\ RunInv /\ TypeOK /\ TrailInv
    BY DEF RestartInv, IInv
  <2>2. Len(trail) \in Nat /\ DOMAIN trail = 1..Len(trail)
    BY <2>1, Sequences
  <2>3. Due \in DOMAIN missions /\ Due >= Due
    BY <2>1, <2>2 DEF CalmInv, Due
  <2>4. missions[Due].step = run.step
    <3>1. run.step = TrailEnd
      BY <2>1 DEF PathInv, RunInv, Calm
    <3>2. CASE Len(trail) = 0
      <4>1. trail = <<>>
        BY <2>1, <3>2, Sequences, EmptySeq
      <4> QED BY <2>1, <3>1, <3>2, <4>1 DEF Due, TrailEnd, CalmInv
    <3>3. CASE Len(trail) # 0
      <4>1. Len(trail) \in DOMAIN trail /\ trail # <<>>
        BY <2>2, <3>3, EmptySeq
      <4>2. Edges[trail[Len(trail)].edge].to = missions[trail[Len(trail)].child].step
        BY <2>1, <4>1 DEF TrailInv
      <4> QED BY <2>1, <3>1, <4>1, <4>2 DEF Due, TrailEnd, CalmInv
    <3> QED BY <3>2, <3>3
  <2> QED BY <2>1, <2>3, <2>4 DEF CalmInv
<1> QED BY <1>1, <1>2, <1>3, Invariant, PTL DEF Spec
=============================================================================
