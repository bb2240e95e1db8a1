------------------------- MODULE MissionDriverProofs -------------------------
(***************************************************************************)
(* Theorems about the mission driver: for any number of missions, loops,   *)
(* requests in flight and restarts, and every interleaving of them.        *)
(***************************************************************************)
EXTENDS MissionDriver, MissionPhasesProofs

-----------------------------------------------------------------------------
(* What takes a mission into build. *)

Early(s) == s.phase \in {"discover", "plan", "failed"}

\* The inputs that leave an early mission early while its plan needs approval.
EarlyKinds ==
  {"phase_complete", "worker_failed", "review_infra_failure", "plan_infeasible",
   "ask_user", "resume", "cancel", "plan_replan", "plan_rediscover"}

LEMMA SwitchStaysEarly ==
  ASSUME NEW s \in StepStates, NEW in \in Inputs, in.kind \in EarlyKinds, Early(s),
         ~s.autoApprovePlan, ~NeverVisitsPlan(s)
  PROVE  Early(StepSwitch(s, in).next)
<1>1. Early(StepPhaseComplete(s, in).next)
  <2>1. CASE s.phase = "plan"
    BY <2>1 DEF StepPhaseComplete, NeedsApproval, WithPause, To, Early, StepStates
  <2>2. CASE s.phase # "plan"
    <3>1. NextPhases(s.flow, s.phase) = IF s.phase = "discover" THEN {"plan"} ELSE {}
      BY <2>2 DEF NextPhases, Ordered, NeverVisitsPlan, Phases, Early
    <3>2. CASE s.phase = "discover"
      <4>1. (CHOOSE p \in NextPhases(s.flow, s.phase) : TRUE) = "plan"
        BY <3>1, <3>2
      <4>2. Enter(s, "plan").phase = "plan"
        BY DEF Enter, StepStates
      <4> QED BY <3>1, <3>2, <4>1, <4>2 DEF StepPhaseComplete, NeedsApproval, To, Early
    <3>3. CASE s.phase # "discover"
      BY <2>2, <3>1, <3>3 DEF StepPhaseComplete, NeedsApproval, NoOp, To, Early
    <3> QED BY <3>2, <3>3
  <2> QED BY <2>1, <2>2
<1>2. Early(StepWorkerFailed(s, in).next)
  BY WorkerFailedHolds DEF Holds, Early
<1>3. /\ Early(Pause(s, "infra").next)
      /\ Early(Fail(s).next)
      /\ Early(NoOp(s).next)
      /\ Early(To(WithStatus(s, "waiting_for_input"), "none").next)
      /\ Early(StepResume(s).next)
  BY DEF Pause, WithPause, Fail, WithPhaseFailed, NoOp, WithStatus, StepResume, To,
         Early, StepStates
<1>4. Early(StepPlanReplan(s).next) /\ Early(StepPlanRediscover(s).next)
  <2>1. ASSUME NEW p \in {"plan", "discover"}
        PROVE  Early([Enter(s, p) EXCEPT !.pauseReason = NoReason])
    BY DEF Enter, Early, StepStates
  <2> QED BY <2>1 DEF StepPlanReplan, StepPlanRediscover, To, NoOp
<1>5. CASE in.kind = "cancel"
  BY <1>3, <1>5 DEF StepSwitch
<1> QED BY <1>1, <1>2, <1>3, <1>4, <1>5 DEF StepSwitch, EarlyKinds

LEMMA StepStaysEarly ==
  ASSUME NEW s \in StepStates, NEW in \in Inputs, in.kind \in EarlyKinds, Early(s),
         ~s.autoApprovePlan, ~NeverVisitsPlan(s)
  PROVE  Early(Step(s, in, "under").next)
<1> DEFINE t == [s EXCEPT !.units = ApplyVerification(s.units, in.verified)]
<1>1. t \in StepStates /\ SamePolicy(s, t) /\ t.phase = s.phase
  BY VerifyKeeps
<1> HIDE DEF t
<1>2. Early(StepSwitch(t, in).next)
  BY <1>1, SwitchStaysEarly DEF SamePolicy, NeverVisitsPlan, Early
<1>3. Early(Fail(s).next) /\ Early(NoOp(s).next)
  BY DEF Fail, WithPhaseFailed, NoOp, To, Early, StepStates
<1> QED BY <1>2, <1>3 DEF Step, StepInput, t

-----------------------------------------------------------------------------
(* Type correctness. *)

LoopRecord ==
  [pc : {"out", "advance", "turn", "reload", "apply", "release"},
   id : Missions \cup {0}, snap : StepStates, in : Inputs, next : StepStates]

ClientRecord ==
  [pc : {"away", "apply", "cancel_turn", "answer"}, id : Missions \cup {0},
   kind : Verbs, next : StepStates]

\* A loop and a request that are under way are about a mission, and a turn runs
\* on a mission that has not ended.
WorkInv ==
  /\ \A l \in Loops :
       /\ loops[l].pc # "out" => loops[l].id \in Missions
       /\ loops[l].pc = "turn" => ~Terminal(loops[l].snap.phase)
  /\ \A c \in Clients : clients[c].pc # "away" => clients[c].id \in Missions

TypeInv == TypeOK /\ WorkInv

LEMMA LoopPc ==
  ASSUME NEW r \in LoopRecord,
         NEW pc \in {"out", "advance", "turn", "reload", "apply", "release"}
  PROVE  [r EXCEPT !.pc = pc] \in LoopRecord
BY DEF LoopRecord

LEMMA LoopFields ==
  ASSUME NEW r \in LoopRecord, NEW s \in StepStates, NEW in \in Inputs,
         NEW pc \in {"out", "advance", "turn", "reload", "apply", "release"}
  PROVE  /\ [r EXCEPT !.pc = pc, !.snap = s] \in LoopRecord
         /\ [r EXCEPT !.pc = pc, !.in = in] \in LoopRecord
         /\ [r EXCEPT !.pc = pc, !.next = s] \in LoopRecord
BY DEF LoopRecord

LEMMA RequestFields ==
  ASSUME NEW i \in Missions, NEW k \in Verbs, NEW s \in StepStates
  PROVE  [pc |-> "apply", id |-> i, kind |-> k, next |-> s] \in ClientRecord
BY DEF ClientRecord

LEMMA CreatedType == Created \in StepStates
<1>1. Nothing \in Plans
  <2>1. Nothing \in [{} -> UnitStates]
    BY DEF Nothing
  <2> QED BY <2>1 DEF Plans
<1>2. ResolveAll \in Ledgers
  BY DEF ResolveAll, Ledgers, Closed, FindingStates
<1>3. InitialPhase(Flow) \in Phases
  BY DEF InitialPhase, Phases
<1>4. "idle" \in Statuses
  BY DEF Statuses
<1> QED BY <1>1, <1>2, <1>3, <1>4, PhasesAssumption, DriverAssumption
        DEF Created, StepStates

LEMMA RestingType == Out \in LoopRecord /\ Away \in ClientRecord
<1>1. In("resume") \in Inputs
  BY InType DEF Kinds
<1> QED BY <1>1, CreatedType DEF Out, Away, LoopRecord, ClientRecord, Verbs

LEMMA StatusType ==
  ASSUME NEW s \in StepStates, NEW p \in Plans
  PROVE  /\ [s EXCEPT !.status = "idle"] \in StepStates
         /\ [s EXCEPT !.status = "working"] \in StepStates
         /\ [s EXCEPT !.units = p] \in StepStates
BY DEF StepStates, Statuses

LEMMA InitTypeInv == Init => TypeInv
<1> SUFFICES ASSUME Init PROVE TypeInv
  OBVIOUS
<1>1. loops \in [Loops -> LoopRecord] /\ clients \in [Clients -> ClientRecord]
  BY RestingType DEF Init
<1>2. rows \in [Missions -> StepStates]
  BY CreatedType DEF Init
<1>3. WorkInv
  BY DEF Init, WorkInv, Out, Away
<1> QED BY <1>1, <1>2, <1>3 DEF Init, TypeInv, TypeOK, LoopRecord, ClientRecord

\* The facts about the current state that the steps use.
LEMMA TypeFacts ==
  ASSUME TypeInv
  PROVE  /\ rows \in [Missions -> StepStates]
         /\ loops \in [Loops -> LoopRecord]
         /\ clients \in [Clients -> ClientRecord]
BY DEF TypeInv, TypeOK, LoopRecord, ClientRecord

\* ApplyTransition writes a row of the type of a row.
LEMMA ApplyType ==
  ASSUME TypeInv, NEW i \in Missions, NEW next \in StepStates, ApplyTransition(i, next)
  PROVE  /\ rows' \in [Missions -> StepStates]
         /\ terminalEvents' \in [Missions -> Nat]
<1>1. rows \in [Missions -> StepStates]
  BY TypeFacts
<1>2. [next EXCEPT !.units = rows[i].units] \in StepStates
  <2>1. rows[i].units \in Plans
    BY <1>1 DEF StepStates
  <2> QED BY <2>1, StatusType
<1> QED BY <1>1, <1>2 DEF ApplyTransition, TypeInv, TypeOK

\* One step of a loop replaces its record by another about the same mission.
Moves(l) ==
  \E r \in LoopRecord :
    /\ loops' = [loops EXCEPT ![l] = r]
    /\ r.id = loops[l].id /\ r.pc # "out" /\ loops[l].pc # "out"
    /\ r.pc = "turn" => ~Terminal(r.snap.phase)

LEMMA GotoMoves ==
  ASSUME TypeInv, NEW l \in Loops, loops[l].pc # "out", Goto(l, "release")
  PROVE  Moves(l)
<1>1. loops \in [Loops -> LoopRecord]
  BY TypeFacts
<1> DEFINE r == [loops[l] EXCEPT !.pc = "release"]
<1>2. r \in LoopRecord
  BY <1>1, LoopPc
<1>3. loops' = [loops EXCEPT ![l] = r]
  BY <1>1 DEF Goto
<1>4. r.id = loops[l].id /\ r.pc = "release"
  BY <1>1 DEF LoopRecord
<1> QED BY <1>2, <1>3, <1>4 DEF Moves

LEMMA SetsMoves ==
  ASSUME TypeInv, NEW l \in Loops, loops[l].pc # "out", NEW s \in StepStates, NEW in \in Inputs
  PROVE  /\ /\ loops' = [loops EXCEPT ![l].pc = "turn", ![l].snap = s]
            /\ ~Terminal(s.phase)
            => Moves(l)
         /\ loops' = [loops EXCEPT ![l].pc = "reload", ![l].in = in] => Moves(l)
         /\ loops' = [loops EXCEPT ![l].pc = "apply", ![l].next = s] => Moves(l)
<1>1. loops \in [Loops -> LoopRecord] /\ loops[l] \in LoopRecord
  BY TypeFacts
<1> DEFINE r1 == [loops[l] EXCEPT !.pc = "turn", !.snap = s]
           r2 == [loops[l] EXCEPT !.pc = "reload", !.in = in]
           r3 == [loops[l] EXCEPT !.pc = "apply", !.next = s]
<1>2. r1 \in LoopRecord /\ r2 \in LoopRecord /\ r3 \in LoopRecord
  BY <1>1, LoopFields
<1>3. /\ r1.id = loops[l].id /\ r1.pc = "turn" /\ r1.snap = s
      /\ r2.id = loops[l].id /\ r2.pc = "reload"
      /\ r3.id = loops[l].id /\ r3.pc = "apply"
  BY <1>1 DEF LoopRecord
<1>4. /\ [loops EXCEPT ![l].pc = "turn", ![l].snap = s] = [loops EXCEPT ![l] = r1]
      /\ [loops EXCEPT ![l].pc = "reload", ![l].in = in] = [loops EXCEPT ![l] = r2]
      /\ [loops EXCEPT ![l].pc = "apply", ![l].next = s] = [loops EXCEPT ![l] = r3]
  BY <1>1
<1> HIDE DEF r1, r2, r3
<1> QED BY <1>2, <1>3, <1>4 DEF Moves

\* A step that only moves a loop keeps the type.
LEMMA MovesType ==
  ASSUME TypeInv, NEW l \in Loops, Moves(l),
         rows' \in [Missions -> StepStates], terminalEvents' \in [Missions -> Nat],
         pendingInput' \subseteq Missions, asksUsed' \in [Missions -> Nat],
         cancelled' \subseteq Missions, provisioned' \subseteq Missions,
         UNCHANGED <<spawned, driving, clients, approved, signals, restarts>>
  PROVE  TypeInv'
<1>1. PICK r \in LoopRecord :
        /\ loops' = [loops EXCEPT ![l] = r]
        /\ r.id = loops[l].id /\ r.pc # "out" /\ loops[l].pc # "out"
        /\ r.pc = "turn" => ~Terminal(r.snap.phase)
  BY DEF Moves
<1>2. loops \in [Loops -> LoopRecord]
  BY TypeFacts
<1>3. loops' \in [Loops -> LoopRecord]
  BY <1>1, <1>2
<1>4. WorkInv'
  <2>1. loops'[l] = r /\ \A k \in Loops \ {l} : loops'[k] = loops[k]
    BY <1>1, <1>2
  <2> QED BY <1>1, <2>1 DEF TypeInv, WorkInv
<1> QED BY <1>3, <1>4 DEF TypeInv, TypeOK, LoopRecord

\* Every input that a turn on a running mission may report.
LEMMA ReportsType ==
  ASSUME NEW s \in StepStates, ~Terminal(s.phase)
  PROVE  Reports0(s) \subseteq Inputs
<1>1. s.phase \in {"discover", "plan", "build", "prove", "result"}
  BY DEF StepStates, Phases, Terminal
<1> QED BY <1>1, OtherInputsType, ExecuteInputsType, ReviewInputsType DEF Reports0

LEMMA LoopStepType ==
  ASSUME TypeInv, NEW l \in Loops, LoopStep(l), ~ReleaseDriving(l)
  PROVE  /\ Moves(l)
         /\ TypeInv'
<1> DEFINE i == loops[l].id
<1>1. /\ loops[l] \in LoopRecord
      /\ loops[l].snap \in StepStates /\ loops[l].in \in Inputs /\ loops[l].next \in StepStates
      /\ rows \in [Missions -> StepStates]
  BY TypeFacts DEF LoopRecord
<1>2. loops[l].pc # "out" => i \in Missions /\ rows[i] \in StepStates
  BY <1>1 DEF TypeInv, WorkInv
<1>3. CASE AdvanceReads(l)
  <2>1. Moves(l)
    <3>1. CASE Drivable(rows[i]) /\ loops' = [loops EXCEPT ![l].pc = "turn", ![l].snap = rows[i]]
      BY <1>1, <1>2, <1>3, <3>1, SetsMoves, InType DEF AdvanceReads, Drivable, Kinds
    <3>2. CASE Goto(l, "release")
      BY <1>3, <3>2, GotoMoves DEF AdvanceReads
    <3> QED BY <1>3, <3>1, <3>2 DEF AdvanceReads
  <2> QED BY <1>3, <2>1, MovesType DEF AdvanceReads, TypeInv, TypeOK
<1>4. CASE AdvanceStops(l)
  <2>1. Moves(l)
    BY <1>4, GotoMoves DEF AdvanceStops
  <2> QED BY <1>4, <2>1, MovesType DEF AdvanceStops, TypeInv, TypeOK
<1>5. CASE TurnAborts(l)
  <2>1. Moves(l)
    BY <1>5, GotoMoves DEF TurnAborts
  <2> QED BY <1>5, <2>1, MovesType DEF TurnAborts, TypeInv, TypeOK
<1>6. CASE Provision(l)
  <2>1. loops[l].pc = "turn"
    BY <1>6 DEF Provision
  <2>2. provisioned' \subseteq Missions
    BY <1>2, <1>6, <2>1 DEF Provision, TypeInv, TypeOK
  <2>3. CASE UNCHANGED loops
    <3>1. loops' = [loops EXCEPT ![l] = loops[l]]
      BY <2>3, TypeFacts
    <3>2. Moves(l)
      BY <1>1, <2>1, <3>1 DEF Moves, TypeInv, WorkInv
    <3> QED BY <1>6, <2>2, <3>2, MovesType DEF Provision, TypeInv, TypeOK
  <2>4. CASE loops' = [loops EXCEPT ![l].pc = "apply", ![l].next =
                         Step(loops[l].snap, In("review_infra_failure"), "under").next]
    <3>1. In("review_infra_failure") \in Inputs
      BY InType DEF Kinds
    <3>2. Step(loops[l].snap, In("review_infra_failure"), "under").next \in StepStates
      BY <1>1, <3>1, StepType
    <3>3. Moves(l)
      BY <2>1, <2>4, <3>1, <3>2, SetsMoves
    <3> QED BY <1>6, <2>2, <3>3, MovesType DEF Provision, TypeInv, TypeOK
  <2> QED BY <1>6, <2>3, <2>4 DEF Provision
<1>7. CASE RunPhase(l)
  <2>1. loops[l].pc = "turn" /\ i \in Missions
    BY <1>2, <1>7 DEF RunPhase
  <2>2. \E in \in Inputs : TurnReports(l, in)
    <3>1. Reports0(loops[l].snap) \subseteq Inputs
      BY <1>1, <2>1, ReportsType DEF TypeInv, WorkInv
    <3>2. In("phase_complete") \in Inputs
      BY InType DEF Kinds
    <3> QED BY <1>7, <3>1, <3>2, OtherInputsType DEF RunPhase
  <2>3. Moves(l)
    BY <1>1, <2>1, <2>2, SetsMoves DEF TurnReports
  <2>4. rows' \in [Missions -> StepStates]
    <3>1. ASSUME NEW p \in NewPlans(loops[l].snap)
          PROVE  [rows EXCEPT ![i].units = p] \in [Missions -> StepStates]
      <4>1. [rows[i] EXCEPT !.units = p] \in StepStates
        BY <1>2, <2>1, NewPlansType, StatusType
      <4> QED BY <1>1, <2>1, <4>1
    <3> QED BY <1>1, <1>7, <3>1 DEF RunPhase
  <2>5. asksUsed' \in [Missions -> Nat] /\ pendingInput' \subseteq Missions
    <3>1. asksUsed \in [Missions -> Nat] /\ pendingInput \subseteq Missions
      BY DEF TypeInv, TypeOK
    <3> QED BY <1>7, <2>1, <3>1 DEF RunPhase
  <2> QED BY <1>7, <2>3, <2>4, <2>5, MovesType DEF RunPhase, TypeInv, TypeOK
<1>8. CASE AdvanceReloads(l)
  <2>1. Step(rows[i], loops[l].in, "under").next \in StepStates
    BY <1>1, <1>2, <1>8, StepType DEF AdvanceReloads
  <2>2. Moves(l)
    BY <1>1, <1>8, <2>1, SetsMoves DEF AdvanceReloads
  <2> QED BY <1>8, <2>2, MovesType DEF AdvanceReloads, TypeInv, TypeOK
<1>9. CASE AdvanceApplies(l)
  <2>1. loops[l].pc = "apply" /\ i \in Missions
    BY <1>2, <1>9 DEF AdvanceApplies
  <2>2. CASE Refused(i) /\ Goto(l, "release")
    <3>1. Moves(l)
      BY <2>1, <2>2, GotoMoves
    <3> QED BY <1>9, <2>2, <3>1, MovesType DEF AdvanceApplies, Refused, TypeInv, TypeOK
  <2>3. CASE /\ ApplyTransition(i, loops[l].next)
             /\ loops' = [loops EXCEPT ![l] =
                  [Out EXCEPT !.id = i,
                              !.pc = IF loops[l].next.status \in {"idle", "working"}
                                     THEN "advance" ELSE "release"]]
    <3> DEFINE r == [Out EXCEPT !.id = i,
                                !.pc = IF loops[l].next.status \in {"idle", "working"}
                                       THEN "advance" ELSE "release"]
    <3>1. r \in LoopRecord /\ r.id = i /\ r.pc \in {"advance", "release"}
      BY <2>1, RestingType DEF LoopRecord
    <3>2. Moves(l)
      BY <2>1, <2>3, <3>1 DEF Moves
    <3>3. rows' \in [Missions -> StepStates] /\ terminalEvents' \in [Missions -> Nat]
      BY <1>1, <2>1, <2>3, ApplyType
    <3> QED BY <1>9, <3>2, <3>3, MovesType DEF AdvanceApplies, TypeInv, TypeOK
  <2> QED BY <1>9, <2>2, <2>3 DEF AdvanceApplies
<1> QED BY <1>3, <1>4, <1>5, <1>6, <1>7, <1>8, <1>9 DEF LoopStep

\* Claiming and releasing a mission, and a restart.
LEMMA ClaimsType ==
  ASSUME TypeInv,
         \/ \E l \in Loops : ReleaseDriving(l) \/ \E i \in Missions : Drive(l, i)
         \/ Restart
  PROVE  TypeInv'
<1>1. /\ loops \in [Loops -> LoopRecord] /\ clients \in [Clients -> ClientRecord]
      /\ rows \in [Missions -> StepStates]
  BY TypeFacts
<1>2. Out.pc = "out" /\ Away.pc = "away"
  BY DEF Out, Away
<1>3. ASSUME NEW l \in Loops, ReleaseDriving(l) PROVE TypeInv'
  <2>1. loops' \in [Loops -> LoopRecord]
    BY <1>1, <1>3, RestingType DEF ReleaseDriving
  <2>2. WorkInv'
    BY <1>1, <1>2, <1>3 DEF ReleaseDriving, TypeInv, WorkInv
  <2> QED BY <1>3, <2>1, <2>2 DEF ReleaseDriving, TypeInv, TypeOK, LoopRecord
<1>4. ASSUME NEW l \in Loops, NEW i \in Missions, Drive(l, i) PROVE TypeInv'
  <2>1. CASE UNCHANGED <<driving, loops>>
    BY <1>4, <2>1 DEF Drive, TypeInv, TypeOK, WorkInv
  <2>2. CASE ClaimDriving(l, i)
    <3> DEFINE r == [Out EXCEPT !.pc = "advance", !.id = i]
    <3>1. r \in LoopRecord /\ r.pc = "advance" /\ r.id = i
      BY RestingType DEF LoopRecord
    <3>2. loops' \in [Loops -> LoopRecord]
      BY <1>1, <2>2, <3>1 DEF ClaimDriving
    <3>3. WorkInv'
      <4>1. loops'[l] = r /\ \A k \in Loops \ {l} : loops'[k] = loops[k]
        BY <1>1, <2>2 DEF ClaimDriving
      <4> HIDE DEF r
      <4> QED BY <1>4, <3>1, <4>1 DEF Drive, TypeInv, WorkInv
    <3> QED BY <1>4, <2>2, <3>2, <3>3 DEF Drive, ClaimDriving, TypeInv, TypeOK, LoopRecord
  <2> QED BY <1>4, <2>1, <2>2 DEF Drive
<1>5. ASSUME Restart PROVE TypeInv'
  <2>1. loops' \in [Loops -> LoopRecord] /\ clients' \in [Clients -> ClientRecord]
    BY <1>5, RestingType DEF Restart
  <2>2. WorkInv'
    BY <1>2, <1>5 DEF Restart, WorkInv
  <2>3. restarts' \in Nat
    BY <1>5 DEF Restart, TypeInv, TypeOK
  <2> QED BY <1>5, <2>1, <2>2, <2>3
          DEF Restart, Working, TypeInv, TypeOK, LoopRecord, ClientRecord
<1> QED BY <1>3, <1>4, <1>5

\* A step that only moves a request keeps the type.
LEMMA RequestType ==
  ASSUME TypeInv, NEW c \in Clients, NEW r \in ClientRecord,
         clients' = [clients EXCEPT ![c] = r], r.pc # "away" => r.id \in Missions,
         rows' \in [Missions -> StepStates], terminalEvents' \in [Missions -> Nat],
         pendingInput' \subseteq Missions, spawned' \subseteq Missions,
         approved' \subseteq Missions, cancelled' \subseteq Missions, signals' \in Nat,
         UNCHANGED <<asksUsed, driving, loops, restarts, provisioned>>
  PROVE  TypeInv'
<1>1. clients \in [Clients -> ClientRecord]
  BY TypeFacts
<1>2. clients' \in [Clients -> ClientRecord]
  BY <1>1
<1>3. WorkInv'
  <2>1. clients'[c] = r /\ \A k \in Clients \ {c} : clients'[k] = clients[k]
    BY <1>1
  <2> QED BY <2>1 DEF TypeInv, WorkInv
<1> QED BY <1>2, <1>3 DEF TypeInv, TypeOK, ClientRecord

LEMMA ClientStepType ==
  ASSUME TypeInv, NEW c \in Clients, ClientStep(c)
  PROVE  TypeInv'
<1> DEFINE i == clients[c].id
<1>1. /\ clients[c] \in ClientRecord
      /\ clients[c].next \in StepStates
      /\ rows \in [Missions -> StepStates]
  BY TypeFacts DEF ClientRecord
<1>2. clients[c].pc # "away" => i \in Missions
  BY DEF TypeInv, WorkInv
<1>3. Away \in ClientRecord /\ Away.pc = "away"
  BY RestingType DEF Away
<1>4. CASE SignalApplies(c)
  <2>1. clients[c].pc = "apply" /\ i \in Missions
    BY <1>2, <1>4 DEF SignalApplies
  <2>2. CASE Refused(i)
    BY <1>1, <1>3, <1>4, <2>2, RequestType
       DEF SignalApplies, Refused, ApplyTransition, TypeInv, TypeOK
  <2>3. CASE ApplyTransition(i, clients[c].next)
    <3>1. rows' \in [Missions -> StepStates] /\ terminalEvents' \in [Missions -> Nat]
      BY <1>1, <2>1, <2>3, ApplyType
    <3>2. /\ approved' \subseteq Missions /\ spawned' \subseteq Missions
      BY <1>4, <2>1, <2>3 DEF SignalApplies, ApplyTransition, Refused, TypeInv, TypeOK
    <3> DEFINE r == [clients[c] EXCEPT !.pc = "cancel_turn"]
    <3>3. r \in ClientRecord /\ r.pc = "cancel_turn" /\ r.id = i
      <4>1. r \in ClientRecord
        BY <1>1 DEF ClientRecord
      <4> QED BY <1>1, <4>1 DEF ClientRecord
    <3>4. \/ clients' = [clients EXCEPT ![c] = r]
          \/ clients' = [clients EXCEPT ![c] = Away]
      BY <1>4, <2>3, TypeFacts DEF SignalApplies, ApplyTransition, Refused
    <3> HIDE DEF r
    <3>5. /\ pendingInput' \subseteq Missions /\ cancelled' \subseteq Missions
          /\ signals' \in Nat
          /\ UNCHANGED <<asksUsed, driving, loops, restarts, provisioned>>
      BY <1>4 DEF SignalApplies, TypeInv, TypeOK
    <3>6. CASE clients' = [clients EXCEPT ![c] = r]
      BY <2>1, <3>1, <3>2, <3>3, <3>5, <3>6, RequestType
    <3>7. CASE clients' = [clients EXCEPT ![c] = Away]
      BY <1>3, <3>1, <3>2, <3>5, <3>7, RequestType
    <3> QED BY <3>4, <3>6, <3>7
  <2> QED BY <1>4, <2>2, <2>3 DEF SignalApplies
<1>5. CASE CancelTurn(c)
  <2>1. i \in Missions
    BY <1>2, <1>5 DEF CancelTurn
  <2> QED BY <1>3, <1>5, <2>1, RequestType DEF CancelTurn, TypeInv, TypeOK
<1>6. CASE AnswerPendingInput(c)
  <2>1. i \in Missions
    BY <1>2, <1>6 DEF AnswerPendingInput
  <2>2. rows' \in [Missions -> StepStates]
    <3>1. [rows[i] EXCEPT !.status = "idle"] \in StepStates
      <4>1. rows[i] \in StepStates
        BY <1>1, <2>1
      <4> QED BY <4>1 DEF StepStates, Statuses
    <3>2. rows' = [rows EXCEPT ![i] = [rows[i] EXCEPT !.status = "idle"]]
      BY <1>6 DEF AnswerPendingInput
    <3> QED BY <1>1, <2>1, <3>1, <3>2
  <2> QED BY <1>3, <1>6, <2>1, <2>2, RequestType DEF AnswerPendingInput, TypeInv, TypeOK
<1> QED BY <1>4, <1>5, <1>6 DEF ClientStep

LEMMA ReadsType ==
  ASSUME TypeInv, NEW c \in Clients, NEW i \in Missions,
         AnswerReads(c, i) \/ \E k \in Verbs : SignalReads(c, i, k)
  PROVE  TypeInv'
<1>1. rows[i] \in StepStates
  BY TypeFacts
<1>2. CASE AnswerReads(c, i)
  <2> DEFINE r == [Away EXCEPT !.pc = "answer", !.id = i]
  <2>1. r \in ClientRecord /\ r.id = i
    BY RestingType DEF ClientRecord
  <2>2. clients' = [clients EXCEPT ![c] = r]
    BY <1>2 DEF AnswerReads
  <2> HIDE DEF r
  <2> QED BY <1>2, <2>1, <2>2, RequestType DEF AnswerReads, TypeInv, TypeOK
<1>3. ASSUME NEW k \in Verbs, SignalReads(c, i, k) PROVE TypeInv'
  <2> DEFINE n == Step(rows[i], In(k), "under").next
             r == [pc |-> "apply", id |-> i, kind |-> k, next |-> n]
  <2>1. n \in StepStates
    <3>1. In(k) \in Inputs
      BY InType DEF Verbs, Kinds
    <3> QED BY <1>1, <3>1, StepType
  <2> HIDE DEF n
  <2>2. r \in ClientRecord /\ r.id = i
    BY <2>1, RequestFields
  <2>3. clients' = [clients EXCEPT ![c] = r]
    BY <1>3 DEF SignalReads, n
  <2> HIDE DEF r
  <2>4. signals' \in Nat
    BY <1>3 DEF SignalReads, TypeInv, TypeOK
  <2> QED BY <1>3, <2>2, <2>3, <2>4, RequestType DEF SignalReads, TypeInv, TypeOK
<1> QED BY <1>2, <1>3

LEMMA SweepsType ==
  ASSUME TypeInv, ClaimWorkSlot \/ \E i \in Missions : ReDriveStaleWorking(i)
  PROVE  TypeInv'
<1>1. CASE ClaimWorkSlot
  <2>1. PICK i \in IdleRows :
          /\ rows' = [rows EXCEPT ![i].status = "working"]
          /\ spawned' = spawned \cup {i}
    BY <1>1 DEF ClaimWorkSlot
  <2>2. i \in Missions /\ rows[i] \in StepStates /\ rows \in [Missions -> StepStates]
    BY TypeFacts DEF IdleRows
  <2>3. [rows[i] EXCEPT !.status = "working"] \in StepStates
    BY <2>2 DEF StepStates, Statuses
  <2>4. rows' = [rows EXCEPT ![i] = [rows[i] EXCEPT !.status = "working"]]
    BY <2>1
  <2>5. rows' \in [Missions -> StepStates]
    BY <2>2, <2>3, <2>4
  <2> QED BY <1>1, <2>1, <2>2, <2>5 DEF ClaimWorkSlot, TypeInv, TypeOK, WorkInv
<1>2. ASSUME NEW i \in Missions, ReDriveStaleWorking(i) PROVE TypeInv'
  BY <1>2 DEF ReDriveStaleWorking, TypeInv, TypeOK, WorkInv
<1> QED BY <1>1, <1>2

LEMMA NextTypeInv == TypeInv /\ [Next]_vars => TypeInv'
<1>1. ASSUME TypeInv, Next PROVE TypeInv'
  <2>1. CASE \E l \in Loops : LoopStep(l) \/ \E i \in Missions : Drive(l, i)
    BY <1>1, <2>1, LoopStepType, ClaimsType
  <2>2. CASE \E c \in Clients :
               \/ ClientStep(c)
               \/ \E i \in Missions : AnswerReads(c, i) \/ \E k \in Verbs : SignalReads(c, i, k)
    BY <1>1, <2>2, ClientStepType, ReadsType
  <2> QED BY <1>1, <2>1, <2>2, SweepsType, ClaimsType DEF Next
<1>2. ASSUME TypeInv, UNCHANGED vars PROVE TypeInv'
  BY <1>2 DEF TypeInv, TypeOK, WorkInv, vars
<1> QED BY <1>1, <1>2

LEMMA TypeInvariant == Spec => []TypeInv
BY InitTypeInv, NextTypeInv, PTL DEF Spec

\* Rows, loops and requests keep their types, whatever a stale transition
\* writes: what a turn, a verb or a sweep stores is a row that scanMission reads.
THEOREM TypeCorrect == Spec => []TypeOK
<1>1. TypeInv => TypeOK
  BY DEF TypeInv
<1> QED BY <1>1, TypeInvariant, PTL

-----------------------------------------------------------------------------
(* One loop per mission. *)

\* A loop that is under way holds its mission's claim, and no other loop does.
ClaimInv ==
  \A l \in Loops :
    loops[l].pc # "out" =>
      /\ loops[l].id \in driving
      /\ \A k \in Loops : k # l /\ loops[k].pc # "out" => loops[k].id # loops[l].id

\* claimDriving and releaseDriving exclude each other's loops: for any number
\* of missions, goroutines, requests and restarts, no two loops drive one mission.
THEOREM OneLoop == Spec => []OneLoopPerMission
<1>1. Init => ClaimInv
  BY DEF Init, ClaimInv, Out
<1>2. TypeInv /\ ClaimInv /\ [Next]_vars => ClaimInv'
  <2> SUFFICES ASSUME TypeInv, ClaimInv, [Next]_vars PROVE ClaimInv'
    OBVIOUS
  <2>1. loops \in [Loops -> LoopRecord]
    BY TypeFacts
  <2>2. Out.pc = "out"
    BY DEF Out
  <2>3. ASSUME NEW l \in Loops, LoopStep(l), ~ReleaseDriving(l) PROVE ClaimInv'
    <3>1. Moves(l)
      BY <2>3, LoopStepType
    <3>2. PICK r \in LoopRecord :
            /\ loops' = [loops EXCEPT ![l] = r]
            /\ r.id = loops[l].id /\ r.pc # "out" /\ loops[l].pc # "out"
      BY <3>1 DEF Moves
    <3>3. UNCHANGED driving
      BY <2>3 DEF LoopStep, AdvanceReads, AdvanceStops, Provision, RunPhase, TurnAborts,
                  AdvanceReloads, AdvanceApplies
    <3> QED BY <2>1, <3>2, <3>3 DEF ClaimInv
  <2>4. ASSUME NEW l \in Loops, ReleaseDriving(l) PROVE ClaimInv'
    BY <2>1, <2>2, <2>4 DEF ReleaseDriving, ClaimInv
  <2>5. ASSUME NEW l \in Loops, NEW i \in Missions, Drive(l, i) PROVE ClaimInv'
    <3>1. CASE UNCHANGED <<driving, loops>>
      BY <3>1 DEF ClaimInv
    <3>2. CASE ClaimDriving(l, i)
      <4> DEFINE r == [Out EXCEPT !.pc = "advance", !.id = i]
      <4>1. r.id = i
        BY DEF Out
      <4>2. loops'[l] = r /\ \A k \in Loops \ {l} : loops'[k] = loops[k]
        BY <2>1, <3>2 DEF ClaimDriving
      <4>3. i \notin driving /\ driving' = driving \cup {i}
        BY <3>2 DEF ClaimDriving
      <4> HIDE DEF r
      <4> QED BY <4>1, <4>2, <4>3 DEF ClaimInv
    <3> QED BY <2>5, <3>1, <3>2 DEF Drive
  <2>6. CASE Restart
    BY <2>2, <2>6 DEF Restart, ClaimInv
  <2>7. CASE UNCHANGED <<driving, loops>>
    BY <2>7 DEF ClaimInv
  <2>8. ASSUME NEW c \in Clients,
               \/ ClientStep(c)
               \/ \E i \in Missions : AnswerReads(c, i) \/ \E k \in Verbs : SignalReads(c, i, k)
        PROVE  UNCHANGED <<driving, loops>>
    BY <2>8 DEF ClientStep, SignalApplies, CancelTurn, AnswerPendingInput, AnswerReads,
                SignalReads
  <2>9. ClaimWorkSlot \/ (\E i \in Missions : ReDriveStaleWorking(i)) \/ UNCHANGED vars
          => UNCHANGED <<driving, loops>>
    BY DEF ClaimWorkSlot, ReDriveStaleWorking, vars
  <2> QED BY <2>3, <2>4, <2>5, <2>6, <2>7, <2>8, <2>9 DEF Next
<1>3. ClaimInv => OneLoopPerMission
  BY DEF ClaimInv, OneLoopPerMission
<1> QED BY <1>1, <1>2, <1>3, TypeInvariant, PTL DEF Spec

-----------------------------------------------------------------------------
(* Endings. *)

\* What a transition that is applied does to its row.
LEMMA Applied ==
  ASSUME TypeInv, NEW i \in Missions, NEW next \in StepStates, ApplyTransition(i, next)
  PROVE  /\ ~Terminal(rows[i].phase)
         /\ rows'[i].phase = next.phase /\ SamePolicy(next, rows'[i])
         /\ terminalEvents'[i] = terminalEvents[i] + (IF Terminal(next.phase) THEN 1 ELSE 0)
         /\ \A j \in Missions \ {i} :
              rows'[j] = rows[j] /\ terminalEvents'[j] = terminalEvents[j]
<1>1. rows \in [Missions -> StepStates] /\ terminalEvents \in [Missions -> Nat]
  BY DEF TypeInv, TypeOK
<1> DEFINE n == IF DOMAIN next.units = {}
                THEN [next EXCEPT !.units = rows[i].units] ELSE next
<1>2. n.phase = next.phase /\ SamePolicy(next, n)
  BY DEF StepStates, SamePolicy
<1>3. rows' = [rows EXCEPT ![i] = n]
  BY DEF ApplyTransition
<1> HIDE DEF n
<1>4. rows'[i] = n /\ \A j \in Missions \ {i} : rows'[j] = rows[j]
  BY <1>1, <1>3
<1> QED BY <1>1, <1>2, <1>4 DEF ApplyTransition

\* The rows are left as they are, but for columns the phase does not depend on.
Unmoved ==
  /\ \A j \in Missions : rows'[j].phase = rows[j].phase /\ SamePolicy(rows[j], rows'[j])
  /\ UNCHANGED <<terminalEvents, approved>>

LEMMA UnmovedByWrite ==
  ASSUME TypeInv, NEW i \in Missions, UNCHANGED <<terminalEvents, approved>>,
         \/ \E p : rows' = [rows EXCEPT ![i].units = p]
         \/ \E st : rows' = [rows EXCEPT ![i].status = st]
  PROVE  Unmoved
<1>1. rows \in [Missions -> StepStates]
  BY TypeFacts
<1>2. ASSUME NEW p
      PROVE  /\ [rows[i] EXCEPT !.units = p].phase = rows[i].phase
             /\ [rows[i] EXCEPT !.status = p].phase = rows[i].phase
             /\ SamePolicy(rows[i], [rows[i] EXCEPT !.units = p])
             /\ SamePolicy(rows[i], [rows[i] EXCEPT !.status = p])
  BY <1>1 DEF StepStates, SamePolicy
<1>3. \A j \in Missions : SamePolicy(rows[j], rows[j])
  BY DEF SamePolicy
<1>4. CASE \E p : rows' = [rows EXCEPT ![i].units = p]
  <2>1. PICK p : rows' = [rows EXCEPT ![i] = [rows[i] EXCEPT !.units = p]]
    BY <1>4
  <2> QED BY <1>1, <1>2, <1>3, <2>1 DEF Unmoved
<1>5. CASE \E st : rows' = [rows EXCEPT ![i].status = st]
  <2>1. PICK st : rows' = [rows EXCEPT ![i] = [rows[i] EXCEPT !.status = st]]
    BY <1>5
  <2> QED BY <1>1, <1>2, <1>3, <2>1 DEF Unmoved
<1> QED BY <1>4, <1>5

\* A step applies a transition that a loop or a request has computed, or moves no row.
LEMMA RowWrites ==
  ASSUME TypeInv, [Next]_vars
  PROVE  \/ \E l \in Loops :
              /\ loops[l].pc = "apply" /\ loops[l].id \in Missions
              /\ loops[l].next \in StepStates
              /\ ApplyTransition(loops[l].id, loops[l].next)
              /\ UNCHANGED approved
         \/ \E c \in Clients :
              /\ clients[c].pc = "apply" /\ clients[c].id \in Missions
              /\ clients[c].next \in StepStates
              /\ ApplyTransition(clients[c].id, clients[c].next)
              /\ approved' = IF clients[c].kind = "plan_approve"
                             THEN approved \cup {clients[c].id} ELSE approved
         \/ Unmoved
<1> DEFINE Still == UNCHANGED <<rows, terminalEvents, approved>>
<1>1. Still => Unmoved
  BY DEF Unmoved, SamePolicy
<1>2. ASSUME NEW l \in Loops PROVE loops[l].pc # "out" => loops[l].id \in Missions
  BY DEF TypeInv, WorkInv
<1>3. ASSUME NEW l \in Loops, AdvanceApplies(l)
      PROVE  \/ Unmoved
             \/ /\ loops[l].pc = "apply" /\ loops[l].id \in Missions
                /\ loops[l].next \in StepStates
                /\ ApplyTransition(loops[l].id, loops[l].next)
                /\ UNCHANGED approved
  <2>1. loops[l].pc = "apply" /\ loops[l].next \in StepStates
    BY <1>3, TypeFacts DEF AdvanceApplies, LoopRecord
  <2> QED BY <1>1, <1>2, <1>3, <2>1 DEF AdvanceApplies, Refused
<1>4. ASSUME NEW l \in Loops, RunPhase(l) PROVE Unmoved
  <2>1. loops[l].id \in Missions
    BY <1>2, <1>4 DEF RunPhase
  <2> QED BY <1>1, <1>4, <2>1, UnmovedByWrite DEF RunPhase
<1>5. ASSUME NEW l \in Loops,
             \/ ReleaseDriving(l) \/ AdvanceReads(l) \/ AdvanceStops(l) \/ Provision(l)
             \/ TurnAborts(l) \/ AdvanceReloads(l) \/ \E i \in Missions : Drive(l, i)
      PROVE  Still
  BY <1>5 DEF ReleaseDriving, AdvanceReads, AdvanceStops, Provision, TurnAborts,
              AdvanceReloads, Drive
<1>6. ASSUME NEW c \in Clients, SignalApplies(c)
      PROVE  \/ Unmoved
             \/ /\ clients[c].pc = "apply" /\ clients[c].id \in Missions
                /\ clients[c].next \in StepStates
                /\ ApplyTransition(clients[c].id, clients[c].next)
                /\ approved' = IF clients[c].kind = "plan_approve"
                               THEN approved \cup {clients[c].id} ELSE approved
  <2>1. clients[c].pc = "apply"
    BY <1>6 DEF SignalApplies
  <2>2. clients[c].id \in Missions /\ clients[c].next \in StepStates
    BY <2>1, TypeFacts DEF TypeInv, WorkInv, ClientRecord
  <2> QED BY <1>1, <1>6, <2>1, <2>2 DEF SignalApplies, Refused
<1>7. ASSUME NEW c \in Clients, AnswerPendingInput(c) PROVE Unmoved
  <2>1. clients[c].id \in Missions
    BY <1>7 DEF AnswerPendingInput, TypeInv, WorkInv
  <2> QED BY <1>7, <2>1, UnmovedByWrite DEF AnswerPendingInput
<1>8. ASSUME NEW c \in Clients,
             \/ CancelTurn(c)
             \/ \E i \in Missions : AnswerReads(c, i) \/ \E k \in Verbs : SignalReads(c, i, k)
      PROVE  Still
  BY <1>8 DEF CancelTurn, AnswerReads, SignalReads
<1>9. CASE ClaimWorkSlot
  <2>1. PICK i \in IdleRows : rows' = [rows EXCEPT ![i].status = "working"]
    BY <1>9 DEF ClaimWorkSlot
  <2> QED BY <1>9, <2>1, UnmovedByWrite DEF ClaimWorkSlot, IdleRows
<1>10. (\E i \in Missions : ReDriveStaleWorking(i)) \/ Restart \/ UNCHANGED vars => Still
  BY DEF ReDriveStaleWorking, Restart, vars
<1>11. CASE \E l \in Loops : LoopStep(l) \/ \E i \in Missions : Drive(l, i)
  <2>1. PICK l \in Loops : LoopStep(l) \/ \E i \in Missions : Drive(l, i)
    BY <1>11
  <2> QED BY <1>1, <1>3, <1>4, <1>5, <2>1 DEF LoopStep
<1>12. CASE \E c \in Clients :
              \/ ClientStep(c)
              \/ \E i \in Missions : AnswerReads(c, i) \/ \E k \in Verbs : SignalReads(c, i, k)
  <2>1. PICK c \in Clients :
              \/ ClientStep(c)
              \/ \E i \in Missions : AnswerReads(c, i) \/ \E k \in Verbs : SignalReads(c, i, k)
    BY <1>12
  <2> QED BY <1>1, <1>6, <1>7, <1>8, <2>1 DEF ClientStep
<1> QED BY <1>1, <1>9, <1>10, <1>11, <1>12 DEF Next

\* The events of a mission's end stay in step with its row across one step.
LEMMA EventsFollow ==
  ASSUME TypeInv, TerminalEventOnce, [Next]_vars
  PROVE  TerminalEventOnce'
<1>1. ASSUME NEW i \in Missions, NEW next \in StepStates, ApplyTransition(i, next)
      PROVE  TerminalEventOnce'
  BY <1>1, Applied DEF TerminalEventOnce
<1>2. Unmoved => TerminalEventOnce'
  BY DEF Unmoved, TerminalEventOnce
<1> QED BY <1>1, <1>2, RowWrites

\* D-117, under races: a mission that ended has exactly one terminal event and any
\* other has none, for any number of stale transitions that reach its row.
THEOREM OneTerminalEvent == Spec => []TerminalEventOnce
<1>1. Init => TerminalEventOnce
  BY DEF Init, TerminalEventOnce, Created, InitialPhase, Terminal
<1> QED BY <1>1, EventsFollow, TypeInvariant, PTL DEF Spec

\* Done and failed are final, whatever transition is still on its way.
THEOREM EndingsStand == Spec => TerminalPhaseStays
<1>1. TypeInv /\ [Next]_vars =>
        [\A i \in Missions : Terminal(rows[i].phase) => rows'[i].phase = rows[i].phase]_vars
  <2> SUFFICES ASSUME TypeInv, [Next]_vars, NEW i \in Missions, Terminal(rows[i].phase)
               PROVE  rows'[i].phase = rows[i].phase
    OBVIOUS
  <2>1. ASSUME NEW j \in Missions, NEW next \in StepStates, ApplyTransition(j, next)
        PROVE  rows'[i].phase = rows[i].phase
    BY <2>1, Applied
  <2>2. Unmoved => rows'[i].phase = rows[i].phase
    BY DEF Unmoved
  <2> QED BY <2>1, <2>2, RowWrites
<1> QED BY <1>1, TypeInvariant, PTL DEF Spec, TerminalPhaseStays

-----------------------------------------------------------------------------
(* The approval gate. *)

Gated == ~AutoApprove /\ Flow \notin {"light", "discover_build"}

\* A state of this mission's policy.
Ours(s) == s.flow = Flow /\ s.autoApprovePlan = AutoApprove

\* s may be what row i holds: it is early, or the operator has approved.
Cleared(s, i) == Gated => Early(s) \/ i \in approved

RowGate == \A i \in Missions : Ours(rows[i]) /\ Cleared(rows[i], i)

\* What a loop has in hand is cleared: the row its turn runs on, the input it
\* reports, the transition it is about to write.
LoopGate ==
  \A l \in Loops :
    LET r == loops[l]
    IN  /\ r.pc = "turn" => Ours(r.snap) /\ Cleared(r.snap, r.id)
        /\ r.pc = "reload" => (Gated => r.in.kind \in EarlyKinds \/ r.id \in approved)
        /\ r.pc = "apply" => Ours(r.next) /\ Cleared(r.next, r.id)

\* So is the transition a request is about to write, unless it is the approval.
ClientGate ==
  \A c \in Clients :
    clients[c].pc = "apply" =>
      /\ Ours(clients[c].next)
      /\ clients[c].kind = "plan_approve" \/ Cleared(clients[c].next, clients[c].id)

GateInv == RowGate /\ LoopGate /\ ClientGate

LEMMA ApprovedGrows ==
  ASSUME TypeInv, [Next]_vars
  PROVE  approved \subseteq approved'
BY RowWrites DEF Unmoved

LEMMA ClearedGrows ==
  ASSUME NEW s, NEW i, Cleared(s, i), approved \subseteq approved'
  PROVE  Gated => Early(s) \/ i \in approved'
BY DEF Cleared

\* A transition computed from a cleared row and a cleared input is cleared.
LEMMA StepCleared ==
  ASSUME NEW s \in StepStates, NEW in \in Inputs, NEW i, Ours(s), Cleared(s, i),
         Gated => in.kind \in EarlyKinds \/ i \in approved
  PROVE  /\ Ours(Step(s, in, "under").next)
         /\ Cleared(Step(s, in, "under").next, i)
<1>1. Ours(Step(s, in, "under").next)
  BY StepKeepsPolicy DEF Ours, SamePolicy
<1>2. ASSUME Gated, i \notin approved PROVE Early(Step(s, in, "under").next)
  <2>1. ~s.autoApprovePlan /\ ~NeverVisitsPlan(s) /\ Early(s) /\ in.kind \in EarlyKinds
    BY <1>2 DEF Gated, Ours, NeverVisitsPlan, Cleared
  <2> QED BY <2>1, StepStaysEarly
<1> QED BY <1>1, <1>2 DEF Cleared

\* Only what an early phase reports comes from a turn on an early mission.
LEMMA EarlyReports ==
  ASSUME NEW s, Early(s), s.phase # "failed", NEW in \in Reports0(s)
  PROVE  in.kind \in EarlyKinds
<1>1. CASE s.phase = "discover"
  BY <1>1, ErrorKinds, InKind DEF Reports0, DiscoverInputs, EarlyKinds, Kinds
<1>2. CASE s.phase = "plan"
  BY <1>2, ErrorKinds, InKind DEF Reports0, PlanFailures, EarlyKinds, Kinds
<1> QED BY <1>1, <1>2 DEF Early

LEMMA RowGateKept ==
  ASSUME TypeInv, GateInv, [Next]_vars
  PROVE  RowGate'
<1>1. ASSUME NEW s, NEW n, Ours(s), SamePolicy(s, n) PROVE Ours(n)
  BY <1>1 DEF Ours, SamePolicy
<1>2. CASE Unmoved
  BY <1>1, <1>2 DEF Unmoved, GateInv, RowGate, Cleared, Early
<1>3. ASSUME NEW i \in Missions, NEW next \in StepStates, ApplyTransition(i, next),
             Ours(next), approved \subseteq approved', Gated => Early(next) \/ i \in approved'
      PROVE  RowGate'
  <2>1. /\ rows'[i].phase = next.phase /\ SamePolicy(next, rows'[i])
        /\ \A j \in Missions \ {i} : rows'[j] = rows[j]
    BY <1>3, Applied
  <2>2. Ours(rows'[i]) /\ (Gated => Early(rows'[i]) \/ i \in approved')
    BY <1>1, <1>3, <2>1 DEF Early
  <2>3. \A j \in Missions \ {i} :
          Ours(rows'[j]) /\ (Gated => Early(rows'[j]) \/ j \in approved')
    BY <1>3, <2>1 DEF GateInv, RowGate, Cleared
  <2>4. \A j \in Missions : Ours(rows'[j]) /\ (Gated => Early(rows'[j]) \/ j \in approved')
    BY <2>2, <2>3
  <2> QED BY <2>4 DEF RowGate, Ours, Cleared, Early, Gated
<1>4. ASSUME NEW l \in Loops, loops[l].pc = "apply", loops[l].id \in Missions,
             loops[l].next \in StepStates,
             ApplyTransition(loops[l].id, loops[l].next), UNCHANGED approved
      PROVE  RowGate'
  BY <1>3, <1>4 DEF GateInv, LoopGate, Cleared
<1>5. ASSUME NEW c \in Clients, clients[c].pc = "apply", clients[c].id \in Missions,
             clients[c].next \in StepStates,
             ApplyTransition(clients[c].id, clients[c].next),
             approved' = IF clients[c].kind = "plan_approve"
                         THEN approved \cup {clients[c].id} ELSE approved
      PROVE  RowGate'
  <2>1. Ours(clients[c].next)
    BY <1>5 DEF GateInv, ClientGate
  <2>2. Gated => Early(clients[c].next) \/ clients[c].id \in approved'
    BY <1>5 DEF GateInv, ClientGate, Cleared
  <2> QED BY <1>3, <1>5, <2>1, <2>2
<1> QED BY <1>2, <1>4, <1>5, RowWrites

\* A loop's step leaves what it has in hand cleared.
LEMMA LoopHandCleared ==
  ASSUME TypeInv, GateInv, NEW l \in Loops, LoopStep(l)
  PROVE  LET r == loops'[l]
         IN  /\ r.pc = "turn" => Ours(r.snap) /\ Cleared(r.snap, r.id)
             /\ r.pc = "reload" => (Gated => r.in.kind \in EarlyKinds \/ r.id \in approved)
             /\ r.pc = "apply" => Ours(r.next) /\ Cleared(r.next, r.id)
<1> DEFINE i == loops[l].id
<1>1. /\ loops \in [Loops -> LoopRecord] /\ loops[l] \in LoopRecord
      /\ loops[l].snap \in StepStates /\ loops[l].in \in Inputs
      /\ rows \in [Missions -> StepStates]
  BY TypeFacts DEF LoopRecord
<1>2. loops[l].pc # "out" => i \in Missions /\ rows[i] \in StepStates
  BY <1>1 DEF TypeInv, WorkInv
<1>3. ASSUME Goto(l, "release") PROVE loops'[l].pc = "release"
  BY <1>1, <1>3 DEF Goto, LoopRecord
<1>4. CASE ReleaseDriving(l)
  BY <1>1, <1>4 DEF ReleaseDriving, Out
<1>5. CASE AdvanceReads(l)
  <2>1. CASE loops' = [loops EXCEPT ![l].pc = "turn", ![l].snap = rows[i]]
    <3>1. loops'[l].pc = "turn" /\ loops'[l].snap = rows[i] /\ loops'[l].id = i
      BY <1>1, <2>1 DEF LoopRecord
    <3> QED BY <1>2, <1>5, <3>1 DEF AdvanceReads, GateInv, RowGate
  <2> QED BY <1>3, <1>5, <2>1 DEF AdvanceReads
<1>6. CASE AdvanceStops(l) \/ TurnAborts(l)
  BY <1>3, <1>6 DEF AdvanceStops, TurnAborts
<1>7. CASE Provision(l)
  <2>1. loops[l].pc = "turn" /\ Ours(loops[l].snap) /\ Cleared(loops[l].snap, i)
    BY <1>7 DEF Provision, GateInv, LoopGate
  <2>2. CASE UNCHANGED loops
    BY <2>1, <2>2
  <2>3. CASE loops' = [loops EXCEPT ![l].pc = "apply", ![l].next =
                         Step(loops[l].snap, In("review_infra_failure"), "under").next]
    <3> DEFINE n == Step(loops[l].snap, In("review_infra_failure"), "under").next
    <3>1. In("review_infra_failure") \in Inputs
          /\ In("review_infra_failure").kind \in EarlyKinds
      BY InType, InKind DEF Kinds, EarlyKinds
    <3>2. Ours(n) /\ Cleared(n, i)
      BY <1>1, <2>1, <3>1, StepCleared
    <3> HIDE DEF n
    <3>3. loops' = [loops EXCEPT ![l].pc = "apply", ![l].next = n]
      BY <2>3 DEF n
    <3>4. loops'[l].pc = "apply" /\ loops'[l].next = n /\ loops'[l].id = i
      BY <1>1, <3>3 DEF LoopRecord
    <3> QED BY <3>2, <3>4
  <2> QED BY <1>7, <2>2, <2>3 DEF Provision
<1>8. CASE RunPhase(l)
  <2> DEFINE s == loops[l].snap
  <2>1. loops[l].pc = "turn" /\ Cleared(s, i) /\ ~Terminal(s.phase)
    BY <1>8 DEF RunPhase, GateInv, LoopGate, TypeInv, WorkInv
  <2>2. PICK in : TurnReports(l, in) /\ (in \in Reports0(s) \/ in \in {In("phase_complete"), Asks})
    BY <1>8 DEF RunPhase
  <2>3. in \in Inputs
    <3>1. Reports0(s) \subseteq Inputs
      BY <1>1, <2>1, ReportsType
    <3>2. In("phase_complete") \in Inputs
      BY InType DEF Kinds
    <3> QED BY <2>2, <3>1, <3>2, OtherInputsType
  <2>4. loops'[l].pc = "reload" /\ loops'[l].in = in /\ loops'[l].id = i
    BY <1>1, <2>2, <2>3 DEF TurnReports, LoopRecord
  <2>5. Gated => in.kind \in EarlyKinds \/ i \in approved
    <3>1. In("phase_complete").kind \in EarlyKinds /\ Asks.kind \in EarlyKinds
      BY InKind DEF Asks, Kinds, EarlyKinds
    <3>2. ASSUME Early(s), in \in Reports0(s) PROVE in.kind \in EarlyKinds
      <4>1. s.phase # "failed"
        BY <2>1 DEF Terminal
      <4> QED BY <3>2, <4>1, EarlyReports
    <3> QED BY <2>1, <2>2, <3>1, <3>2 DEF Cleared
  <2> QED BY <2>4, <2>5
<1>9. CASE AdvanceReloads(l)
  <2> DEFINE n == Step(rows[i], loops[l].in, "under").next
  <2>1. i \in Missions /\ (Gated => loops[l].in.kind \in EarlyKinds \/ i \in approved)
    BY <1>2, <1>9 DEF AdvanceReloads, GateInv, LoopGate
  <2>2. Ours(rows[i]) /\ Cleared(rows[i], i)
    BY <2>1 DEF GateInv, RowGate
  <2>3. Ours(n) /\ Cleared(n, i)
    BY <1>1, <2>1, <2>2, StepCleared
  <2> HIDE DEF n
  <2>4. loops' = [loops EXCEPT ![l].pc = "apply", ![l].next = n]
    BY <1>9 DEF AdvanceReloads, n
  <2>5. loops'[l].pc = "apply" /\ loops'[l].next = n /\ loops'[l].id = i
    BY <1>1, <2>4 DEF LoopRecord
  <2> QED BY <2>3, <2>5
<1>10. CASE AdvanceApplies(l)
  <2>1. loops'[l].pc \in {"advance", "release"}
    <3>1. CASE Goto(l, "release")
      BY <1>3, <3>1
    <3>2. CASE loops' = [loops EXCEPT ![l] =
                 [Out EXCEPT !.id = i,
                             !.pc = IF loops[l].next.status \in {"idle", "working"}
                                    THEN "advance" ELSE "release"]]
      <4>1. loops'[l].pc = IF loops[l].next.status \in {"idle", "working"}
                           THEN "advance" ELSE "release"
        BY <1>1, <3>2 DEF Out
      <4> QED BY <4>1
    <3> QED BY <1>10, <3>1, <3>2 DEF AdvanceApplies
  <2> QED BY <2>1
<1> QED BY <1>4, <1>5, <1>6, <1>7, <1>8, <1>9, <1>10 DEF LoopStep

\* What was cleared stays cleared: approvals are never taken back.
LEMMA LoopGateGrows ==
  ASSUME GateInv, approved \subseteq approved', NEW l \in Loops, loops'[l] = loops[l]
  PROVE  LET r == loops'[l]
         IN  /\ r.pc = "turn" => Ours(r.snap) /\ (Gated => Early(r.snap) \/ r.id \in approved')
             /\ r.pc = "reload" => (Gated => r.in.kind \in EarlyKinds \/ r.id \in approved')
             /\ r.pc = "apply" => Ours(r.next) /\ (Gated => Early(r.next) \/ r.id \in approved')
BY DEF GateInv, LoopGate, Cleared

LEMMA LoopGateKept ==
  ASSUME TypeInv, GateInv, [Next]_vars
  PROVE  LoopGate'
<1>1. approved \subseteq approved' /\ loops \in [Loops -> LoopRecord]
  BY ApprovedGrows, TypeFacts
<1> DEFINE Held(l) ==
      LET r == loops'[l]
      IN  /\ r.pc = "turn" => Ours(r.snap) /\ (Gated => Early(r.snap) \/ r.id \in approved')
          /\ r.pc = "reload" => (Gated => r.in.kind \in EarlyKinds \/ r.id \in approved')
          /\ r.pc = "apply" => Ours(r.next) /\ (Gated => Early(r.next) \/ r.id \in approved')
<1>2. (\A l \in Loops : Held(l)) => LoopGate'
  BY DEF LoopGate, Cleared, Ours, Gated, Early
<1>3. ASSUME NEW l \in Loops, loops'[l] = loops[l] PROVE Held(l)
  BY <1>1, <1>3, LoopGateGrows
<1>4. ASSUME NEW l \in Loops, LoopStep(l) PROVE \A k \in Loops : Held(k)
  <2>1. Held(l)
    BY <1>1, <1>4, LoopHandCleared DEF Cleared
  <2>2. \A k \in Loops \ {l} : loops'[k] = loops[k]
    <3>1. CASE ReleaseDriving(l)
      BY <1>1, <3>1 DEF ReleaseDriving
    <3>2. CASE ~ReleaseDriving(l)
      BY <1>1, <1>4, <3>2, LoopStepType DEF Moves
    <3> QED BY <3>1, <3>2
  <2> HIDE DEF Held
  <2> QED BY <1>3, <2>1, <2>2
<1>5. ASSUME NEW l \in Loops, NEW i \in Missions, Drive(l, i) PROVE \A k \in Loops : Held(k)
  <2>1. CASE UNCHANGED loops
    BY <1>3, <2>1
  <2>2. CASE ClaimDriving(l, i)
    <3>1. loops'[l].pc = "advance" /\ \A k \in Loops \ {l} : loops'[k] = loops[k]
      BY <1>1, <2>2 DEF ClaimDriving, Out
    <3>2. Held(l)
      BY <3>1
    <3> HIDE DEF Held
    <3> QED BY <1>3, <3>1, <3>2
  <2> QED BY <1>5, <2>1, <2>2 DEF Drive
<1>6. ASSUME Restart PROVE \A l \in Loops : Held(l)
  BY <1>6 DEF Restart, Out
<1>7. ASSUME UNCHANGED loops PROVE \A l \in Loops : Held(l)
  BY <1>3, <1>7
<1>8. ASSUME NEW c \in Clients,
             \/ ClientStep(c)
             \/ \E i \in Missions : AnswerReads(c, i) \/ \E k \in Verbs : SignalReads(c, i, k)
      PROVE  UNCHANGED loops
  BY <1>8 DEF ClientStep, SignalApplies, CancelTurn, AnswerPendingInput, AnswerReads,
              SignalReads
<1>9. ClaimWorkSlot \/ (\E i \in Missions : ReDriveStaleWorking(i)) \/ UNCHANGED vars
        => UNCHANGED loops
  BY DEF ClaimWorkSlot, ReDriveStaleWorking, vars
<1> HIDE DEF Held
<1>10. \A l \in Loops : Held(l)
  BY <1>4, <1>5, <1>6, <1>7, <1>8, <1>9 DEF Next
<1> QED BY <1>2, <1>10

LEMMA ClientGateKept ==
  ASSUME TypeInv, GateInv, [Next]_vars
  PROVE  ClientGate'
<1>1. approved \subseteq approved' /\ clients \in [Clients -> ClientRecord]
      /\ rows \in [Missions -> StepStates]
  BY ApprovedGrows, TypeFacts
<1> DEFINE Held(c) ==
      LET r == clients'[c]
      IN  r.pc = "apply" =>
            /\ Ours(r.next)
            /\ r.kind = "plan_approve" \/ (Gated => Early(r.next) \/ r.id \in approved')
<1>2. (\A c \in Clients : Held(c)) => ClientGate'
  BY DEF ClientGate, Cleared, Ours, Gated, Early
<1>3. ASSUME NEW c \in Clients, clients'[c] = clients[c] PROVE Held(c)
  BY <1>1, <1>3 DEF GateInv, ClientGate, Cleared
<1>4. ASSUME NEW c \in Clients, NEW i \in Missions, NEW k \in Verbs, SignalReads(c, i, k)
      PROVE  Held(c)
  <2> DEFINE n == Step(rows[i], In(k), "under").next
  <2>1. clients'[c] = [pc |-> "apply", id |-> i, kind |-> k, next |-> n]
    BY <1>1, <1>4 DEF SignalReads
  <2>2. In(k) \in Inputs /\ In(k).kind = k
    BY InType, InKind DEF Verbs, Kinds
  <2>3. Ours(rows[i]) /\ Cleared(rows[i], i) /\ rows[i] \in StepStates
    BY <1>1 DEF GateInv, RowGate
  <2>4. Ours(n)
    BY <2>2, <2>3, StepKeepsPolicy DEF Ours, SamePolicy
  <2>5. k # "plan_approve" => Cleared(n, i)
    <3>1. k # "plan_approve" => k \in EarlyKinds
      BY DEF Verbs, EarlyKinds
    <3> QED BY <2>2, <2>3, <3>1, StepCleared
  <2> HIDE DEF n
  <2> QED BY <1>1, <2>1, <2>4, <2>5 DEF Cleared
<1>5. ASSUME NEW c \in Clients,
             ClientStep(c) \/ \E i \in Missions : AnswerReads(c, i)
      PROVE  clients'[c].pc # "apply" /\ \A k \in Clients \ {c} : clients'[k] = clients[k]
  <2>1. CASE SignalApplies(c)
    BY <1>1, <2>1 DEF SignalApplies, Away, ClientRecord
  <2>2. CASE CancelTurn(c) \/ AnswerPendingInput(c)
    BY <1>1, <2>2 DEF CancelTurn, AnswerPendingInput, Away
  <2>3. CASE \E i \in Missions : AnswerReads(c, i)
    BY <1>1, <2>3 DEF AnswerReads, Away
  <2> QED BY <1>5, <2>1, <2>2, <2>3 DEF ClientStep
<1>6. ASSUME NEW c \in Clients,
             \/ ClientStep(c)
             \/ \E i \in Missions : AnswerReads(c, i) \/ \E k \in Verbs : SignalReads(c, i, k)
      PROVE  \A k \in Clients : Held(k)
  <2>1. \A k \in Clients \ {c} : clients'[k] = clients[k]
    BY <1>1, <1>5, <1>6 DEF SignalReads
  <2>2. Held(c)
    <3>1. CASE ClientStep(c) \/ \E i \in Missions : AnswerReads(c, i)
      BY <1>5, <3>1
    <3>2. CASE \E i \in Missions : \E k \in Verbs : SignalReads(c, i, k)
      BY <1>4, <3>2
    <3> QED BY <1>6, <3>1, <3>2
  <2> HIDE DEF Held
  <2> QED BY <1>3, <2>1, <2>2
<1>7. ASSUME Restart PROVE \A c \in Clients : Held(c)
  BY <1>7 DEF Restart, Away
<1>8. ASSUME UNCHANGED clients PROVE \A c \in Clients : Held(c)
  BY <1>3, <1>8
<1>9. ASSUME NEW l \in Loops, LoopStep(l) \/ \E i \in Missions : Drive(l, i)
      PROVE  UNCHANGED clients
  BY <1>9 DEF LoopStep, ReleaseDriving, AdvanceReads, AdvanceStops, Provision, RunPhase,
              TurnAborts, AdvanceReloads, AdvanceApplies, Drive
<1>10. ClaimWorkSlot \/ (\E i \in Missions : ReDriveStaleWorking(i)) \/ UNCHANGED vars
         => UNCHANGED clients
  BY DEF ClaimWorkSlot, ReDriveStaleWorking, vars
<1> HIDE DEF Held
<1>11. \A c \in Clients : Held(c)
  BY <1>6, <1>7, <1>8, <1>9, <1>10 DEF Next
<1> QED BY <1>2, <1>11

\* The approval gate holds under races: whatever stale turns, resumes, decisions and
\* restarts write the row of a mission that plans and is not self-approving, it is
\* past its plan only if an operator's approval has been applied.
THEOREM GateHolds == Spec => []NoBuildBeforeApproval
<1>1. Init => GateInv
  <2> SUFFICES ASSUME Init PROVE GateInv
    OBVIOUS
  <2>1. /\ Created.flow = Flow /\ Created.autoApprovePlan = AutoApprove
        /\ Created.phase = InitialPhase(Flow)
    BY DEF Created
  <2>2. Gated => Early(Created)
    BY <2>1 DEF Gated, Early, InitialPhase
  <2>3. Out.pc = "out" /\ Away.pc = "away"
    BY DEF Out, Away
  <2> QED BY <2>1, <2>2, <2>3
          DEF Init, GateInv, RowGate, LoopGate, ClientGate, Cleared, Ours
<1>2. TypeInv /\ GateInv /\ [Next]_vars => GateInv'
  BY RowGateKept, LoopGateKept, ClientGateKept DEF GateInv
<1>3. GateInv => NoBuildBeforeApproval
  BY DEF GateInv, RowGate, Cleared, Ours, Early, Gated, NoBuildBeforeApproval,
         NeverVisitsPlan
<1> QED BY <1>1, <1>2, <1>3, TypeInvariant, PTL DEF Spec
=============================================================================
