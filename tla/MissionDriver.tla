---------------------------- MODULE MissionDriver ----------------------------
(***************************************************************************)
(* The mission driver as it really runs: goroutines that drive missions    *)
(* turn by turn, API handlers and sweeps that act on the same rows, and    *)
(* process restarts.  The operations that Mission takes as one step are    *)
(* here taken apart where the code lets go of the row: between the Get     *)
(* that a transition is computed from and the ApplyTransition that writes  *)
(* it, and for the length of a turn.                                       *)
(*                                                                         *)
(* Source: internal/brain/missions/{driver,store,sweep}.go.  One brain     *)
(* process; a row lock makes each Store method atomic.                     *)
(***************************************************************************)
EXTENDS MissionPhases

CONSTANTS
  NumMissions,      \* missions, numbered in the order they were created
  Loops,            \* goroutines that may run Drive at the same time
  Clients,          \* API requests and sweep iterations in flight
  Kind, Flow, AutoApprove,   \* what the missions are created with
  TurnKinds,        \* bound: the input kinds that turns report
  AskBudget,        \* ask_user calls a mission may make
  MaxSlots,         \* max_concurrent of the work-slot sweep
  MaxSignals,       \* bound: resumes and plan decisions
  MaxRestarts       \* bound: restarts of the process

ASSUME DriverAssumption ==
  /\ NumMissions \in Nat
  /\ Kind \in MissionKinds /\ Flow \in Flows /\ LegalFlow(Kind, Flow)
  /\ AutoApprove \in BOOLEAN
  /\ AskBudget \in Nat /\ MaxSlots \in Nat
  /\ MaxSignals \in Nat /\ MaxRestarts \in Nat

Missions == 1 .. NumMissions

VARIABLES
  rows,             \* the missions table
  pendingInput,     \* the missions whose pending_input is set
  asksUsed,         \* asks_used
  terminalEvents,   \* mission.terminal rows in the events inbox
  spawned,          \* missions for which a Drive goroutine was started
  driving,          \* Driver.driving, the in-process claims
  loops,            \* the goroutines inside Drive
  cancelled,        \* missions whose running turn's context is cancelled
  clients,          \* requests between their read and their write
  approved,         \* history: missions whose plan the operator approved
  signals,          \* resumes and plan decisions so far
  restarts,         \* restarts so far
  provisioned       \* missions that have a session and a workspace

vars == <<rows, pendingInput, asksUsed, terminalEvents, spawned, driving,
          loops, cancelled, clients, approved, signals, restarts, provisioned>>

-----------------------------------------------------------------------------

Created ==
  [phase |-> InitialPhase(Flow), status |-> "idle", pauseReason |-> NoReason,
   iteration |-> 0, consecutiveFailures |-> 0,
   lastGapFingerprint |-> NoFingerprint, stallCount |-> 0, harnessRetries |-> 0,
   units |-> Nothing, replanUsed |-> FALSE, flow |-> Flow,
   autoApprovePlan |-> AutoApprove, findings |-> ResolveAll, reworkRounds |-> 0,
   reviewRoute |-> AnyRoute]

\* A goroutine holds what it read (snap), what its turn reported (in) and the
\* transition it is about to write (next).
Out == [pc |-> "out", id |-> 0, snap |-> Created, in |-> In("resume"), next |-> Created]

Away == [pc |-> "away", id |-> 0, kind |-> "resume", next |-> Created]

\* Create: a mission whose provisioning fails is left idle, with no loop started.
Init ==
  /\ rows = [i \in Missions |-> Created]
  /\ pendingInput = {}
  /\ asksUsed = [i \in Missions |-> 0]
  /\ terminalEvents = [i \in Missions |-> 0]
  /\ provisioned \in SUBSET Missions
  /\ spawned = provisioned
  /\ driving = {}
  /\ loops = [l \in Loops |-> Out]
  /\ cancelled = {}
  /\ clients = [c \in Clients |-> Away]
  /\ approved = {}
  /\ signals = 0
  /\ restarts = 0

-----------------------------------------------------------------------------
(* Store.ApplyTransition: the row is locked, a terminal row is refused,    *)
(* units are written only by a state that has some, and reaching a         *)
(* terminal phase inserts its event with the row.                          *)

\* Fault: a terminal row is not refused.
ApplyTransitionToAny(i, next) ==
  /\ rows' = [rows EXCEPT ![i] = next]
  /\ terminalEvents' = [terminalEvents EXCEPT ![i] =
       IF Terminal(next.phase) THEN @ + 1 ELSE @]

ApplyTransition(i, next) ==
  /\ ~Terminal(rows[i].phase)
  /\ rows' = [rows EXCEPT ![i] =
       IF DOMAIN next.units = {} THEN [next EXCEPT !.units = rows[i].units] ELSE next]
  /\ terminalEvents' = [terminalEvents EXCEPT ![i] =
       IF Terminal(next.phase) THEN @ + 1 ELSE @]

Refused(i) == Terminal(rows[i].phase) /\ UNCHANGED <<rows, terminalEvents>>

-----------------------------------------------------------------------------
(* Drive and Advance. *)

Drivable(s) == ~Terminal(s.phase) /\ s.status \in {"idle", "working"}

\* Fault: the claim does not look at the map.
ClaimDrivingUnchecked(l, i) ==
  /\ driving' = driving \cup {i}
  /\ loops' = [loops EXCEPT ![l] = [Out EXCEPT !.pc = "advance", !.id = i]]

ClaimDriving(l, i) ==
  /\ i \notin driving
  /\ driving' = driving \cup {i}
  /\ loops' = [loops EXCEPT ![l] = [Out EXCEPT !.pc = "advance", !.id = i]]

\* Drive returns at once when another loop owns the mission.
Drive(l, i) ==
  /\ i \in spawned
  /\ loops[l].pc = "out"
  /\ spawned' = spawned \ {i}
  /\ \/ ClaimDriving(l, i)
     \/ i \in driving /\ UNCHANGED <<driving, loops>>
  /\ UNCHANGED <<rows, pendingInput, asksUsed, terminalEvents, cancelled,
                 clients, approved, signals, restarts, provisioned>>

Goto(l, pc) == loops' = [loops EXCEPT ![l].pc = pc]

\* Fault: the loop ends without giving up its claim.
ReleaseDrivingKeepsClaim(l) ==
  /\ loops[l].pc = "release"
  /\ loops' = [loops EXCEPT ![l] = Out]
  /\ UNCHANGED <<rows, pendingInput, asksUsed, terminalEvents, spawned, driving,
                 cancelled, clients, approved, signals, restarts, provisioned>>

ReleaseDriving(l) ==
  /\ loops[l].pc = "release"
  /\ driving' = driving \ {loops[l].id}
  /\ loops' = [loops EXCEPT ![l] = Out]
  /\ UNCHANGED <<rows, pendingInput, asksUsed, terminalEvents, spawned,
                 cancelled, clients, approved, signals, restarts, provisioned>>

\* Advance's read: parked and ended missions end the loop; so may the capacity
\* gate for an idle one, and the loop's own time bound.
AdvanceReads(l) ==
  LET i == loops[l].id
  IN  /\ loops[l].pc = "advance"
      /\ \/ Drivable(rows[i]) /\ loops' = [loops EXCEPT ![l].pc = "turn", ![l].snap = rows[i]]
         \/ ~Drivable(rows[i]) /\ Goto(l, "release")
      /\ cancelled' = cancelled \ {i}
      /\ UNCHANGED <<rows, pendingInput, asksUsed, terminalEvents, spawned,
                     driving, clients, approved, signals, restarts, provisioned>>

AdvanceStops(l) ==
  /\ loops[l].pc = "advance"
  /\ Goto(l, "release")
  /\ UNCHANGED <<rows, pendingInput, asksUsed, terminalEvents, spawned, driving,
                 cancelled, clients, approved, signals, restarts, provisioned>>

\* ensureProvisioned, ahead of the first turn.  Its failure pauses the mission
\* on what was read before, without reading the row again.
Provision(l) ==
  LET i == loops[l].id
  IN  /\ loops[l].pc = "turn"
      /\ i \notin provisioned
      /\ \/ /\ provisioned' = provisioned \cup {i}
            /\ UNCHANGED loops
         \/ /\ i \notin cancelled
            /\ loops' = [loops EXCEPT ![l].pc = "apply", ![l].next =
                 Step(loops[l].snap, In("review_infra_failure"), "under").next]
            /\ UNCHANGED provisioned
      /\ UNCHANGED <<rows, pendingInput, asksUsed, terminalEvents, spawned,
                     driving, cancelled, clients, approved, signals, restarts>>

\* The inputs a turn on snapshot s may report, with the plan it stored.
Reports0(s) ==
  CASE s.phase = "discover" -> DiscoverInputs
    [] s.phase = "plan"     -> PlanFailures
    [] s.phase = "build"    -> ExecuteInputs(s, Kind)
    [] s.phase = "prove"    -> ReviewInputs(s)
    [] s.phase = "result"   -> ResultInputs

TurnReports(l, in) ==
  loops' = [loops EXCEPT ![l].pc = "reload", ![l].in = in]

\* A cancelled turn is dropped without a write.
RunPhase(l) ==
  LET i == loops[l].id
      s == loops[l].snap
  IN  /\ loops[l].pc = "turn"
      /\ i \notin cancelled
      /\ i \in provisioned
      /\ \/ /\ \E in \in {x \in Reports0(s) : x.kind \in TurnKinds} : TurnReports(l, in)
            /\ UNCHANGED <<rows, pendingInput, asksUsed>>
         \/ /\ s.phase = "plan"
            /\ \E p \in NewPlans(s) : rows' = [rows EXCEPT ![i].units = p]
            /\ TurnReports(l, In("phase_complete"))
            /\ UNCHANGED <<pendingInput, asksUsed>>
         \/ /\ s.phase \in {"discover", "plan", "build", "prove"}
            /\ ~(s.phase = "build" /\ SkipsBuild(s))
            /\ asksUsed[i] < AskBudget
            /\ pendingInput' = pendingInput \cup {i}
            /\ asksUsed' = [asksUsed EXCEPT ![i] = @ + 1]
            /\ TurnReports(l, Asks)
            /\ UNCHANGED rows
      /\ UNCHANGED <<terminalEvents, spawned, driving, cancelled, clients,
                     approved, signals, restarts, provisioned>>

TurnAborts(l) ==
  /\ loops[l].pc \in {"turn", "reload", "apply"}
  /\ loops[l].id \in cancelled
  /\ Goto(l, "release")
  /\ UNCHANGED <<rows, pendingInput, asksUsed, terminalEvents, spawned, driving,
                 cancelled, clients, approved, signals, restarts, provisioned>>

\* The row is read again after the turn and Step runs on what it holds now.
AdvanceReloads(l) ==
  LET i == loops[l].id
  IN  /\ loops[l].pc = "reload"
      /\ i \notin cancelled
      /\ loops' = [loops EXCEPT ![l].pc = "apply",
                                ![l].next = Step(rows[i], loops[l].in, "under").next]
      /\ UNCHANGED <<rows, pendingInput, asksUsed, terminalEvents, spawned,
                     driving, cancelled, clients, approved, signals, restarts, provisioned>>

AdvanceApplies(l) ==
  LET i == loops[l].id
      next == loops[l].next
  IN  /\ loops[l].pc = "apply"
      /\ i \notin cancelled
      /\ \/ /\ ApplyTransition(i, next)
            /\ loops' = [loops EXCEPT ![l] =
                 [Out EXCEPT !.id = i, !.pc = IF next.status \in {"idle", "working"}
                                              THEN "advance" ELSE "release"]]
         \/ Refused(i) /\ Goto(l, "release")
      /\ UNCHANGED <<pendingInput, asksUsed, spawned, driving, cancelled, clients,
                     approved, signals, restarts, provisioned>>

LoopStep(l) ==
  \/ ReleaseDriving(l) \/ AdvanceReads(l) \/ AdvanceStops(l) \/ Provision(l) \/ RunPhase(l)
  \/ TurnAborts(l) \/ AdvanceReloads(l) \/ AdvanceApplies(l)

-----------------------------------------------------------------------------
(* Requests: Signal, DecidePlan and AnswerAskUser, read and write apart.   *)

Verbs == {"resume", "cancel", "plan_approve", "plan_replan", "plan_rediscover"}

Permitted(k, s) ==
  IF k \in {"resume", "cancel"} THEN ~Terminal(s.phase) ELSE AwaitingApproval(s)

SignalReads(c, i, k) ==
  /\ clients[c].pc = "away"
  /\ Permitted(k, rows[i])
  /\ k = "cancel" \/ signals < MaxSignals
  /\ signals' = IF k = "cancel" THEN signals ELSE signals + 1
  /\ clients' = [clients EXCEPT ![c] =
       [pc |-> "apply", id |-> i, kind |-> k,
        next |-> Step(rows[i], In(k), "under").next]]
  /\ UNCHANGED <<rows, pendingInput, asksUsed, terminalEvents, spawned, driving,
                 loops, cancelled, approved, restarts, provisioned>>

SignalApplies(c) ==
  LET r == clients[c]
  IN  /\ r.pc = "apply"
      /\ \/ /\ ApplyTransition(r.id, r.next)
            /\ approved' = IF r.kind = "plan_approve" THEN approved \cup {r.id} ELSE approved
            /\ IF r.kind = "cancel"
               THEN /\ clients' = [clients EXCEPT ![c].pc = "cancel_turn"]
                    /\ UNCHANGED spawned
               ELSE /\ clients' = [clients EXCEPT ![c] = Away]
                    /\ spawned' = spawned \cup {r.id}
         \/ /\ Refused(r.id)
            /\ clients' = [clients EXCEPT ![c] = Away]
            /\ UNCHANGED <<spawned, approved>>
      /\ UNCHANGED <<pendingInput, asksUsed, driving, loops, cancelled, signals,
                     restarts, provisioned>>

\* Driver.cancelTurn reaches the turn that is running, if there is one.
CancelTurn(c) ==
  LET i == clients[c].id
      running == \E l \in Loops : loops[l].id = i /\ loops[l].pc \in {"turn", "reload", "apply"}
  IN  /\ clients[c].pc = "cancel_turn"
      /\ cancelled' = IF running THEN cancelled \cup {i} ELSE cancelled
      /\ clients' = [clients EXCEPT ![c] = Away]
      /\ UNCHANGED <<rows, pendingInput, asksUsed, terminalEvents, spawned,
                     driving, loops, approved, signals, restarts, provisioned>>

\* An operator's answer, or the ask-timeout sweep's default.
AnswerReads(c, i) ==
  /\ clients[c].pc = "away"
  /\ i \in pendingInput
  /\ clients' = [clients EXCEPT ![c] = [Away EXCEPT !.pc = "answer", !.id = i]]
  /\ UNCHANGED <<rows, pendingInput, asksUsed, terminalEvents, spawned, driving,
                 loops, cancelled, approved, signals, restarts, provisioned>>

AnswerPendingInput(c) ==
  LET i == clients[c].id
  IN  /\ clients[c].pc = "answer"
      /\ pendingInput' = pendingInput \ {i}
      /\ rows' = [rows EXCEPT ![i].status = "idle"]
      /\ spawned' = spawned \cup {i}
      /\ clients' = [clients EXCEPT ![c] = Away]
      /\ UNCHANGED <<asksUsed, terminalEvents, driving, loops, cancelled,
                     approved, signals, restarts, provisioned>>

ClientStep(c) == SignalApplies(c) \/ CancelTurn(c) \/ AnswerPendingInput(c)

-----------------------------------------------------------------------------
(* Sweeps and restarts. *)

Working == {i \in Missions : rows[i].status = "working"}

IdleRows == {i \in Missions : rows[i].status = "idle"}

ClaimWorkSlot ==
  /\ Cardinality(Working) < MaxSlots
  /\ \E i \in IdleRows :
       /\ \A j \in IdleRows : i <= j
       /\ rows' = [rows EXCEPT ![i].status = "working"]
       /\ spawned' = spawned \cup {i}
  /\ UNCHANGED <<pendingInput, asksUsed, terminalEvents, driving, loops,
                 cancelled, clients, approved, signals, restarts, provisioned>>

\* The updated_at test of RecoverStaleWorking passes sooner or later.
ReDriveStaleWorking(i) ==
  /\ i \in Working
  /\ i \notin spawned
  /\ spawned' = spawned \cup {i}
  /\ UNCHANGED <<rows, pendingInput, asksUsed, terminalEvents, driving, loops,
                 cancelled, clients, approved, signals, restarts, provisioned>>

\* The process dies and boots: only the tables survive, and RecoverWorking
\* starts a Drive for every row left working.
Restart ==
  /\ restarts < MaxRestarts
  /\ restarts' = restarts + 1
  /\ spawned' = Working
  /\ driving' = {}
  /\ loops' = [l \in Loops |-> Out]
  /\ cancelled' = {}
  /\ clients' = [c \in Clients |-> Away]
  /\ UNCHANGED <<rows, pendingInput, asksUsed, terminalEvents, approved, signals, provisioned>>

Next ==
  \/ \E l \in Loops : LoopStep(l) \/ \E i \in Missions : Drive(l, i)
  \/ \E c \in Clients :
       \/ ClientStep(c)
       \/ \E i \in Missions : AnswerReads(c, i) \/ \E k \in Verbs : SignalReads(c, i, k)
  \/ ClaimWorkSlot
  \/ \E i \in Missions : ReDriveStaleWorking(i)
  \/ Restart

Spec == Init /\ [][Next]_vars

\* Goroutines and requests run on; the sweeps tick; and Advance gets past the
\* capacity gate and the time bound of Drive if it keeps coming back to them.
Fairness ==
  /\ \A l \in Loops : WF_vars(LoopStep(l))
  /\ \A c \in Clients : WF_vars(ClientStep(c))
  /\ WF_vars(ClaimWorkSlot)
  /\ \A i \in Missions :
       /\ WF_vars(\E l \in Loops : Drive(l, i))
       /\ SF_vars(\E l \in Loops : loops[l].id = i /\ AdvanceReads(l))
       /\ WF_vars(ReDriveStaleWorking(i))

FairSpec == Spec /\ Fairness

-----------------------------------------------------------------------------
(* Properties *)

\* Every variable has its type.
TypeOK ==
  /\ rows \in [Missions -> StepStates]
  /\ pendingInput \subseteq Missions
  /\ asksUsed \in [Missions -> Nat]
  /\ terminalEvents \in [Missions -> Nat]
  /\ spawned \subseteq Missions
  /\ driving \subseteq Missions
  /\ loops \in [Loops ->
       [pc : {"out", "advance", "turn", "reload", "apply", "release"},
        id : Missions \cup {0}, snap : StepStates, in : Inputs, next : StepStates]]
  /\ cancelled \subseteq Missions
  /\ clients \in [Clients ->
       [pc : {"away", "apply", "cancel_turn", "answer"}, id : Missions \cup {0},
        kind : Verbs, next : StepStates]]
  /\ approved \subseteq Missions
  /\ signals \in Nat
  /\ restarts \in Nat
  /\ provisioned \subseteq Missions

\* claimDriving and releaseDriving: whatever mix of create, resume, answer,
\* claim and stale-working sweep starts Drive, no mission has two loops, so no
\* two turns of one mission run at the same time.
OneLoopPerMission ==
  \A l1, l2 \in Loops :
    /\ l1 # l2
    /\ loops[l1].pc # "out"
    /\ loops[l2].pc # "out"
    => loops[l1].id # loops[l2].id

\* D-117: the terminal event rides the transition.  A mission that ended has
\* exactly one in the inbox and any other has none, however many turns,
\* cancels and resumes computed from stale reads try to write the row.
TerminalEventOnce ==
  \A i \in Missions :
    terminalEvents[i] = IF Terminal(rows[i].phase) THEN 1 ELSE 0

\* A late transition never brings an ended mission back, nor turns one ending
\* into the other: done and failed are final.
TerminalPhaseStays ==
  [][\A i \in Missions :
       Terminal(rows[i].phase) => rows'[i].phase = rows[i].phase]_vars

\* No mission is stranded: one that can run gets its turn or stops being
\* runnable, across lost claims, full slots, refused loops and restarts.
NoMissionStranded ==
  \A i \in Missions :
    Drivable(rows[i]) ~>
      \/ ~Drivable(rows[i])
      \/ \E l \in Loops : loops[l].id = i /\ loops[l].pc = "turn"

\* store.go, RecoverWorking: a row left working is re-driven "rather than stuck
\* forever".
WorkingMovesOn ==
  \A i \in Missions : rows[i].status = "working" ~> rows[i].status # "working"

\* The approval gate holds under races: without auto_approve_plan a mission
\* that plans has not entered build before an operator's approve was applied,
\* whatever stale turns, resumes and decisions wrote its row in between.
NoBuildBeforeApproval ==
  \A i \in Missions :
    /\ ~AutoApprove
    /\ ~NeverVisitsPlan(rows[i])
    /\ rows[i].phase \in {"build", "prove", "result", "done"}
    => i \in approved

=============================================================================
