------------------------------ MODULE Delegated ------------------------------
(* The worker turns of a mission that are run by a coding CLI in the mission's *)
(* sandbox (missions/delegated.go, D-052): a detached launch, polls that tail  *)
(* what the CLI has written, and an event log from which a brain that was      *)
(* restarted finds the run again. One mission; its sandbox, its CLI processes  *)
(* and its turns. A run's output is four units: the session line, one line of  *)
(* work, and the two halves of the result line.                                *)
EXTENDS Naturals, Sequences, FiniteSets

CONSTANTS
  Entries,      \* usable entries of the worker's route
  TailCap,      \* units one poll reads at most (tailChunkCap)
  MaxRuns, MaxReviews,  \* bounds: launches, review runs
  MaxLog,       \* bound: events read of the log when a turn begins
  MaxMishaps    \* bound: lost answers, kills and writes, restarts, new containers

ASSUME CapAssumption == TailCap \in Nat \ {0}
ASSUME RunBoundsAssumption ==
  {MaxRuns, MaxReviews, MaxLog, MaxMishaps} \subseteq Nat

VARIABLES
  cli,        \* the worker runs: their process, their output
  marker,     \* the file a launch leaves in the container's home
  log,        \* the executor events of the mission
  turn,       \* the worker turn in progress
  cooled,     \* entries in their cooldown, in the brain's memory
  delivered,  \* history: verdicts a run's own result has given
  slipped,    \* history: runs about which an exec or a write was lost
  reviews, mishaps

sandbox == <<cli, marker>>
runHistory == <<delivered, slipped>>
runBounds == <<reviews, mishaps>>
delegatedVars == <<sandbox, log, turn, cooled, runHistory, runBounds>>

Session == 1
Work == 2
End == 4
Runs == DOMAIN cli
Ids == 1..MaxRuns

NoTurn == [at |-> "idle", run |-> 0, entry |-> "none", from |-> 0, offset |-> 0,
           resume |-> FALSE, attempt |-> 0, attached |-> FALSE]

DelegatedInit ==
  /\ cli = <<>> /\ marker = FALSE
  /\ log = <<>> /\ turn = NoTurn /\ cooled = {}
  /\ delivered = [r \in Ids |-> 0] /\ slipped = {}
  /\ reviews = 0 /\ mishaps = 0

-----------------------------------------------------------------------------
(* The event log *)

Event(kind, r, offset, reset) ==
  [kind |-> kind, phase |-> "build", run |-> r, offset |-> offset, reset |-> reset]
Review(kind) == [Event(kind, 0, 0, FALSE) EXCEPT !.phase = "prove"]

Mishap == mishaps < MaxMishaps /\ mishaps' = mishaps + 1
Slip(r) == Mishap /\ slipped' = slipped \cup {r}
NoSlip == UNCHANGED <<slipped, mishaps>>

\* The log, as far as it is still read: from the latest launch, and of how far
\* its output was read the latest only.
Appended(l, ev) ==
  IF ev.kind = "spawned" /\ ev.phase = "build" THEN <<ev>>
  ELSE IF ev.kind = "progress" /\ l[Len(l)].kind = "progress" THEN [l EXCEPT ![Len(l)] = ev]
  ELSE Append(l, ev)

\* AppendEvent; a failure is logged and nothing else.
Record(r, ev) ==
  \/ log' = Appended(log, ev) /\ NoSlip
  \/ log' = log /\ Slip(r)

\* LastRunState: the latest launch of a worker and what followed it, review
\* runs left out.
Spawns == {i \in DOMAIN log : log[i].kind = "spawned" /\ log[i].phase = "build"}
LastSpawn == CHOOSE i \in Spawns : \A j \in Spawns : j <= i
After == {i \in DOMAIN log : i > LastSpawn /\
            \A j \in LastSpawn + 1..i : log[j].kind # "spawned"}

EndKindsDied == {"died"}
EndKinds == {"result", "died"}

LatestOffset ==
  LET P == {i \in After : log[i].kind = "progress"}
  IN IF P = {} THEN 0 ELSE log[CHOOSE i \in P : \A j \in P : j <= i].offset

LastRun ==
  IF Spawns = {}
    THEN [run |-> 0, finished |-> FALSE, reset |-> FALSE, session |-> FALSE, offset |-> 0]
    ELSE [run |-> log[LastSpawn].run,
          finished |-> \E i \in After : log[i].kind \in EndKinds,
          reset |-> \E i \in After : log[i].kind \in EndKinds /\ log[i].reset,
          session |-> \E i \in After : log[i].kind = "session",
          offset |-> LatestOffset]

\* The code compares the run's harness with the mission's as well. The two never differ: worker
\* runs are spawned with the mission's harness, which no statement changes after Create.
UnfinishedSession == LastRun.run # 0 /\ ~LastRun.finished /\ LastRun.session
Unfinished == LastRun.run # 0 /\ ~LastRun.finished

-----------------------------------------------------------------------------
(* The CLI in the sandbox *)

Alive(r) == cli[r].proc = "alive"

\* The CLI writes.
Write(r) ==
  /\ Alive(r) /\ cli[r].written < End
  /\ cli' = [cli EXCEPT ![r].written = @ + 1]
  /\ UNCHANGED <<marker, log, turn, cooled, runHistory, runBounds>>

\* It ends, or the run budget ends it: the exit code is written.
Exit(r) ==
  /\ Alive(r)
  /\ cli' = [cli EXCEPT ![r].proc = "exited"]
  /\ UNCHANGED <<marker, log, turn, cooled, runHistory, runBounds>>

\* The container goes with its processes and its home; the run directories stay.
Recreate ==
  /\ Mishap /\ marker' = FALSE
  /\ cli' = [r \in Runs |-> IF Alive(r) THEN [cli[r] EXCEPT !.proc = "lost"] ELSE cli[r]]
  /\ UNCHANGED <<log, turn, cooled, runHistory, reviews>>

-----------------------------------------------------------------------------
(* RunWorker: an entry, then the run that is still open or a launch *)

Ends == turn' = NoTurn
Pick(e) == turn.at = "idle" /\ Len(log) <= MaxLog /\ e \in Entries \ cooled

\* attemptResume: the run directory has a pid or an exit code.
Attach(e) ==
  /\ Pick(e) /\ Unfinished /\ cli[LastRun.run].proc # "none"
  /\ turn' = [NoTurn EXCEPT !.at = "poll", !.run = LastRun.run, !.entry = e,
                !.from = LastRun.offset, !.offset = LastRun.offset, !.attached = TRUE]
  /\ UNCHANGED <<sandbox, log, cooled, runHistory, runBounds>>

\* It has neither, or the probe itself fails: a forced retry.
LostRun(e) ==
  /\ Pick(e) /\ Unfinished
  /\ \/ cli[LastRun.run].proc = "none" /\ Record(LastRun.run, Event("died", LastRun.run, 0, FALSE))
     \/ Slip(LastRun.run) /\ log' = Appended(log, Event("died", LastRun.run, 0, FALSE))
  /\ Ends
  /\ UNCHANGED <<sandbox, cooled, delivered, reviews>>

CredentialFails(e) ==
  /\ Pick(e) /\ ~Unfinished
  /\ cooled' = cooled \cup {e}
  /\ Ends
  /\ UNCHANGED <<sandbox, log, runHistory, runBounds>>

\* planSessionResume: the session of the last run, if it was not given up and
\* the container still has the marker of a launch.
CanResume == LastRun.run # 0 /\ ~LastRun.reset /\ LastRun.session /\ marker

\* A mission may ask for a fresh session each time, an adapter not support one.
\* When the log cannot be read, there is no last run.
Plan(e) ==
  /\ Pick(e) /\ (IF Unfinished THEN Slip(LastRun.run) ELSE NoSlip)
  /\ \E resume \in {FALSE, CanResume /\ ~Unfinished} :
       turn' = [NoTurn EXCEPT !.at = "spawn", !.entry = e, !.resume = resume]
  /\ UNCHANGED <<sandbox, log, cooled, delivered, reviews>>

\* recordSpawned, before the launch.
Spawn ==
  LET r == Len(cli) + 1 IN
  /\ turn.at = "spawn" /\ r <= MaxRuns
  /\ cli' = Append(cli, [proc |-> "none", written |-> 0])
  /\ turn' = [turn EXCEPT !.at = "launch", !.run = r]
  /\ Record(r, Event("spawned", r, 0, FALSE))
  /\ UNCHANGED <<marker, cooled, delivered, reviews>>

Started(r) ==
  /\ cli' = [cli EXCEPT ![r].proc = "alive"]
  /\ marker' = TRUE

Launch ==
  /\ turn.at = "launch" /\ Started(turn.run)
  /\ turn' = [turn EXCEPT !.at = "poll", !.from = 0, !.offset = 0]
  /\ UNCHANGED <<log, cooled, runHistory, runBounds>>

\* The sandbox does not answer, with the CLI started or not, or the CLI does
\* not start: only the latter cools the entry.
LaunchFails ==
  /\ turn.at = "launch"
  /\ log' = Appended(log, Event("died", turn.run, 0, FALSE))
  /\ \/ /\ UNCHANGED sandbox /\ NoSlip
        /\ cooled' \in {cooled, cooled \cup {turn.entry}}
     \/ /\ Started(turn.run) /\ Slip(turn.run) /\ UNCHANGED cooled
  /\ Ends
  /\ UNCHANGED <<delivered, reviews>>

-----------------------------------------------------------------------------
(* pollRun *)

\* What a poll's tail reaches.
Unread(r) == {n \in turn.offset + 1 .. turn.offset + TailCap : n <= cli[r].written}
ReadToUnbounded(r) == turn.offset + TailCap
ReadTo(r) == turn.offset + Cardinality(Unread(r))

\* A result is parsed only from a whole line, read since the polling began.
SawResult(n) == n = End /\ turn.from <= Work

\* The events of a poll: the session when its line is first read, and now and
\* then (recordProgressThrottled) how far the output has been read.
Logged(r, n) ==
  LET seen == IF turn.offset < Session /\ n >= Session
                THEN Appended(log, Event("session", r, 0, FALSE)) ELSE log
  IN {seen, Appended(seen, Event("progress", r, n, FALSE))}

\* The process has exited with its result read, is gone without it, or goes on.
AfterPoll(r, n) ==
  IF cli[r].proc = "exited" /\ SawResult(n) THEN "finish"
  ELSE IF ~Alive(r) THEN "dead" ELSE "poll"

Poll ==
  LET r == turn.run  n == ReadTo(r) IN
  /\ turn.at = "poll" /\ (n > turn.offset \/ ~Alive(r))
  /\ log' \in IF n > turn.offset THEN Logged(r, n) ELSE {log}
  /\ turn' = [turn EXCEPT !.offset = n, !.at = AfterPoll(r, n)]
  /\ UNCHANGED <<sandbox, cooled, runHistory, runBounds>>

\* Polls that fail three times in a row: an error, the run stays open.
Unreachable ==
  /\ turn.at = "poll" /\ Mishap
  /\ Ends
  /\ UNCHANGED <<sandbox, log, cooled, runHistory, reviews>>

\* killRun, best effort.
Kill(r) ==
  /\ UNCHANGED marker
  /\ \/ cli' = [cli EXCEPT ![r].proc = IF @ = "alive" THEN "lost" ELSE @] /\ NoSlip
     \/ UNCHANGED cli /\ Slip(r)

\* Nothing new for idleTimeout. The kill is logged, but not as the run's end.
SilentNever == FALSE
Silent == Alive(turn.run) /\ turn.offset >= cli[turn.run].written
IdleKill ==
  /\ turn.at = "poll" /\ Silent
  /\ Kill(turn.run) /\ Ends
  /\ UNCHANGED <<log, cooled, delivered, reviews>>

\* The turn's context is cancelled, by its deadline or with the mission.
Cancel ==
  /\ turn.at = "poll"
  /\ Kill(turn.run)
  /\ log' = Appended(log, Event("died", turn.run, 0, FALSE))
  /\ Ends
  /\ UNCHANGED <<cooled, delivered, reviews>>

-----------------------------------------------------------------------------
(* How a run ends *)

\* finish with a provider's rejection or a failed authentication.
Rejected ==
  /\ turn.at = "finish"
  /\ \E reset \in BOOLEAN : Record(turn.run, Event("result", turn.run, 0, reset))
  /\ cooled' = cooled \cup {turn.entry}
  /\ Ends
  /\ UNCHANGED <<sandbox, delivered, reviews>>

\* finish with a verdict. A run without a tool call resets the session and is
\* launched once more; a DONE that changed nothing is a forced retry and
\* resets it too.
FinishRun ==
  /\ turn.at = "finish"
  /\ \/ /\ \E reset \in BOOLEAN : Record(turn.run, Event("result", turn.run, 0, reset))
        /\ turn' = [turn EXCEPT !.at = "verdict"]
     \/ /\ ~turn.attached /\ turn.attempt = 0
        /\ Record(turn.run, Event("result", turn.run, 0, TRUE))
        /\ turn' = [NoTurn EXCEPT !.at = "spawn", !.entry = turn.entry, !.attempt = 1]
  /\ UNCHANGED <<sandbox, cooled, delivered, reviews>>

\* The driver applies the verdict; it may have the delivered work reviewed.
Deliver ==
  /\ turn.at = "verdict"
  /\ delivered' = [delivered EXCEPT ![turn.run] = @ + 1]
  /\ turn' = [NoTurn EXCEPT !.run = turn.run]
  /\ UNCHANGED <<sandbox, log, cooled, slipped, runBounds>>

\* finishNoResult: the run budget, the credential, the session it was to resume,
\* or a transport death.
Dead ==
  /\ turn.at = "dead"
  /\ \/ /\ Record(turn.run, Event("died", turn.run, 0, FALSE))
        /\ cooled' \in {cooled \cup {turn.entry}} \cup
                         (IF cli[turn.run].proc = "exited" THEN {cooled} ELSE {})
     \/ /\ cli[turn.run].proc = "exited" /\ (turn.resume \/ turn.attached)
        /\ Record(turn.run, Event("died", turn.run, 0, TRUE)) /\ UNCHANGED cooled
  /\ Ends
  /\ UNCHANGED <<sandbox, delivered, reviews>>

-----------------------------------------------------------------------------
(* Beside the worker's turns *)

\* A delegated review of delivered work shares the container and the log; the
\* brain may be restarted before it is over.
ReviewRun ==
  /\ turn.at = "idle" /\ reviews < MaxReviews /\ reviews' = reviews + 1
  /\ turn.run # 0
  /\ \E tail \in {<<>>, <<Review("result")>>, <<Review("died")>>} :
       log' = log \o <<Review("spawned")>> \o tail
  /\ marker' = TRUE
  /\ UNCHANGED <<cli, turn, cooled, runHistory, mishaps>>

CoolingEnds(e) ==
  /\ e \in cooled /\ cooled' = cooled \ {e}
  /\ UNCHANGED <<sandbox, log, turn, runHistory, runBounds>>

\* The brain restarts: the CLIs do not notice.
Restart ==
  /\ Mishap
  /\ Ends /\ cooled' = {}
  /\ UNCHANGED <<sandbox, log, runHistory, reviews>>

Turn ==
  \/ Spawn \/ Launch \/ LaunchFails \/ Poll \/ IdleKill \/ Rejected \/ FinishRun \/ Deliver \/ Dead

DelegatedNext ==
  \/ Turn \/ Unreachable \/ Cancel \/ ReviewRun \/ Restart \/ Recreate
  \/ \E r \in Runs : Write(r) \/ Exit(r)
  \/ \E e \in Entries :
       Attach(e) \/ LostRun(e) \/ CredentialFails(e) \/ Plan(e) \/ CoolingEnds(e)

DelegatedSpec == DelegatedInit /\ [][DelegatedNext]_delegatedVars

\* The goroutine of the turn goes on polling; the CLI owes nothing.
DelegatedFairSpec == DelegatedSpec /\ WF_delegatedVars(Turn)

-----------------------------------------------------------------------------
\* The type invariant of the sandbox, the log and the turn.
DelegatedTypeOK ==
  /\ cli \in Seq([proc : {"none", "alive", "exited", "lost"}, written : 0..End])
  /\ Len(cli) <= MaxRuns /\ marker \in BOOLEAN
  /\ log \in Seq([kind : {"spawned", "session", "progress", "result", "died"},
                  phase : {"build", "prove"}, run : 0..MaxRuns, offset : 0..End, reset : BOOLEAN])
  /\ turn \in [at : {"idle", "spawn", "launch", "poll", "finish", "dead", "verdict"},
               run : 0..MaxRuns, entry : Entries \cup {"none"}, from : 0..End, offset : 0..End,
               resume : BOOLEAN, attempt : 0..1, attached : BOOLEAN]
  /\ cooled \subseteq Entries /\ delivered \in [Ids -> Nat] /\ slipped \subseteq Ids

\* At most one CLI works in the mission's worktree, across restarts, failed
\* launches and forced retries, except one about which an answer, a kill or an
\* event was lost.
OneCliAtATime ==
  \A r, q \in Runs : Alive(r) /\ Alive(q) /\ r # q => {r, q} \cap slipped # {}

\* The verdict of a run reaches the driver at most once, however often the brain
\* re-attaches, unless the event that ends the run could not be written.
VerdictOnce == \A r \in Ids \ slipped : delivered[r] <= 1

\* A worker turn ends even if its CLI hangs for ever.
TurnsEnd ==
  turn.at # "idle" ~> (turn.at = "idle" \/ (turn.at = "spawn" /\ Len(cli) = MaxRuns))
=============================================================================
