------------------------------ MODULE Delivery ------------------------------
(* The result phase of a mission (missions/driver.go, runResult): artifact    *)
(* copy, delivery to repositories and then to message destinations            *)
(* (destinations/deliver.go, repoadapter.go), promotion to the knowledge base *)
(* (promote_kb.go), and the retries: a failed round parks the mission, the    *)
(* sweep resumes it, and only what is not recorded as delivered runs again.   *)
(* Outside stand the git provider, the recipients and the knowledge base.     *)
EXTENDS Naturals, FiniteSets

CONSTANTS
  Repos,      \* repository destinations of the mission, push_pr mode
  Messages,   \* email, webhook and channel destinations
  Named,      \* repositories whose URL is known; the others' name is derived
  MaxTries,   \* attempts of one message delivery in a round (deliverBackoff)
  MaxPauses,  \* autoResumeInfraExhaustedAfter
  MaxFaults,  \* bound: calls that fail
  MaxCrashes  \* bound: restarts

ASSUME DestinationsAssumption == Repos \cap Messages = {} /\ Named \subseteq Repos
ASSUME BoundsAssumption ==
  MaxTries \in Nat \ {0} /\ MaxPauses \in Nat \ {0} /\ MaxFaults \in Nat /\ MaxCrashes \in Nat

Destinations == Repos \cup Messages

VARIABLES
  status,   \* of the mission in its result phase: working, paused or done
  pauses,   \* infra pauses in its event log
  entry,    \* destinations recorded as delivered in the mission's row
  refs,     \* the row has the references of the copied artifacts
  pc,       \* where the round is
  todo,     \* destinations the round is still to try
  out,      \* delivered according to the round's own copy of the entries
  failed,   \* destinations and pieces that failed in this round
  stage,    \* how far the delivery of one repository is, or the message's attempts
  created, pushed, prs,  \* the git provider: repositories, branches, pull requests
  got,      \* copies each recipient has received
  docs,     \* documents of the mission's artifact in the knowledge base
  doc,      \* whether the last one is searchable: none, pending, ready, failed
  sent,     \* history: recipients reached in this round
  doubt,    \* history: rounds that reached a recipient and did not record it
  faults, crashes

round == <<pc, todo, out, failed, stage>>
row == <<status, pauses, entry, refs>>
world == <<created, pushed, prs, got, docs, doc>>
history == <<sent, doubt>>
bounds == <<faults, crashes>>
vars == <<row, round, world, history, bounds>>

NoStage == [at |-> "none", of |-> "none", tries |-> 0]

Rest == pc = "rest" /\ todo = {} /\ out = {} /\ failed = {} /\ stage = NoStage

Init ==
  /\ status = "working" /\ pauses = 0 /\ entry = {} /\ refs = FALSE
  /\ Rest
  /\ created = [r \in Repos |-> FALSE] /\ pushed = {} /\ prs = [r \in Repos |-> 0]
  /\ got = [d \in Messages |-> 0] /\ docs = 0 /\ doc = "none"
  /\ sent = {} /\ doubt = [d \in Messages |-> 0]
  /\ faults = 0 /\ crashes = 0

Fault == faults < MaxFaults /\ faults' = faults + 1 /\ UNCHANGED crashes

\* What the round's end or loss leaves in doubt: recipients reached whose
\* delivery is not in the row.
Doubted(recorded) ==
  [d \in Messages |-> IF d \in sent \ recorded THEN doubt[d] + 1 ELSE doubt[d]]

-----------------------------------------------------------------------------
(* The round starts: a missing name, the artifacts, the entries to try. *)

\* CopyArtifacts skips what it cannot read or save: without references the row
\* keeps what it had.
Copied == {refs, TRUE}

Begin ==
  /\ status = "working" /\ pc = "rest"
  /\ refs' \in Copied
  /\ pc' = "deliver"
  /\ out' = entry
  /\ todo' = Destinations \ entry
  /\ UNCHANGED <<status, pauses, entry, failed, stage, world, history, bounds>>

\* Deliver: repositories first, so that messages carry the new link.
AnyTodo == todo
NextTodo == IF todo \cap Repos # {} THEN todo \cap Repos ELSE todo

\* recordOutcome, in the round's copy of the entries.
Recorded(d, ok) ==
  /\ todo' = todo \ {d}
  /\ out' = IF ok THEN out \cup {d} ELSE out
  /\ failed' = IF ok THEN failed ELSE failed \cup {d}
  /\ stage' = NoStage
  /\ UNCHANGED pc

Advance(r, next) ==
  /\ stage' = [at |-> next, of |-> r, tries |-> 0]
  /\ UNCHANGED <<pc, todo, out, failed>>

Take(d) ==
  /\ pc = "deliver" /\ stage = NoStage /\ d \in NextTodo
  /\ Advance(d, IF d \in Repos THEN "ensure" ELSE "send")
  /\ UNCHANGED <<row, world, history, bounds>>

-----------------------------------------------------------------------------
(* A repository: DeliverMission. *)

At(r, where) == stage.at = where /\ stage.of = r

\* ensureRepo and createRepo. A failed delivery leaves the entry without the
\* repository's URL, so a derived name is to be created again.
Ensure(r) ==
  /\ At(r, "ensure")
  /\ IF created[r] /\ r \notin Named
       THEN Recorded(r, FALSE) /\ UNCHANGED created
       ELSE /\ created' = [created EXCEPT ![r] = TRUE]
            /\ Advance(r, "push")
  /\ UNCHANGED <<row, pushed, prs, got, docs, doc, history, bounds>>

Push(r) ==
  /\ At(r, "push")
  /\ pushed' = pushed \cup {r}
  /\ Advance(r, "pr")
  /\ UNCHANGED <<row, created, prs, got, docs, doc, history, bounds>>

\* CreatePR returns the pull request that is already open for the branch.
NewPRAlways(r) == [prs EXCEPT ![r] = @ + 1]
NewPR(r) == [prs EXCEPT ![r] = IF @ = 0 THEN 1 ELSE @]

OpenPR(r) ==
  /\ At(r, "pr")
  /\ prs' = NewPR(r)
  /\ Recorded(r, TRUE)
  /\ UNCHANGED <<row, created, pushed, got, docs, doc, history, bounds>>

\* Any of these calls fails; the pull request may be open nevertheless.
RepoFails(r) ==
  /\ \E where \in {"ensure", "push", "pr"} : At(r, where)
  /\ Fault
  /\ prs' \in IF stage.at = "pr" THEN {prs, NewPR(r)} ELSE {prs}
  /\ Recorded(r, FALSE)
  /\ UNCHANGED <<row, created, pushed, got, docs, doc, history>>

-----------------------------------------------------------------------------
(* A message: the attempts of deliverOne. *)

Reached(d) ==
  /\ got' = [got EXCEPT ![d] = @ + 1]
  /\ sent' = sent \cup {d}

Send(d) ==
  /\ At(d, "send")
  /\ Reached(d) /\ Recorded(d, TRUE)
  /\ UNCHANGED <<row, created, pushed, prs, docs, doc, doubt, bounds>>

\* The connection fails: nothing was sent, the next attempt follows.
SendFails(d) ==
  /\ At(d, "send") /\ Fault
  /\ IF stage.tries + 1 < MaxTries
       THEN stage' = [stage EXCEPT !.tries = @ + 1] /\ UNCHANGED <<pc, todo, out, failed>>
       ELSE Recorded(d, FALSE)
  /\ UNCHANGED <<row, world, history>>

\* errMaybeDelivered: the message may have arrived, no further attempt is made.
SendUnsureRetried(d) ==
  /\ At(d, "send") /\ Fault
  /\ \/ Reached(d)
     \/ UNCHANGED <<got, sent>>
  /\ IF stage.tries + 1 < MaxTries
       THEN stage' = [stage EXCEPT !.tries = @ + 1] /\ UNCHANGED <<pc, todo, out, failed>>
       ELSE Recorded(d, FALSE)
  /\ UNCHANGED <<row, created, pushed, prs, docs, doc, doubt>>

SendUnsure(d) ==
  /\ At(d, "send") /\ Fault
  /\ \/ Reached(d)
     \/ UNCHANGED <<got, sent>>
  /\ Recorded(d, FALSE)
  /\ UNCHANGED <<row, created, pushed, prs, docs, doc, doubt>>

-----------------------------------------------------------------------------
(* The entries are stored, the artifacts promoted, the round ends. *)

\* SetDestinations; a failure is only logged.
Store ==
  /\ pc = "deliver" /\ todo = {} /\ stage = NoStage
  /\ \/ entry' = out /\ UNCHANGED bounds
     \/ Fault /\ UNCHANGED entry
  /\ pc' = "promote"
  /\ doubt' = Doubted(entry') /\ sent' = {}
  /\ UNCHANGED <<status, pauses, refs, todo, out, failed, stage, world>>

\* promoteOne finds the document to replace or creates one: also when the
\* look-up itself fails.
Promote ==
  /\ pc = "promote"
  /\ IF refs
       THEN /\ \/ docs' = (IF docs = 0 THEN 1 ELSE docs) /\ UNCHANGED bounds
               \/ docs' = docs + 1 /\ Fault
            /\ doc' = "pending" /\ pc' = "ingest"
       ELSE /\ pc' = "finish" /\ UNCHANGED <<docs, doc, bounds>>
  /\ UNCHANGED <<row, todo, out, failed, stage, created, pushed, prs, got, history>>

\* A document that was marked failed, or not even that, is ingested again.
Ingest ==
  /\ pc = "ingest"
  /\ \/ doc' = "ready" /\ UNCHANGED <<failed, bounds>>
     \/ Fault /\ doc' \in {"pending", "failed"} /\ failed' = failed \cup {"kb"}
  /\ pc' = "finish"
  /\ UNCHANGED <<row, todo, out, stage, created, pushed, prs, got, docs, history>>

\* The documents cannot be written: nothing was changed.
PromoteFails ==
  /\ pc = "promote" /\ refs /\ Fault
  /\ failed' = failed \cup {"kb"} /\ pc' = "finish"
  /\ UNCHANGED <<row, todo, out, stage, world, history>>

\* What the round reports as failed decides whether the mission is done.
NothingFailedDeliveries == failed \cap Destinations = {}
NothingFailed == failed = {}

\* stepResultComplete and stepResultFailed.
Finish ==
  /\ pc = "finish"
  /\ IF NothingFailed
       THEN status' = "done" /\ UNCHANGED pauses
       ELSE status' = "paused" /\ pauses' = pauses + 1
  /\ pc' = "rest" /\ out' = {} /\ failed' = {} /\ UNCHANGED <<todo, stage>>
  /\ UNCHANGED <<entry, refs, world, history, bounds>>

\* autoResumeInfra: until the pauses in the log are too many.
AutoResumeOnceLess ==
  /\ status = "paused" /\ pauses + 1 < MaxPauses
  /\ status' = "working"
  /\ UNCHANGED <<pauses, entry, refs, round, world, history, bounds>>

AutoResume ==
  /\ status = "paused" /\ pauses < MaxPauses
  /\ status' = "working"
  /\ UNCHANGED <<pauses, entry, refs, round, world, history, bounds>>

\* The process stops; at boot the working mission is driven from its row.
Crash ==
  /\ crashes < MaxCrashes /\ pc # "rest"
  /\ crashes' = crashes + 1
  /\ pc' = "rest" /\ todo' = {} /\ out' = {} /\ failed' = {} /\ stage' = NoStage
  /\ doubt' = Doubted(entry) /\ sent' = {}
  /\ UNCHANGED <<row, world, faults>>

Healthy ==
  \/ Begin \/ Store \/ Promote \/ Ingest \/ Finish
  \/ \E d \in Destinations : Take(d)
  \/ \E r \in Repos : Ensure(r) \/ Push(r) \/ OpenPR(r)
  \/ \E d \in Messages : Send(d)

Next ==
  \/ Healthy
  \/ \E r \in Repos : RepoFails(r)
  \/ \E d \in Messages : SendFails(d) \/ SendUnsure(d)
  \/ PromoteFails \/ AutoResume \/ Crash

Spec == Init /\ [][Next]_vars

\* Drive goes on with the round, the sweep resumes what is parked.
FairSpec == Spec /\ WF_vars(Healthy) /\ WF_vars(AutoResume)

-----------------------------------------------------------------------------
\* The type invariant of the mission's row, the round and the world.
TypeOK ==
  /\ status \in {"working", "paused", "done"} /\ pauses \in 0..MaxPauses
  /\ entry \subseteq Destinations /\ refs \in BOOLEAN
  /\ pc \in {"rest", "deliver", "promote", "ingest", "finish"}
  /\ todo \subseteq Destinations /\ out \subseteq Destinations
  /\ failed \subseteq Destinations \cup {"kb"}
  /\ stage \in [at : {"none", "ensure", "push", "pr", "send"}, of : {"none"} \cup Destinations,
                tries : 0..(MaxTries - 1)]
  /\ created \in [Repos -> BOOLEAN] /\ pushed \subseteq Repos /\ prs \in [Repos -> Nat]
  /\ got \in [Messages -> Nat] /\ docs \in Nat /\ doc \in {"none", "pending", "ready", "failed"}
  /\ sent \subseteq Messages /\ doubt \in [Messages -> Nat]
  /\ faults \in 0..MaxFaults /\ crashes \in 0..MaxCrashes

\* A mission is done only when the world has its result: every repository its
\* pull request, every recipient the message, and the knowledge base a
\* searchable document if there were artifacts, whatever failed on the way.
DoneIsDelivered ==
  status = "done" =>
    /\ \A r \in Repos : r \in pushed /\ prs[r] = 1
    /\ \A d \in Messages : got[d] > 0
    /\ refs => docs > 0 /\ doc = "ready"

\* A recipient gets a further copy only after a round that reached it without
\* recording so: a restart, a lost write or an answer that did not come.
RepeatsOnlyInDoubt == \A d \in Messages : got[d] <= 1 + doubt[d]

\* A message goes out after every repository of the mission was tried, so that
\* it carries the link of the pull request if there is one.
MessagesFollowRepos ==
  [][got' # got => \A r \in Repos : r \in out \cup failed]_vars

\* With repositories whose URL is known, a mission whose failures are fewer
\* than its resumes gets done, also across restarts.
FailuresAreRiddenOut == <>(status = "done")
=============================================================================
