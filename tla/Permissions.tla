----------------------------- MODULE Permissions -----------------------------
(* Permission prompts: the tool calls of a turn that must be allowed by the   *)
(* operator (loop/agent.go), the gate that makes calls with one subject ask   *)
(* one after another (askgate.go), the broker and its table of prompts        *)
(* (permbroker.go, permstore.go), the operator's answers, the expiry ticker,  *)
(* and the prompt a mission shows in its row (missions/store.go, sweep.go).   *)
(* One session is modelled, and the turns it runs one after another. A turn   *)
(* hands one call to each asker; the askers run in parallel.                  *)
EXTENDS Naturals, FiniteSets

CONSTANTS
  Sessions,     \* the kinds of session considered
  Askers,       \* the parallel tool calls of one turn
  Calls,        \* calls a model may make: tool and arguments
  Subjects,     \* what a call acts on: the gate's and the grants' key
  Subject,      \* the subject of each call
  Destructive,  \* subjects no grant covers
  MaxPrompts,   \* bound: prompts ever opened
  MaxTurns,     \* bound: turns started
  MaxFaults,    \* bound: failed writes, restarts and cancelled turns
  None

Kinds == {"chat", "attended", "unattended"}

ASSUME SessionsAssumption == Sessions \subseteq Kinds
ASSUME SubjectAssumption == Subject \in [Calls -> Subjects] /\ Destructive \subseteq Subjects
ASSUME AskersAssumption == IsFiniteSet(Askers)
ASSUME BoundsAssumption ==
  MaxPrompts \in Nat /\ MaxTurns \in Nat /\ MaxFaults \in Nat /\ None \notin Askers \cup Calls

Ids == 1..MaxPrompts
Decisions == {"once", "session", "deny", "timeout"}
Granting == {"once", "session"}

VARIABLES
  kind,      \* of the session: a chat, or a mission with or without an operator
  row,       \* pending_permissions, by prompt
  opened,    \* number of prompts opened
  grants,    \* subjects with a standing grant for the session
  slot,      \* the mission row's pending_permission: a prompt or 0
  waiter,    \* the broker's map of live waiters
  gate,      \* which asker holds the gate of each subject
  resolver,  \* the answer being resolved under resolveMu
  ask,       \* each asker's progress
  turn,      \* the session's turn: none, running or cancelled
  parked,    \* askers the mission's runner counts as parked
  expiry,    \* open prompts without a waiter when the expiry ticker looked
  sweep,     \* the prompt the mission's time-out sweep read, while it runs
  clearing,  \* answered prompts the mission row is still to forget
  turns, faults,
  given,     \* history: how many once or session answers Resolve accepted for each prompt
  unsaved,   \* history: prompts for which Resolve could not save an answer in the row
  ran        \* history: how often a call ran on an answer to each prompt

store == <<row, opened, grants, slot>>
broker == <<waiter, gate, resolver>>
tickers == <<expiry, sweep, clearing>>
history == <<given, unsaved, ran>>
vars == <<kind, store, broker, ask, turn, parked, tickers, turns, faults, history>>

NoRow == [status |-> "none", call |-> None, decision |-> "", carry |-> FALSE]
NoAsk == [pc |-> "idle", call |-> None, prompt |-> 0, answer |-> "", by |-> "none"]
NoResolve == [id |-> 0, decision |-> "", live |-> None]

Init ==
  /\ kind \in Sessions
  /\ row = [i \in Ids |-> NoRow] /\ opened = 0 /\ grants = {} /\ slot = 0
  /\ waiter = [i \in Ids |-> None] /\ gate = [s \in Subjects |-> None]
  /\ resolver = NoResolve
  /\ ask = [a \in Askers |-> NoAsk] /\ turn = "none" /\ parked = {}
  /\ expiry = {} /\ sweep = 0 /\ clearing = {}
  /\ turns = 0 /\ faults = 0
  /\ given = [i \in Ids |-> 0] /\ unsaved = {} /\ ran = [i \in Ids |-> 0]

Mission == kind = "attended"
SubjectOf(a) == Subject[ask[a].call]
Goto(a, pc) == ask' = [ask EXCEPT ![a].pc = pc]
ResolvedSwapped(i, d, carry) ==
  [row[i] EXCEPT !.status = d, !.decision = "resolved", !.carry = carry]

Resolved(i, d, carry) ==
  [row[i] EXCEPT !.status = "resolved", !.decision = d, !.carry = carry]

\* A write to the table, that may fail.
Saves(saved) ==
  /\ saved \/ faults < MaxFaults
  /\ faults' = IF saved THEN faults ELSE faults + 1

\* The runner of a mission reads the turn's events: a request parks the call and shows
\* its prompt in the mission's row, and the result of the last parked call clears the
\* row. In a cancelled turn both writes fail: they use the turn's own context.
Parks(a, i) ==
  /\ parked' = IF Mission THEN parked \cup {a} ELSE parked
  /\ slot' = IF Mission /\ turn # "cancelled" THEN i ELSE slot
Unparks(a) ==
  /\ parked' = parked \ {a}
  /\ slot' = IF parked = {a} /\ turn # "cancelled" THEN 0 ELSE slot

-----------------------------------------------------------------------------
(* The askers *)

\* Permissions.Resolve, for a call no guard forbids: a grant covers its subject,
\* unless the subject is destructive.
Covered(a) == SubjectOf(a) \in grants \ Destructive

\* The turn's model call ended in tool calls: executeAll starts them.
BeginTurn ==
  /\ turn = "none" /\ turns < MaxTurns
  /\ \E some \in SUBSET Askers \ {{}} : \E c \in [some -> Calls] :
       /\ opened + Cardinality(some) <= MaxPrompts
       /\ ask' = [a \in Askers |-> IF a \in some THEN [NoAsk EXCEPT !.pc = "start", !.call = c[a]]
                                                  ELSE [NoAsk EXCEPT !.pc = "done"]]
  /\ turn' = "running" /\ turns' = turns + 1 /\ parked' = {}
  /\ UNCHANGED <<kind, store, broker, tickers, faults, history>>

\* The first look at the permission chain.
Start(a) ==
  /\ ask[a].pc = "start"
  /\ \/ Covered(a) /\ ask' = [ask EXCEPT ![a].pc = "run", ![a].by = "grant"]
     \/ ~Covered(a) /\ kind = "unattended" /\ Goto(a, "denied")
     \/ ~Covered(a) /\ kind # "unattended" /\ Goto(a, "gate")
  /\ UNCHANGED <<kind, store, broker, turn, parked, tickers, turns, faults, history>>

\* Past the gate the chain is walked again: a sibling's grant may have landed.
GateFreeAlways(s) == TRUE
GateFree(s) == gate[s] = None
EnterGate(a) ==
  /\ ask[a].pc = "gate" /\ GateFree(SubjectOf(a))
  /\ \/ /\ Covered(a) /\ ask' = [ask EXCEPT ![a].pc = "run", ![a].by = "grant"]
        /\ UNCHANGED gate
     \/ /\ ~Covered(a) /\ Goto(a, "redeem")
        /\ gate' = [gate EXCEPT ![SubjectOf(a)] = a]
  /\ UNCHANGED <<kind, store, waiter, resolver, turn, parked, tickers, turns, faults, history>>

\* The turn ended while the asker queued.
LeaveGate(a) ==
  /\ ask[a].pc = "gate" /\ turn = "cancelled"
  /\ Goto(a, "denied")
  /\ UNCHANGED <<kind, store, broker, turn, parked, tickers, turns, faults, history>>

\* Create first consumes an answer an earlier turn left for the same call.
Redeemable(c) == {i \in Ids : row[i].carry /\ row[i].call = c}
Redeem(a) ==
  /\ ask[a].pc = "redeem"
  /\ IF Redeemable(ask[a].call) = {} THEN Goto(a, "adopt") /\ UNCHANGED <<row, slot, parked>>
     ELSE \E i \in Redeemable(ask[a].call) :
       /\ row' = [row EXCEPT ![i].carry = FALSE]
       /\ Parks(a, i)
       /\ ask' = [ask EXCEPT ![a].pc = "wait", ![a].prompt = i, ![a].answer = row[i].decision]
  /\ UNCHANGED <<kind, opened, grants, broker, turn, tickers, turns, faults, history>>

\* Then it looks for the oldest open prompt of the call that nobody waits on.
Adoptable(c) == {i \in Ids : row[i].status = "pending" /\ row[i].call = c /\ waiter[i] = None}
Adopt(a) ==
  /\ ask[a].pc = "adopt"
  /\ IF Adoptable(ask[a].call) = {} THEN Goto(a, "open")
     ELSE \E i \in Adoptable(ask[a].call) :
       /\ \A j \in Adoptable(ask[a].call) : i <= j
       /\ ask' = [ask EXCEPT ![a].pc = "register", ![a].prompt = i]
  /\ UNCHANGED <<kind, store, broker, turn, parked, tickers, turns, faults, history>>

\* PermBroker.adopt, which waits for a Resolve under way: register, then read the
\* row again.
ResolveFree == resolver = NoResolve
AdoptFreeAlways == TRUE
AdoptFree == ResolveFree
Register(a) ==
  LET i == ask[a].prompt IN
  /\ ask[a].pc = "register" /\ AdoptFree
  /\ \/ /\ waiter[i] = None /\ row[i].carry /\ Parks(a, i)
        /\ row' = [row EXCEPT ![i].carry = FALSE]
        /\ ask' = [ask EXCEPT ![a].pc = "wait", ![a].answer = row[i].decision]
        /\ UNCHANGED waiter
     \/ /\ waiter[i] = None /\ ~row[i].carry /\ row[i].status = "pending" /\ Parks(a, i)
        /\ waiter' = [waiter EXCEPT ![i] = a]
        /\ Goto(a, "wait")
        /\ UNCHANGED row
     \/ /\ waiter[i] # None \/ (~row[i].carry /\ row[i].status # "pending")
        /\ Goto(a, "open")
        /\ UNCHANGED <<row, waiter, slot, parked>>
  /\ UNCHANGED <<kind, opened, grants, gate, resolver, turn, tickers, turns, faults, history>>

\* A new prompt is registered before its row exists.
Open(a) ==
  /\ ask[a].pc = "open"
  /\ opened' = opened + 1
  /\ waiter' = [waiter EXCEPT ![opened'] = a]
  /\ ask' = [ask EXCEPT ![a].pc = "insert", ![a].prompt = opened']
  /\ UNCHANGED <<kind, row, grants, slot, gate, resolver, turn, parked, tickers, turns, faults, history>>

Insert(a) ==
  /\ ask[a].pc = "insert"
  /\ row' = [row EXCEPT ![ask[a].prompt] = [NoRow EXCEPT !.status = "pending", !.call = ask[a].call]]
  /\ Parks(a, ask[a].prompt)
  /\ Goto(a, "wait")
  /\ UNCHANGED <<kind, opened, grants, broker, turn, tickers, turns, faults, history>>

\* A prompt that cannot be recorded is never shown and counts as timed out.
CreateFails(a) ==
  /\ ask[a].pc \in {"redeem", "adopt", "register", "insert"}
  /\ turn = "cancelled" \/ faults < MaxFaults
  /\ ask[a].pc = "register" => AdoptFree
  /\ faults' = IF turn = "cancelled" THEN faults ELSE faults + 1
  /\ waiter' = IF ask[a].pc = "insert" THEN [waiter EXCEPT ![ask[a].prompt] = None] ELSE waiter
  /\ ask' = [ask EXCEPT ![a].pc = "decided", ![a].answer = "timeout"]
  /\ UNCHANGED <<kind, store, gate, resolver, turn, parked, tickers, turns, history>>

\* askUser's wait: an answer, the chat's timer, or the end of the turn. A timer
\* and an answer that are both there are chosen between at random.
Receive(a) ==
  /\ ask[a].pc = "wait" /\ ask[a].answer # ""
  /\ Goto(a, "forget")
  /\ UNCHANGED <<kind, store, broker, turn, parked, tickers, turns, faults, history>>

WaitEndsLate(a) == turn = "cancelled"
WaitEnds(a) == kind = "chat" \/ turn = "cancelled"
GiveUp(a) ==
  /\ ask[a].pc = "wait" /\ WaitEnds(a)
  /\ ask' = [ask EXCEPT ![a].pc = "forget", ![a].answer = "timeout"]
  /\ UNCHANGED <<kind, store, broker, turn, parked, tickers, turns, faults, history>>

\* Forget, which every askUser ends with: drop the waiter, then close the row. If that
\* fails, the prompt stays open.
Forget(a) ==
  /\ ask[a].pc = "forget"
  /\ waiter' = [waiter EXCEPT ![ask[a].prompt] = None]
  /\ Goto(a, "close")
  /\ UNCHANGED <<kind, store, gate, resolver, turn, parked, tickers, turns, faults, history>>

Close(a) ==
  /\ ask[a].pc = "close"
  /\ \E saved \in BOOLEAN :
       /\ Saves(saved)
       /\ row' = IF saved /\ row[ask[a].prompt].status = "pending"
                   THEN [row EXCEPT ![ask[a].prompt] = Resolved(ask[a].prompt, "timeout", FALSE)] ELSE row
  /\ Goto(a, "decided")
  /\ UNCHANGED <<kind, opened, grants, slot, broker, turn, parked, tickers, turns, history>>

\* The decision is applied and the gate handed on before the call runs.
Decide(a) ==
  /\ ask[a].pc = "decided"
  /\ grants' = IF ask[a].answer = "session" THEN grants \cup {SubjectOf(a)} ELSE grants
  /\ gate' = [gate EXCEPT ![SubjectOf(a)] = None]
  /\ IF ask[a].answer \in Granting
       THEN ask' = [ask EXCEPT ![a].pc = "run", ![a].by = "answer"]
       ELSE Goto(a, "denied")
  /\ UNCHANGED <<kind, row, opened, slot, waiter, resolver, turn, parked, tickers, turns, faults, history>>

\* The tool runs; its result, or the denial, goes back to the model.
Finish(a) ==
  /\ ask[a].pc \in {"run", "denied"}
  /\ Unparks(a)
  /\ ask' = [ask EXCEPT ![a] = [NoAsk EXCEPT !.pc = "done"]]
  /\ ran' = IF ask[a].pc = "run" /\ ask[a].by = "answer"
              THEN [ran EXCEPT ![ask[a].prompt] = @ + 1] ELSE ran
  /\ UNCHANGED <<kind, row, opened, grants, broker, turn, tickers, turns, faults, given, unsaved>>

AskerStep(a) ==
  \/ Start(a) \/ EnterGate(a) \/ LeaveGate(a) \/ Redeem(a) \/ Adopt(a) \/ Register(a)
  \/ Open(a) \/ Insert(a) \/ CreateFails(a) \/ Receive(a) \/ GiveUp(a) \/ Forget(a)
  \/ Close(a) \/ Decide(a) \/ Finish(a)

EndTurn ==
  /\ turn # "none" /\ \A a \in Askers : ask[a].pc = "done"
  /\ turn' = "none" /\ parked' = {}
  /\ ask' = [a \in Askers |-> NoAsk]
  /\ UNCHANGED <<kind, store, broker, tickers, turns, faults, history>>

\* The turn's deadline, a stop by the user or the end of the stream.
CancelTurn ==
  /\ turn = "running" /\ faults < MaxFaults
  /\ turn' = "cancelled" /\ faults' = faults + 1
  /\ UNCHANGED <<kind, store, broker, ask, parked, tickers, turns, history>>

\* A restart keeps the tables only.
Restart ==
  /\ faults < MaxFaults /\ faults' = faults + 1
  /\ waiter' = [i \in Ids |-> None] /\ gate' = [s \in Subjects |-> None]
  /\ resolver' = NoResolve
  /\ ask' = [a \in Askers |-> NoAsk] /\ turn' = "none" /\ parked' = {}
  /\ expiry' = {} /\ sweep' = 0 /\ clearing' = {}
  /\ UNCHANGED <<kind, store, turns, history>>

-----------------------------------------------------------------------------
(* Answers, from the operator and from the mission's time-out sweep *)

\* Resolve, first half: take the waiter.
Take(i, d) ==
  /\ ResolveFree
  /\ resolver' = [id |-> i, decision |-> d, live |-> waiter[i]]
  /\ waiter' = [waiter EXCEPT ![i] = None]

\* The operator answers an open prompt, or one whose call still waits. Any other
\* answer is refused and changes nothing.
Answer(i, d) ==
  /\ d # "timeout" /\ row[i].status # "none" /\ (row[i].status = "pending" \/ waiter[i] # None)
  /\ Take(i, d)
  /\ UNCHANGED <<kind, store, gate, ask, turn, parked, tickers, turns, faults, history>>

\* Resolve, second half: the row, then the waiter. An answer nobody waits for is
\* kept for the next ask of the same call. If the row cannot be written, a waiter is
\* woken all the same; without one the answer is refused.
CarriedAlways(a, d) == d \in Granting
Carried(a, d) == a = None /\ d \in Granting
StillPending(i) == row[i].status = "pending"
Accepted(saved) == resolver.live # None \/ (saved /\ StillPending(resolver.id))
Deliver ==
  LET i == resolver.id  d == resolver.decision  a == resolver.live IN
  /\ ~ResolveFree
  /\ \E saved \in BOOLEAN :
       /\ Saves(saved)
       /\ row' = IF saved /\ StillPending(i) THEN [row EXCEPT ![i] = Resolved(i, d, Carried(a, d))]
                                             ELSE row
       /\ given' = IF d \in Granting /\ Accepted(saved) THEN [given EXCEPT ![i] = @ + 1] ELSE given
       /\ unsaved' = IF saved THEN unsaved ELSE unsaved \cup {i}
       /\ clearing' = IF Mission /\ d # "timeout" /\ Accepted(saved)
                        THEN clearing \cup {i} ELSE clearing
  /\ ask' = IF a = None THEN ask ELSE [ask EXCEPT ![a].answer =
              IF ask[a].pc = "wait" /\ ask[a].prompt = i THEN d ELSE @]
  /\ resolver' = NoResolve
  /\ UNCHANGED <<kind, opened, grants, slot, waiter, gate, turn, parked, expiry, sweep, turns, ran>>

\* The endpoint then clears the mission that shows the prompt.
ClearSlot(i) ==
  /\ i \in clearing
  /\ slot' = IF slot = i THEN 0 ELSE slot
  /\ clearing' = clearing \ {i}
  /\ UNCHANGED <<kind, row, opened, grants, broker, ask, turn, parked, expiry, sweep, turns, faults, history>>

\* sweepPermissionTimeouts lists the parked mission, clears it whatever it shows
\* by then, and denies the prompt it listed.
SweepLists ==
  /\ Mission /\ sweep = 0 /\ slot # 0
  /\ sweep' = slot
  /\ UNCHANGED <<kind, store, broker, ask, turn, parked, expiry, clearing, turns, faults, history>>

SweepDenies ==
  /\ sweep # 0 /\ Take(sweep, "timeout")
  /\ slot' = 0 /\ sweep' = 0
  /\ UNCHANGED <<kind, row, opened, grants, gate, ask, turn, parked, expiry, clearing, turns, faults, history>>

-----------------------------------------------------------------------------
(* Time: answers get too old to be carried over, prompts to be waited for *)

\* A carried-over answer outlives its window, and the row is pruned in the end.
Lapse(i) ==
  /\ row[i].carry
  /\ row' = [row EXCEPT ![i].carry = FALSE]
  /\ UNCHANGED <<kind, opened, grants, slot, broker, ask, turn, parked, tickers, turns, faults, history>>

\* ExpireStale: the live ids are read first, and the statement runs later, over the
\* other rows that are too old by then. A row opened in between is not.
Unattended == {i \in Ids : row[i].status = "pending" /\ waiter[i] = None}
ExpireReads ==
  /\ expiry = {} /\ Unattended # {}
  /\ expiry' = Unattended
  /\ UNCHANGED <<kind, store, broker, ask, turn, parked, sweep, clearing, turns, faults, history>>

Expirable(i) == row[i].status = "pending" /\ (Mission => slot # i)
ExpireWrites ==
  /\ expiry # {}
  /\ \E aged \in SUBSET {i \in expiry : Expirable(i)} :
       row' = [i \in Ids |-> IF i \in aged THEN Resolved(i, "timeout", FALSE) ELSE row[i]]
  /\ expiry' = {}
  /\ UNCHANGED <<kind, opened, grants, slot, broker, ask, turn, parked, sweep, clearing, turns, faults, history>>

Next ==
  \/ BeginTurn \/ EndTurn \/ CancelTurn \/ Restart
  \/ \E a \in Askers : AskerStep(a)
  \/ \E i \in Ids, d \in Decisions : Answer(i, d)
  \/ Deliver \/ \E i \in Ids : ClearSlot(i) \/ Lapse(i)
  \/ SweepLists \/ SweepDenies \/ ExpireReads \/ ExpireWrites

Spec == Init /\ [][Next]_vars

-----------------------------------------------------------------------------
(* Properties *)

TypeOK ==
  /\ kind \in Kinds /\ opened \in 0..MaxPrompts /\ grants \subseteq Subjects /\ slot \in 0..MaxPrompts
  /\ row \in [Ids -> [status : {"none", "pending", "resolved"}, call : Calls \cup {None},
                     decision : Decisions \cup {""}, carry : BOOLEAN]]
  /\ waiter \in [Ids -> Askers \cup {None}] /\ gate \in [Subjects -> Askers \cup {None}]
  /\ resolver \in [id : 0..MaxPrompts, decision : Decisions \cup {""}, live : Askers \cup {None}]
  /\ ask \in [Askers ->
       [pc : {"idle", "start", "gate", "redeem", "adopt", "register", "open", "insert", "wait",
              "forget", "close", "decided", "run", "denied", "done"},
        call : Calls \cup {None}, prompt : 0..MaxPrompts, answer : Decisions \cup {""},
        by : {"none", "grant", "answer"}]]
  /\ turn \in {"none", "running", "cancelled"} /\ parked \subseteq Askers
  /\ expiry \subseteq Ids /\ sweep \in 0..MaxPrompts /\ clearing \subseteq Ids
  /\ turns \in 0..MaxTurns /\ faults \in 0..MaxFaults
  /\ given \in [Ids -> Nat] /\ unsaved \subseteq Ids /\ ran \in [Ids -> Nat]

\* Every call that runs on an answer runs on one of its own: a live answer is its waiter's, and a
\* carried-over one of a turn that is gone is consumed by one ask (D-118). A prompt is answered
\* once, unless the row could not be written: then it looks open to the operator still, and a
\* second answer counts for a second call.
AnswersCountOnce ==
  \A i \in Ids : ran[i] <= given[i] /\ (i \notin unsaved => given[i] <= 1)

\* An accepted answer reaches the call that waits for it: no asker goes on waiting for a prompt
\* the operator has answered (resolveMu against adopt, permbroker.go).
AnswersReachWaiters ==
  \A a \in Askers :
    LET i == ask[a].prompt IN
    ask[a].pc = "wait" /\ ask[a].answer = "" /\ resolver.live # a =>
      waiter[i] = a /\ row[i].decision \notin {"once", "session", "deny"}

\* Parallel calls on one subject are asked about one at a time, so that a session answer to the
\* first covers the others (askGate).
OnePromptPerSubject ==
  \A a, b \in Askers :
    ask[a].pc = "wait" /\ ask[b].pc = "wait" /\ SubjectOf(a) = SubjectOf(b) => a = b

\* A call that can go on by itself: it does not queue for a gate that a sibling holds,
\* for an answer under way, or for an answer that is still to come.
Ready(a) ==
  CASE ask[a].pc = "gate" -> GateFree(SubjectOf(a)) \/ turn = "cancelled"
    [] ask[a].pc = "register" -> AdoptFree
    [] ask[a].pc = "wait" -> ask[a].answer # "" \/ WaitEnds(a)
    [] OTHER -> ask[a].pc \notin {"idle", "done"}

\* A mission's call waits in the broker, where an answer to its prompt finds it.
Answerable(a) ==
  LET i == ask[a].prompt IN
  /\ kind # "chat" /\ ask[a].pc = "wait"
  /\ row[i].status # "none" /\ waiter[i] = a

\* Gate, broker and waiters never block one another. A turn ends, one of its calls can
\* go on, or an answer is under way; only in a mission may all of them depend on the
\* operator, and then a prompt is there to be answered. A chat has nobody to wait for:
\* the timer ends every wait, and the gate is handed on.
TurnNeverStuck ==
  turn # "none" =>
    \/ \A a \in Askers : ask[a].pc = "done"
    \/ ~ResolveFree
    \/ \E a \in Askers : Ready(a) \/ Answerable(a)

=============================================================================
