----------------------------- MODULE ChatSession -----------------------------
(* One chat session: the requests that race for its turn slot, the life of a
   turn from its first append to the release of the slot, the append-only event
   log, its projection into the model's context, and the compaction that puts a
   summary in the place of the oldest messages (internal/brain/chat and
   internal/brain/session).

   An event is its kind, the turn that wrote it and what the projection reads of
   it; seq is its position. A text is its length. Events that never enter the
   context (tool executions, permission prompts) are left out. *)
EXTENDS Integers, Sequences, FiniteSets, FiniteSetsExt

CONSTANTS
  Requests,       \* request goroutines: a POST and the relay it leaves behind
  NoRequest,
  MaxTurns,       \* bound: turns begun
  MaxText,        \* bound: chunks of an answer
  MaxFaults       \* bound: appends of a streaming turn that fail, and kills of the brain

ASSUME ChatConstants ==
  /\ IsFiniteSet(Requests) /\ NoRequest \notin Requests
  /\ {MaxTurns, MaxText, MaxFaults} \subseteq Nat

VARIABLES
  log,            \* session_events of the session
  slot,           \* Service.turns[sessionID]: the request whose turn is in flight
  turn,           \* per request: how far it is, and what its relay has accumulated
  begun,          \* turns begun so far
  ended,          \* history: the streamed turns that released the slot, with their text
  lost,           \* history: the turns whose last append failed
  faults          \* failed appends and kills so far

vars == <<log, slot, turn, begun, ended, lost, faults>>

-----------------------------------------------------------------------------
(* Events and their projection *)

Event(kind, t, text) == [kind |-> kind, turn |-> t, text |-> text, through |-> 0, covers |-> {}]

Compaction(t, through, covers) ==
  [Event("compaction_applied", t, 0) EXCEPT !.through = through, !.covers = covers]

At(events, kind) == {i \in DOMAIN events : events[i].kind = kind}

\* What the newest compaction replaced, and whose messages its summary renders.
LastCompaction(events) ==
  IF At(events, "compaction_applied") = {} THEN Compaction(0, 0, {})
  ELSE events[Max(At(events, "compaction_applied"))]

\* Fault: a compaction erases the partial also when it left it outside.
SupersedesOutside(ev, p) == ev.kind \in {"assistant_turn", "compaction_applied"}

Supersedes(ev, p) ==
  \/ ev.kind = "assistant_turn"
  \/ ev.kind = "compaction_applied" /\ ev.through >= p

\* The newest pending_state, unless an answer landed after it or a compaction consumed it.
LivePending(events) ==
  LET newest == Max(At(events, "pending_state"))
  IN  IF /\ At(events, "pending_state") # {}
         /\ \A i \in DOMAIN events : i > newest => ~Supersedes(events[i], newest)
      THEN {newest} ELSE {}

\* LLMContext: the positions the context shows after the summary, if there is one.
Shown(events) ==
  {i \in DOMAIN events :
     /\ i > LastCompaction(events).through
     /\ \/ events[i].kind \in {"user_message", "assistant_turn", "turn_memory", "turn_failed"}
        \/ i \in LivePending(events)}

\* The messages the context is made of; the summary is message 0.
Messages(events) ==
  Shown(events) \cup IF LastCompaction(events).through = 0 THEN {} ELSE {0}

\* Questions, failure notes, residue and the summary ride as user messages.
FromUser(events, i) == i = 0 \/ events[i].kind \notin {"assistant_turn", "pending_state"}

\* The events planCompaction counts as messages: all but the failure notes.
Counted(events) == Shown(events) \ At(events, "turn_failed")

UpTo(S, i) == {j \in S : j <= i}

\* The messages to summarize: half of them, on to the next answer, never the last one.
Half(events) ==
  LET msgs == Messages(events)
      ends == {i \in msgs :
                 /\ Cardinality(UpTo(msgs, i)) >= Cardinality(msgs) \div 2
                 /\ ~FromUser(events, i)}
      last == Max(msgs \ {Max(msgs)})
  IN  UpTo(msgs, Min(ends \cup {last}))

\* Fault: a compaction that claims the whole log, its own event included.
PlansWholeLog(events, t) ==
  {Compaction(t, Len(events) + 1, Half(events) \ {0}) : n \in 4..Cardinality(Messages(events))}

\* planCompaction: the compaction to store, if the messages can be split. Its
\* boundary is where as many events have been counted as there are messages.
Plans(events, t) ==
  IF Cardinality(Messages(events)) < 4 THEN {}
  ELSE LET half == Half(events) \ {0}
       IN  {Compaction(t, i, half \cup LastCompaction(events).covers) :
              i \in {i \in Counted(events) :
                       half # {} /\ Cardinality(UpTo(Counted(events), i)) = Cardinality(half)}}

\* lastUserMessage: there is a question and no answer after it.
Retryable(events) ==
  \E q \in At(events, "user_message") :
    \A a \in At(events, "assistant_turn") : a < q

-----------------------------------------------------------------------------
(* The turn slot *)

Idle == [at |-> "idle", id |-> 0, here |-> FALSE, text |-> 0, flushed |-> 0,
         other |-> FALSE, end |-> "none"]

Init ==
  /\ log = <<>> /\ slot = NoRequest /\ turn = [r \in Requests |-> Idle]
  /\ begun = 0 /\ ended = {} /\ lost = {} /\ faults = 0

history == <<ended, lost, faults>>

Go(r, at) == turn' = [turn EXCEPT ![r].at = at]

\* The relay has written: only the text still matters.
Written(r, at) ==
  turn' = [turn EXCEPT ![r] = [Idle EXCEPT !.at = at, !.id = turn[r].id, !.text = turn[r].text]]

\* Fault: the newcomer evicts the turn in flight.
TurnBeginEvicting(r, at) ==
  /\ begun < MaxTurns
  /\ slot' = r /\ begun' = begun + 1
  /\ turn' = [turn EXCEPT ![r] = [Idle EXCEPT !.at = at, !.id = begun + 1, !.here = TRUE]]

\* turnBegin: the first request takes the slot; the other is told ErrTurnInFlight.
TurnBegin(r, at) ==
  /\ slot = NoRequest /\ begun < MaxTurns
  /\ slot' = r /\ begun' = begun + 1
  /\ turn' = [turn EXCEPT ![r] = [Idle EXCEPT !.at = at, !.id = begun + 1, !.here = TRUE]]

\* Fault: an error return that leaves the slot taken.
TurnDoneForgotten(r) == turn' = [turn EXCEPT ![r] = Idle] /\ UNCHANGED slot

\* turnDone: the slot is free, whoever held it.
TurnDone(r) == slot' = NoRequest /\ turn' = [turn EXCEPT ![r] = Idle]

Append1(r, kind, text) == log' = Append(log, Event(kind, turn[r].id, text))

Fault == faults < MaxFaults /\ faults' = faults + 1

Chat(r) ==
  /\ turn[r].at = "idle" /\ TurnBegin(r, "append")
  /\ UNCHANGED <<log, history>>

\* The question is durable before the provider is called, or the turn is over.
AppendQuestion(r) ==
  /\ turn[r].at = "append"
  /\ \/ Append1(r, "user_message", 0) /\ Go(r, "compact") /\ UNCHANGED slot
     \/ TurnDone(r) /\ UNCHANGED log
  /\ UNCHANGED <<begun, history>>

\* Retry reads the log before it has the slot.
RetryReads(r) ==
  /\ turn[r].at = "idle" /\ Retryable(log) /\ Go(r, "retry")
  /\ UNCHANGED <<log, slot, begun, history>>

RetryBegins(r) ==
  /\ turn[r].at = "retry"
  /\ \/ TurnBegin(r, "compact")
     \/ slot # NoRequest /\ Go(r, "idle") /\ UNCHANGED <<slot, begun>>
  /\ UNCHANGED <<log, history>>

-----------------------------------------------------------------------------
(* The turn *)

\* MaybeCompact, before the send and again after the answer: the context may be
\* within the budget, and the summary may fail, which costs nothing but the
\* compaction. The slot keeps every other writer of messages out meanwhile.
Compact(r) ==
  /\ turn[r].at \in {"compact", "recompact"}
  /\ \/ UNCHANGED log
     \/ \E c \in Plans(log, turn[r].id) : log' = Append(log, c)
  /\ Go(r, IF turn[r].at = "compact" THEN "send" ELSE "finish")
  /\ UNCHANGED <<slot, begun, history>>

\* The rest of runTurn: the context is read and sent, or the turn ends unrecorded.
Send(r) ==
  /\ turn[r].at = "send"
  /\ \/ Go(r, "stream") /\ UNCHANGED slot
     \/ TurnDone(r)
  /\ UNCHANGED <<log, begun, history>>

Streaming(r) == turn[r].at = "stream"

Chunk(r) ==
  /\ Streaming(r) /\ turn[r].text < MaxText
  /\ turn' = [turn EXCEPT ![r].text = @ + 1]
  /\ UNCHANGED <<log, slot, begun, history>>

\* A tool result, or reasoning: that is accumulated only as long as the client is
\* there, the drain loop of a turn whose client has left forgets it.
Other(r, tool) ==
  /\ Streaming(r) /\ (tool \/ turn[r].here) /\ ~turn[r].other
  /\ turn' = [turn EXCEPT ![r].other = TRUE]
  /\ UNCHANGED <<log, slot, begun, history>>

\* flushPending: a checkpoint of the text, unless it is there already.
Flush(r, here) ==
  \/ /\ turn[r].text \notin {0, turn[r].flushed}
     /\ Append1(r, "pending_state", turn[r].text)
     /\ turn' = [turn EXCEPT ![r].flushed = turn[r].text, ![r].here = here]
     /\ UNCHANGED faults
  \/ /\ turn[r].text \notin {0, turn[r].flushed} /\ Fault
     /\ turn' = [turn EXCEPT ![r].here = here] /\ UNCHANGED log
  \/ /\ turn[r].text \in {0, turn[r].flushed}
     /\ turn' = [turn EXCEPT ![r].here = here] /\ UNCHANGED <<log, faults>>

\* The ticker checkpoints, as long as the client is there.
Tick(r) ==
  /\ Streaming(r) /\ turn[r].here /\ turn[r].text \notin {0, turn[r].flushed}
  /\ Flush(r, TRUE)
  /\ UNCHANGED <<slot, begun, ended, lost>>

\* The client goes away: the turn belongs to the session and is drained to its end.
ClientLeaves(r) ==
  /\ Streaming(r) /\ turn[r].here /\ Flush(r, FALSE)
  /\ UNCHANGED <<slot, begun, ended, lost>>

\* The stream ends: done, with an error or truncated, or cut off without a word,
\* as after StopTurn and at the turn's deadline.
StreamEnds(r, how) ==
  /\ Streaming(r)
  /\ turn' = [turn EXCEPT ![r].at = "persist", ![r].here = FALSE, ![r].end = how]
  /\ UNCHANGED <<log, slot, begun, history>>

\* Fault: a stream cut off without a word leaves nothing.
AbnormalUnrecorded(r) ==
  IF turn[r].text \notin {0, turn[r].flushed} THEN {"pending_state"}
  ELSE IF turn[r].end = "error" THEN {"turn_failed"} ELSE {}

\* What persistTurn writes for a turn that ended abnormally: the text, unless the
\* last checkpoint has it; without text the failure, if need be a made-up one.
Abnormal(r) ==
  IF turn[r].text \notin {0, turn[r].flushed} THEN {"pending_state"}
  ELSE IF turn[r].end = "error" \/ turn[r].text = 0 THEN {"turn_failed"} ELSE {}

\* persistTurn: an answer with anything in it, or what is left of the turn.
Record(r) ==
  IF turn[r].end # "done" THEN Abnormal(r)
  ELSE IF turn[r].text > 0 \/ turn[r].other THEN {"assistant_turn"}
  ELSE {"turn_failed"}

Persist(r) ==
  /\ turn[r].at = "persist"
  /\ \/ Record(r) = {} /\ Written(r, "finish") /\ UNCHANGED log
     \/ \E kind \in Record(r) :
          /\ Append1(r, kind, turn[r].text)
          /\ Written(r, IF kind = "assistant_turn" THEN "memory" ELSE "finish")
  /\ UNCHANGED <<slot, begun, history>>

\* The append fails: a line in the brain's own log is all that is left of it.
PersistFails(r) ==
  /\ turn[r].at = "persist" /\ Record(r) # {} /\ Fault
  /\ lost' = lost \cup {turn[r].id} /\ Written(r, "finish")
  /\ UNCHANGED <<log, slot, begun, ended>>

\* The residue of an answer with text lands as an event of its own, if there is any.
Distill(r) ==
  /\ turn[r].at = "memory"
  /\ \/ UNCHANGED log
     \/ turn[r].text > 0 /\ Append1(r, "turn_memory", 0)
  /\ Go(r, "recompact")
  /\ UNCHANGED <<slot, begun, history>>

Finish(r) ==
  /\ turn[r].at = "finish" /\ TurnDone(r)
  /\ ended' = ended \cup {[id |-> turn[r].id, text |-> turn[r].text]}
  /\ UNCHANGED <<log, begun, lost, faults>>

\* The brain is killed: slots, relays and texts are gone, the log stays.
Kill ==
  /\ Fault
  /\ slot' = NoRequest /\ turn' = [r \in Requests |-> Idle]
  /\ UNCHANGED <<log, begun, ended, lost>>

-----------------------------------------------------------------------------

\* What a turn does without anybody's help. The turn's deadline ends its stream.
Work(r) ==
  \/ AppendQuestion(r) \/ RetryBegins(r) \/ Compact(r) \/ Send(r)
  \/ \E how \in {"done", "error", "cut"} : StreamEnds(r, how)
  \/ Persist(r) \/ PersistFails(r) \/ Distill(r) \/ Finish(r)

Next ==
  \/ Kill
  \/ \E r \in Requests :
       \/ Chat(r) \/ RetryReads(r) \/ Work(r)
       \/ Chunk(r) \/ Tick(r) \/ ClientLeaves(r)
       \/ \E tool \in BOOLEAN : Other(r, tool)

Spec == Init /\ [][Next]_vars

FairSpec == Spec /\ \A r \in Requests : WF_vars(Work(r))

-----------------------------------------------------------------------------
(* Properties *)

\* The type invariant of the log, the slot and the turns.
TypeOK ==
  /\ \A i \in DOMAIN log :
       /\ log[i].kind \in {"user_message", "assistant_turn", "pending_state", "turn_failed",
                           "turn_memory", "compaction_applied"}
       /\ log[i].turn \in 1..begun /\ log[i].text \in 0..MaxText
       /\ log[i].through \in 0..(i - 1) /\ log[i].covers \subseteq 1..(i - 1)
  /\ slot \in Requests \cup {NoRequest}
  /\ turn \in [Requests ->
       [at : {"idle", "retry", "append", "compact", "send", "stream", "persist", "memory",
              "recompact", "finish"},
        id : 0..MaxTurns, here : BOOLEAN, text : 0..MaxText, flushed : 0..MaxText,
        other : BOOLEAN, end : {"none", "done", "error", "cut"}]]
  /\ begun \in 0..MaxTurns /\ lost \subseteq 1..begun
  /\ ended \subseteq [id : 1..begun, text : 0..MaxText]
  /\ faults \in 0..MaxFaults

Wrote(t, kinds) == {i \in DOMAIN log : log[i].turn = t /\ log[i].kind \in kinds}

\* The log tells one turn after the other (D-042, turnBegin): a turn writes nothing once a later
\* one has begun, and after its answer only residue and a compaction.
TurnByTurn ==
  \A i, j \in DOMAIN log : i < j =>
    /\ log[i].turn <= log[j].turn
    /\ log[i].kind = "assistant_turn" /\ log[j].turn = log[i].turn =>
         log[j].kind \in {"turn_memory", "compaction_applied"}

\* "A turn that ran must never leave zero events" (persistTurn): whoever sees the slot free finds
\* the answer, the failure or the whole partial of the turn that streamed, whatever the client,
\* the stream and the checkpoints did, unless the append itself failed.
EndedIsRecorded ==
  \A e \in ended : e.id \notin lost =>
    \/ Wrote(e.id, {"assistant_turn"}) # {}
    \/ e.text = 0 /\ Wrote(e.id, {"turn_failed"}) # {}
    \/ \E i \in Wrote(e.id, {"pending_state"}) : log[i].text = e.text

LogTellsEachTurn == TurnByTurn /\ EndedIsRecorded

\* What was said reaches the model (LLMContext, planCompaction): a message is dropped from the
\* context only for a summary that renders it, is not shown beside it, and the partial of a turn
\* that nothing has answered is kept through kills, retries and compactions. It holds as long as
\* the summarized half has no failure note: planCompaction does not count those.
ContextLosesNothing ==
  LET last == LastCompaction(log)
      open == {p \in At(log, "pending_state") :
                 \A i \in DOMAIN log : i > p =>
                   log[i].kind \notin {"assistant_turn", "pending_state"}}
  IN  At(log, "turn_failed") \cap last.covers = {} =>
        /\ \A i \in 1..last.through :
             log[i].kind \in {"user_message", "assistant_turn", "turn_memory"} => i \in last.covers
        /\ last.covers \cap Shown(log) = {}
        /\ open \subseteq Shown(log) \cup last.covers

\* Every turn gives the session back, whichever way it ends: the next message is not refused
\* for ever (turnDone on every path of Chat, runTurn and relay).
SlotFrees == slot # NoRequest ~> slot = NoRequest
=============================================================================
