-------------------------- MODULE ChatSessionProofs --------------------------
(* Proofs about ChatSession, for any number of requests, turns, chunks, failed
   appends and kills: the log tells one turn after the other and holds what is
   left of every turn that ended, and its projection loses no message. *)
EXTENDS ChatSession, SequenceTheorems, FiniteSetTheorems, WellFoundedInduction, TLAPS

Kinds ==
  {"user_message", "assistant_turn", "pending_state", "turn_failed", "turn_memory",
   "compaction_applied"}

EventType ==
  [kind : Kinds, turn : Nat, text : 0..MaxText, through : Nat, covers : SUBSET Nat]

TypeInv == log \in Seq(EventType) /\ TypeOK

\* A request has the slot exactly while its turn is under way, and that turn is the latest.
Active(r) == turn[r].at \notin {"idle", "retry"}

SlotInv ==
  \A r \in Requests :
    /\ Active(r) <=> slot = r
    /\ Active(r) => begun > 0 /\ turn[r].id = begun

\* A turn has no answer in the log before persistTurn is through.
After == {"memory", "recompact", "finish"}

AnswerInv ==
  \A r \in Requests :
    Active(r) /\ turn[r].at \notin After => Wrote(begun, {"assistant_turn"}) = {}

\* What is on record of a turn whose text was x.
Recorded(t, x) ==
  \/ Wrote(t, {"assistant_turn"}) # {}
  \/ x = 0 /\ Wrote(t, {"turn_failed"}) # {}
  \/ \E i \in Wrote(t, {"pending_state"}) : log[i].text = x

\* The text a relay takes for flushed is in a checkpoint, and a turn that has persisted is
\* on record or has failed to be.
RecordInv ==
  \A r \in Requests :
    /\ Active(r) /\ turn[r].at \notin After /\ turn[r].flushed # 0 =>
         \E i \in Wrote(begun, {"pending_state"}) : log[i].text = turn[r].flushed
    /\ turn[r].at \in After => begun \in lost \/ Recorded(begun, turn[r].text)

\* The part of the log a summary stands for has no failure note among the rendered messages.
FailureFree(l) == At(l, "turn_failed") \cap LastCompaction(l).covers = {}

\* The partials that nothing has answered or continued.
Open(l) ==
  {p \in At(l, "pending_state") :
     \A i \in DOMAIN l : i > p => l[i].kind \notin {"assistant_turn", "pending_state"}}

\* The summary renders what lies before its boundary and nothing behind it.
Keeps(l) ==
  LET last == LastCompaction(l) IN
  FailureFree(l) =>
    /\ last.covers \subseteq 1..last.through
    /\ \A i \in 1..last.through :
         l[i].kind \in {"user_message", "assistant_turn", "turn_memory"} => i \in last.covers
    /\ Open(l) \subseteq Shown(l) \cup last.covers

IInv == TypeInv /\ SlotInv /\ AnswerInv /\ RecordInv /\ LogTellsEachTurn /\ Keeps(log)
-----------------------------------------------------------------------------
(* The operators on logs *)

\* What Append does.
LEMMA Appending ==
  ASSUME NEW S, NEW s \in Seq(S), NEW e \in S
  PROVE  /\ Append(s, e) \in Seq(S)
         /\ DOMAIN s = 1..Len(s) /\ Len(s) \in Nat
         /\ DOMAIN Append(s, e) = 1..(Len(s) + 1)
         /\ \A i \in 1..Len(s) : Append(s, e)[i] = s[i]
         /\ Append(s, e)[Len(s) + 1] = e
OBVIOUS

\* A bounded set of positions has a greatest one, and a least one.
LEMMA MaxIn ==
  ASSUME NEW n \in Nat, NEW S \in SUBSET (0..n), S # {}
  PROVE  Max(S) \in S /\ \A y \in S : Max(S) >= y
<1> DEFINE T == {n - x : x \in S}
<1>1. T \subseteq Nat /\ T # {}
  <2>1. \A x \in S : n - x \in Nat
    OBVIOUS
  <2> QED BY <2>1
<1>2. PICK t \in T : \A y \in T : ~(<<y, t>> \in OpToRel(<, Nat))
  BY <1>1, NatLessThanWellFounded, WFMin
<1>3. PICK x \in S : t = n - x
  OBVIOUS
<1>4. ASSUME NEW y \in S PROVE x >= y
  <2>1. n - y \in T /\ n - y \in Nat /\ t \in Nat
    BY <1>1
  <2>2. ~(n - y < t)
    BY <1>2, <2>1 DEF OpToRel
  <2> QED BY <1>3, <2>2
<1> QED BY <1>4 DEF Max

LEMMA MinIn ==
  ASSUME NEW S \in SUBSET Nat, S # {}
  PROVE  Min(S) \in S
<1>1. PICK x \in S : \A y \in S : ~(<<y, x>> \in OpToRel(<, Nat))
  BY NatLessThanWellFounded, WFMin
<1>2. ASSUME NEW y \in S PROVE x =< y
  <2>1. ~(y < x)
    BY <1>1 DEF OpToRel
  <2> QED BY <2>1
<1> QED BY <1>2 DEF Min

\* The newest compaction lies in the log and renders messages of it.
LEMMA LastCompactionType ==
  ASSUME TypeInv
  PROVE  LastCompaction(log).covers \subseteq 1..Len(log)
<1>1. DOMAIN log = 1..Len(log) /\ Len(log) \in Nat
  BY DEF TypeInv
<1>2. CASE At(log, "compaction_applied") = {}
  BY <1>2 DEF LastCompaction, Compaction, Event
<1>3. CASE At(log, "compaction_applied") # {}
  <2> DEFINE i == Max(At(log, "compaction_applied"))
  <2>1. i \in 1..Len(log)
    <3>1. At(log, "compaction_applied") \in SUBSET (1..Len(log))
      BY <1>1 DEF At
    <3>2. At(log, "compaction_applied") \in SUBSET (0..Len(log))
      BY <1>1, <3>1
    <3> QED BY <1>1, <1>3, <3>1, <3>2, MaxIn
  <2>2. log[i].covers \subseteq 1..(i - 1)
    BY <1>1, <2>1 DEF TypeInv, TypeOK
  <2>3. 1..(i - 1) \subseteq 1..Len(log)
    BY <1>1, <2>1
  <2> QED BY <1>3, <2>2, <2>3 DEF LastCompaction
<1> QED BY <1>2, <1>3

\* An event that turn t may append next.
Fits(ev, t) ==
  /\ ev \in EventType /\ ev.turn = t
  /\ ev.through \in 0..Len(log) /\ ev.covers \subseteq 1..Len(log)

LEMMA EventFits ==
  ASSUME TypeInv, NEW kind \in Kinds, NEW t \in Nat, NEW x \in 0..MaxText
  PROVE  Fits(Event(kind, t, x), t) /\ Event(kind, t, x).kind = kind /\ Event(kind, t, x).text = x
BY ChatConstants DEF Fits, Event, EventType, TypeInv

LEMMA PlansFit ==
  ASSUME TypeInv, NEW t \in Nat, NEW c \in Plans(log, t)
  PROVE  Fits(c, t) /\ c.kind = "compaction_applied"
<1>1. DOMAIN log = 1..Len(log) /\ Len(log) \in Nat
  BY DEF TypeInv
<1> DEFINE half == Half(log) \ {0}
<1>2. half \subseteq 1..Len(log)
  BY <1>1 DEF Half, UpTo, Messages, Shown
<1>3. PICK i \in Counted(log) : c = Compaction(t, i, half \cup LastCompaction(log).covers)
  BY DEF Plans
<1>4. i \in 1..Len(log)
  BY <1>1 DEF Counted, Shown
<1>5. half \cup LastCompaction(log).covers \subseteq 1..Len(log)
  BY <1>2, LastCompactionType
<1>6. c = [kind |-> "compaction_applied", turn |-> t, text |-> 0, through |-> i,
           covers |-> half \cup LastCompaction(log).covers]
  BY <1>3 DEF Compaction, Event
<1>7. half \cup LastCompaction(log).covers \in SUBSET Nat
  BY <1>1, <1>5
<1> HIDE DEF half
<1> QED BY <1>1, <1>4, <1>5, <1>6, <1>7, ChatConstants DEF Fits, EventType, Kinds, TypeInv

-----------------------------------------------------------------------------
(* What a step does to the log *)

\* The turn under way appends one event; an answered turn only residue and a compaction.
Writes ==
  /\ begun > 0 /\ begun' = begun
  /\ \E ev : /\ Fits(ev, begun) /\ log' = Append(log, ev)
             /\ \/ ev.kind \in {"turn_memory", "compaction_applied"}
                \/ Wrote(begun, {"assistant_turn"}) = {}
             /\ ev.kind = "compaction_applied" => ev \in Plans(log, begun)

LEMMA BegunType ==
  ASSUME TypeOK
  PROVE  begun \in Nat
<1>1. begun \in 0..MaxTurns
  BY DEF TypeOK
<1> QED BY <1>1, ChatConstants

LEMMA ActiveId ==
  ASSUME IInv, NEW r \in Requests, Active(r)
  PROVE  turn[r].id = begun /\ begun > 0 /\ begun \in Nat
<1>1. begun \in Nat
  BY BegunType DEF IInv, TypeInv
<1> QED BY <1>1 DEF IInv, SlotInv

\* One event of the turn that has not answered yet.
LEMMA Append1Writes ==
  ASSUME IInv, NEW r \in Requests, NEW kind \in Kinds \ {"compaction_applied"},
         NEW x \in 0..MaxText, Active(r), turn[r].at \notin After \/ kind = "turn_memory",
         Append1(r, kind, x), UNCHANGED begun
  PROVE  Writes
<1>1. begun > 0 /\ turn[r].id = begun /\ begun \in Nat
  BY ActiveId
<1>2. Fits(Event(kind, begun, x), begun) /\ Event(kind, begun, x).kind = kind
  BY <1>1, EventFits DEF IInv
<1>3. log' = Append(log, Event(kind, begun, x))
  BY <1>1 DEF Append1
<1>4. kind = "turn_memory" \/ Wrote(begun, {"assistant_turn"}) = {}
  BY DEF IInv, AnswerInv
<1> QED BY <1>1, <1>2, <1>3, <1>4 DEF Writes

LEMMA TextType ==
  ASSUME IInv, NEW r \in Requests
  PROVE  turn[r].text \in 0..MaxText /\ turn[r].id \in 0..MaxTurns
BY DEF IInv, TypeInv, TypeOK

\* Every step leaves the log alone or lets the turn under way append to it.
LEMMA LogStep ==
  ASSUME IInv, [Next]_vars
  PROVE  log' = log \/ Writes
<1>1. CASE Kill
  BY <1>1 DEF Kill
<1>2. ASSUME NEW r \in Requests, Chat(r) \/ RetryReads(r) \/ RetryBegins(r) \/ Send(r)
              \/ (\E how \in {"done", "error", "cut"} : StreamEnds(r, how))
              \/ PersistFails(r) \/ Finish(r) \/ Chunk(r) \/ (\E tool \in BOOLEAN : Other(r, tool))
      PROVE  log' = log
  BY <1>2 DEF Chat, RetryReads, RetryBegins, Send, StreamEnds, PersistFails, Finish, Chunk, Other
<1>3. ASSUME NEW r \in Requests, AppendQuestion(r)
      PROVE  log' = log \/ Writes
  <2>1. Active(r) /\ turn[r].at \notin After /\ UNCHANGED begun
    BY <1>3 DEF AppendQuestion, Active, After
  <2>2. log' = log \/ Append1(r, "user_message", 0)
    BY <1>3 DEF AppendQuestion
  <2>3. "user_message" \in Kinds \ {"compaction_applied"} /\ 0 \in 0..MaxText
    BY ChatConstants DEF Kinds
  <2> QED BY <2>1, <2>2, <2>3, Append1Writes
<1>4. ASSUME NEW r \in Requests, Compact(r)
      PROVE  log' = log \/ Writes
  <2>1. Active(r) /\ UNCHANGED begun
    BY <1>4 DEF Compact, Active
  <2>2. turn[r].id = begun /\ begun > 0 /\ begun \in Nat
    BY <2>1, ActiveId
  <2>3. CASE \E c \in Plans(log, turn[r].id) : log' = Append(log, c)
    <3>1. PICK c \in Plans(log, begun) : log' = Append(log, c)
      BY <2>2, <2>3
    <3>2. Fits(c, begun) /\ c.kind = "compaction_applied"
      BY <2>2, PlansFit DEF IInv
    <3> QED BY <2>1, <2>2, <3>1, <3>2 DEF Writes
  <2> QED BY <1>4, <2>3 DEF Compact
<1>5. ASSUME NEW r \in Requests, Tick(r) \/ ClientLeaves(r)
      PROVE  log' = log \/ Writes
  <2>1. Active(r) /\ turn[r].at \notin After /\ UNCHANGED begun
    BY <1>5 DEF Tick, ClientLeaves, Streaming, Active, After
  <2>2. log' = log \/ Append1(r, "pending_state", turn[r].text)
    BY <1>5 DEF Tick, ClientLeaves, Flush
  <2>3. "pending_state" \in Kinds \ {"compaction_applied"}
    BY DEF Kinds
  <2> QED BY <2>1, <2>2, <2>3, Append1Writes, TextType
<1>6. ASSUME NEW r \in Requests, Persist(r)
      PROVE  log' = log \/ Writes
  <2>1. Active(r) /\ turn[r].at \notin After /\ UNCHANGED begun
    BY <1>6 DEF Persist, Active, After
  <2>2. Record(r) \subseteq Kinds \ {"compaction_applied"}
    BY DEF Record, Abnormal, Kinds
  <2>3. log' = log \/ \E kind \in Record(r) : Append1(r, kind, turn[r].text)
    BY <1>6 DEF Persist
  <2> QED BY <2>1, <2>2, <2>3, Append1Writes, TextType
<1>7. ASSUME NEW r \in Requests, Distill(r)
      PROVE  log' = log \/ Writes
  <2>1. Active(r) /\ UNCHANGED begun
    BY <1>7 DEF Distill, Active
  <2>2. log' = log \/ Append1(r, "turn_memory", 0)
    BY <1>7 DEF Distill
  <2>3. "turn_memory" \in Kinds \ {"compaction_applied"} /\ 0 \in 0..MaxText
    BY ChatConstants DEF Kinds
  <2> QED BY <2>1, <2>2, <2>3, Append1Writes
<1>8. CASE UNCHANGED vars
  BY <1>8 DEF vars
<1> QED
  BY <1>1, <1>2, <1>3, <1>4, <1>5, <1>6, <1>7, <1>8 DEF Next, Work

-----------------------------------------------------------------------------
(* The types *)

LogType ==
  \A i \in DOMAIN log :
    /\ log[i].kind \in Kinds /\ log[i].turn \in 1..begun /\ log[i].text \in 0..MaxText
    /\ log[i].through \in 0..(i - 1) /\ log[i].covers \subseteq 1..(i - 1)

Stages ==
  {"idle", "retry", "append", "compact", "send", "stream", "persist", "memory", "recompact",
   "finish"}

TurnRecord ==
  [at : Stages, id : 0..MaxTurns, here : BOOLEAN, text : 0..MaxText, flushed : 0..MaxText,
   other : BOOLEAN, end : {"none", "done", "error", "cut"}]

StateType ==
  /\ slot \in Requests \cup {NoRequest}
  /\ turn \in [Requests -> TurnRecord]
  /\ begun \in 0..MaxTurns /\ lost \subseteq 1..begun
  /\ ended \subseteq [id : 1..begun, text : 0..MaxText]
  /\ faults \in 0..MaxFaults

LEMMA BoundsType == MaxTurns \in Nat /\ MaxText \in Nat /\ MaxFaults \in Nat
BY ChatConstants

LEMMA TypeParts == TypeOK <=> LogType /\ StateType
BY DEF TypeOK, LogType, StateType, TurnRecord, Stages, Kinds

\* The log only grows, by events of the turn under way.
LEMMA Kept ==
  ASSUME TypeInv, log' = log \/ Writes
  PROVE  \A i \in DOMAIN log : i \in DOMAIN log' /\ log'[i] = log[i]
<1>1. CASE Writes
  <2>1. PICK ev : Fits(ev, begun) /\ log' = Append(log, ev)
    BY <1>1 DEF Writes
  <2> QED BY <2>1, Appending DEF TypeInv, Fits
<1> QED BY <1>1

LEMMA LogTyped ==
  ASSUME TypeInv, log' = log \/ Writes, begun' \in Nat, begun' >= begun
  PROVE  log' \in Seq(EventType) /\ LogType'
<1>0. begun \in Nat /\ LogType
  BY BegunType, TypeParts DEF TypeInv
<1>1. CASE log' = log
  BY <1>0, <1>1 DEF TypeInv, LogType
<1>2. CASE Writes
  <2>1. PICK ev : Fits(ev, begun) /\ log' = Append(log, ev)
    BY <1>2 DEF Writes
  <2>2. begun' = begun /\ begun > 0
    BY <1>2 DEF Writes
  <2>3. /\ log' \in Seq(EventType)
        /\ DOMAIN log = 1..Len(log) /\ Len(log) \in Nat
        /\ DOMAIN log' = 1..(Len(log) + 1)
        /\ \A i \in 1..Len(log) : log'[i] = log[i]
        /\ log'[Len(log) + 1] = ev
    BY <2>1, Appending DEF TypeInv, Fits
  <2>4. /\ ev.kind \in Kinds /\ ev.turn \in 1..begun /\ ev.text \in 0..MaxText
        /\ ev.through \in 0..Len(log) /\ ev.covers \subseteq 1..Len(log)
    BY <1>0, <2>1, <2>2 DEF Fits, EventType
  <2>5. ASSUME NEW i \in DOMAIN log'
        PROVE  /\ log'[i].kind \in Kinds /\ log'[i].turn \in 1..begun' /\ log'[i].text \in 0..MaxText
               /\ log'[i].through \in 0..(i - 1) /\ log'[i].covers \subseteq 1..(i - 1)
    <3>1. CASE i \in 1..Len(log)
      BY <1>0, <2>2, <2>3, <3>1 DEF LogType
    <3>2. CASE i = Len(log) + 1
      <4>1. i - 1 = Len(log)
        BY <2>3, <3>2
      <4> QED BY <2>2, <2>3, <2>4, <3>2, <4>1
    <3> QED BY <2>3, <2>5, <3>1, <3>2
  <2> QED BY <2>3, <2>5 DEF LogType
<1> QED BY <1>1, <1>2

\* The records of turns are closed under what the steps do to them.
LEMMA RecordType ==
  /\ Idle \in TurnRecord
  /\ \A t \in TurnRecord :
       /\ \A at \in Stages : [t EXCEPT !.at = at] \in TurnRecord
       /\ \A at \in Stages : [Idle EXCEPT !.at = at, !.id = t.id, !.text = t.text] \in TurnRecord
       /\ \A at \in Stages : \A n \in 0..MaxTurns :
            [Idle EXCEPT !.at = at, !.id = n, !.here = TRUE] \in TurnRecord
       /\ \A x \in 0..MaxText : [t EXCEPT !.text = x] \in TurnRecord
       /\ [t EXCEPT !.other = TRUE] \in TurnRecord
       /\ \A here \in BOOLEAN : /\ [t EXCEPT !.here = here] \in TurnRecord
                               /\ [t EXCEPT !.flushed = t.text, !.here = here] \in TurnRecord
       /\ \A how \in {"done", "error", "cut"} :
            [t EXCEPT !.at = "persist", !.here = FALSE, !.end = how] \in TurnRecord
<1>1. 0 \in 0..MaxTurns /\ 0 \in 0..MaxText
  BY BoundsType
<1>2. Idle \in TurnRecord
  BY <1>1 DEF TurnRecord, Stages, Idle
<1>3. ASSUME NEW t \in TurnRecord, NEW at \in Stages
      PROVE  [t EXCEPT !.at = at] \in TurnRecord
  BY DEF TurnRecord
<1>4. ASSUME NEW t \in TurnRecord, NEW at \in Stages
      PROVE  [Idle EXCEPT !.at = at, !.id = t.id, !.text = t.text] \in TurnRecord
  BY <1>2 DEF TurnRecord
<1>5. ASSUME NEW at \in Stages, NEW n \in 0..MaxTurns
      PROVE  [Idle EXCEPT !.at = at, !.id = n, !.here = TRUE] \in TurnRecord
  BY <1>2 DEF TurnRecord
<1>6. ASSUME NEW t \in TurnRecord, NEW x \in 0..MaxText
      PROVE  [t EXCEPT !.text = x] \in TurnRecord
  BY DEF TurnRecord
<1>7. ASSUME NEW t \in TurnRecord
      PROVE  [t EXCEPT !.other = TRUE] \in TurnRecord
  BY DEF TurnRecord
<1>8. ASSUME NEW t \in TurnRecord, NEW here \in BOOLEAN
      PROVE  /\ [t EXCEPT !.here = here] \in TurnRecord
             /\ [t EXCEPT !.flushed = t.text, !.here = here] \in TurnRecord
  BY DEF TurnRecord
<1>9. ASSUME NEW t \in TurnRecord, NEW how \in {"done", "error", "cut"}
      PROVE  [t EXCEPT !.at = "persist", !.here = FALSE, !.end = how] \in TurnRecord
  BY DEF TurnRecord, Stages
<1> QED BY <1>2, <1>3, <1>4, <1>5, <1>6, <1>7, <1>8, <1>9

\* The other parts of StateType under a step that neither begins nor ends a turn.
LEMMA SteadyType ==
  ASSUME StateType, UNCHANGED <<slot, begun, ended>>, lost' \subseteq 1..begun,
         faults' = faults \/ Fault, NEW r \in Requests, NEW t \in TurnRecord,
         turn' = [turn EXCEPT ![r] = t]
  PROVE  StateType' /\ begun' \in Nat /\ begun' >= begun
BY BoundsType DEF StateType, Fault

\* Every step keeps the types of the slot, the turns and the histories.
LEMMA StateTyped ==
  ASSUME StateType, SlotInv, [Next]_vars
  PROVE  StateType' /\ begun' \in Nat /\ begun' >= begun
<1> USE DEF history
<1>0. begun \in Nat /\ lost \subseteq 1..begun /\ \A r \in Requests : turn[r] \in TurnRecord
  BY BoundsType DEF StateType
<1>1. CASE Kill
  <2>1. turn' \in [Requests -> TurnRecord]
    BY <1>1, RecordType DEF Kill
  <2>2. faults' \in 0..MaxFaults
    BY <1>1, BoundsType DEF Kill, Fault, StateType
  <2> QED BY <1>0, <1>1, <2>1, <2>2 DEF Kill, StateType
<1>2. ASSUME NEW r \in Requests, NEW at \in {"append", "compact"}, TurnBegin(r, at), UNCHANGED history
      PROVE  StateType' /\ begun' \in Nat /\ begun' >= begun
  <2>1. begun + 1 \in 0..MaxTurns
    BY <1>0, <1>2, BoundsType DEF TurnBegin
  <2>2. [Idle EXCEPT !.at = at, !.id = begun + 1, !.here = TRUE] \in TurnRecord
    BY <1>0, <2>1, RecordType DEF Stages
  <2>3. lost \subseteq 1..(begun + 1) /\ ended \subseteq [id : 1..(begun + 1), text : 0..MaxText]
    BY <1>0 DEF StateType
  <2> QED BY <1>0, <1>2, <2>1, <2>2, <2>3 DEF TurnBegin, StateType
<1>3. ASSUME NEW r \in Requests, NEW at \in Stages, Go(r, at), UNCHANGED <<slot, begun, history>>
      PROVE  StateType' /\ begun' \in Nat /\ begun' >= begun
  <2>1. [turn[r] EXCEPT !.at = at] \in TurnRecord
    BY <1>0, RecordType
  <2>2. turn' = [turn EXCEPT ![r] = [turn[r] EXCEPT !.at = at]]
    BY <1>3 DEF Go
  <2> QED BY <1>0, <1>3, <2>1, <2>2, SteadyType
<1>4. ASSUME NEW r \in Requests, TurnDone(r), UNCHANGED <<begun, lost, faults>>,
             \A e \in ended' : e \in ended \/ e \in [id : 1..begun, text : 0..MaxText]
      PROVE  StateType' /\ begun' \in Nat /\ begun' >= begun
  <2>1. turn' \in [Requests -> TurnRecord]
    BY <1>4, RecordType DEF TurnDone, StateType
  <2> QED BY <1>0, <1>4, <2>1 DEF TurnDone, StateType
<1>5. ASSUME NEW r \in Requests, NEW at \in Stages, Written(r, at), UNCHANGED <<slot, begun, ended>>,
             lost' \subseteq 1..begun, faults' = faults \/ Fault
      PROVE  StateType' /\ begun' \in Nat /\ begun' >= begun
  BY <1>0, <1>5, RecordType, SteadyType DEF Written
<1>6. ASSUME NEW r \in Requests, Chat(r) \/ RetryReads(r) \/ RetryBegins(r)
      PROVE  StateType' /\ begun' \in Nat /\ begun' >= begun
  BY <1>2, <1>3, <1>6 DEF Chat, RetryReads, RetryBegins, Stages
<1>7. ASSUME NEW r \in Requests, AppendQuestion(r) \/ Compact(r) \/ Send(r) \/ Distill(r)
      PROVE  StateType' /\ begun' \in Nat /\ begun' >= begun
  BY <1>3, <1>4, <1>7 DEF AppendQuestion, Compact, Send, Distill, Stages
<1>8. ASSUME NEW r \in Requests, NEW how \in {"done", "error", "cut"}, StreamEnds(r, how)
      PROVE  StateType' /\ begun' \in Nat /\ begun' >= begun
  <2>1. turn' = [turn EXCEPT ![r] = [turn[r] EXCEPT !.at = "persist", !.here = FALSE, !.end = how]]
    BY <1>8 DEF StreamEnds
  <2>2. UNCHANGED <<slot, begun, ended, lost, faults>>
    BY <1>8 DEF StreamEnds
  <2> QED BY <1>0, <2>1, <2>2, RecordType, SteadyType
<1>9. ASSUME NEW r \in Requests, Persist(r)
      PROVE  StateType' /\ begun' \in Nat /\ begun' >= begun
  BY <1>0, <1>5, <1>9 DEF Persist, Stages
<1>10. ASSUME NEW r \in Requests, PersistFails(r)
       PROVE  StateType' /\ begun' \in Nat /\ begun' >= begun
  <2>1. turn[r].id \in 1..begun
    BY <1>0, <1>10 DEF PersistFails, SlotInv, Active
  <2> QED BY <1>0, <1>5, <1>10, <2>1 DEF PersistFails, Stages
<1>11. ASSUME NEW r \in Requests, Finish(r)
       PROVE  StateType' /\ begun' \in Nat /\ begun' >= begun
  <2>1. turn[r].id \in 1..begun /\ turn[r].text \in 0..MaxText
    BY <1>0, <1>11 DEF Finish, SlotInv, Active, TurnRecord
  <2> QED BY <1>4, <1>11, <2>1 DEF Finish
<1>12. ASSUME NEW r \in Requests, Chunk(r)
       PROVE  StateType' /\ begun' \in Nat /\ begun' >= begun
  <2>1. turn[r].text + 1 \in 0..MaxText
    BY <1>0, <1>12, BoundsType DEF Chunk, TurnRecord
  <2>2. turn' = [turn EXCEPT ![r] = [turn[r] EXCEPT !.text = turn[r].text + 1]]
    BY <1>12 DEF Chunk
  <2> QED BY <1>0, <1>12, <2>1, <2>2, RecordType, SteadyType DEF Chunk
<1>13. ASSUME NEW r \in Requests, Tick(r) \/ ClientLeaves(r)
       PROVE  StateType' /\ begun' \in Nat /\ begun' >= begun
  <2>1. PICK here \in BOOLEAN : Flush(r, here)
    BY <1>13 DEF Tick, ClientLeaves
  <2>2. UNCHANGED <<slot, begun, ended, lost>>
    BY <1>13 DEF Tick, ClientLeaves
  <2>3. faults' = faults \/ Fault
    BY <2>1 DEF Flush
  <2>4. \/ turn' = [turn EXCEPT ![r] = [turn[r] EXCEPT !.here = here]]
        \/ turn' = [turn EXCEPT ![r] = [turn[r] EXCEPT !.flushed = turn[r].text, !.here = here]]
    BY <2>1 DEF Flush
  <2> QED BY <1>0, <2>2, <2>3, <2>4, RecordType, SteadyType
<1>14. ASSUME NEW r \in Requests, NEW tool \in BOOLEAN, Other(r, tool)
       PROVE  StateType' /\ begun' \in Nat /\ begun' >= begun
  <2>1. turn' = [turn EXCEPT ![r] = [turn[r] EXCEPT !.other = TRUE]]
    BY <1>14 DEF Other
  <2> QED BY <1>0, <1>14, <2>1, RecordType, SteadyType DEF Other
<1>15. CASE UNCHANGED vars
  BY <1>0, <1>15 DEF vars, StateType
<1> QED
  BY <1>1, <1>6, <1>7, <1>8, <1>9, <1>10, <1>11, <1>12, <1>13, <1>14, <1>15 DEF Next, Work

LEMMA TypeStep ==
  ASSUME IInv, [Next]_vars
  PROVE  TypeInv'
<1>1. StateType /\ SlotInv /\ TypeInv
  BY TypeParts DEF IInv, TypeInv
<1>2. StateType' /\ begun' \in Nat /\ begun' >= begun
  BY <1>1, StateTyped
<1>3. log' \in Seq(EventType) /\ LogType'
  BY <1>1, <1>2, LogStep, LogTyped
<1>4. TypeOK'
  BY <1>2, <1>3, TypeParts, PTL
<1> QED BY <1>3, <1>4 DEF TypeInv

-----------------------------------------------------------------------------
(* The slot *)

\* At most one turn is under way.
LEMMA Alone ==
  ASSUME IInv, NEW r \in Requests, Active(r), NEW q \in Requests, Active(q)
  PROVE  q = r
BY DEF IInv, SlotInv

\* A slot that is held is held by its turn, with the latest number.
LEMMA SlotStep ==
  ASSUME IInv, [Next]_vars
  PROVE  SlotInv'
<1> USE DEF history, Active
<1>0. /\ begun \in Nat /\ turn \in [Requests -> TurnRecord] /\ NoRequest \notin Requests
      /\ SlotInv
  BY BegunType, TypeParts, ChatConstants DEF IInv, TypeInv, StateType
<1>1. CASE Kill
  BY <1>0, <1>1 DEF Kill, Idle, SlotInv
<1>2. ASSUME NEW r \in Requests, NEW at \in {"append", "compact"}, TurnBegin(r, at)
      PROVE  SlotInv'
  BY <1>0, <1>2 DEF TurnBegin, SlotInv, TurnRecord, Idle
<1>3. ASSUME NEW r \in Requests, RetryReads(r) \/ (RetryBegins(r) /\ Go(r, "idle") /\ UNCHANGED <<slot, begun>>)
      PROVE  SlotInv'
  BY <1>0, <1>3 DEF RetryReads, RetryBegins, Go, SlotInv, TurnRecord
<1>4. ASSUME NEW r \in Requests, Active(r), TurnDone(r), UNCHANGED begun
      PROVE  SlotInv'
  BY <1>0, <1>4 DEF TurnDone, SlotInv, Idle
<1>5. ASSUME NEW r \in Requests, Active(r), UNCHANGED <<slot, begun>>, NEW t \in TurnRecord,
             turn' = [turn EXCEPT ![r] = t], t.at \notin {"idle", "retry"}, t.id = turn[r].id
      PROVE  SlotInv'
  BY <1>0, <1>5 DEF SlotInv
<1>6. ASSUME NEW r \in Requests, NEW at \in Stages \ {"idle", "retry"}, Active(r), Go(r, at),
             UNCHANGED <<slot, begun>>
      PROVE  SlotInv'
  BY <1>0, <1>6 DEF Go, SlotInv, TurnRecord
<1>7. ASSUME NEW r \in Requests, NEW at \in Stages \ {"idle", "retry"}, Active(r), Written(r, at),
             UNCHANGED <<slot, begun>>
      PROVE  SlotInv'
  BY <1>0, <1>7 DEF Written, SlotInv, TurnRecord, Idle
<1>8. ASSUME NEW r \in Requests, Chat(r) \/ RetryReads(r) \/ RetryBegins(r) PROVE SlotInv'
  BY <1>2, <1>3, <1>8 DEF Chat, RetryBegins
<1>9. ASSUME NEW r \in Requests, AppendQuestion(r) \/ Compact(r) \/ Send(r) \/ Distill(r) \/ Finish(r)
      PROVE  SlotInv'
  BY <1>4, <1>6, <1>9 DEF AppendQuestion, Compact, Send, Distill, Finish, Stages
<1>10. ASSUME NEW r \in Requests, Persist(r) \/ PersistFails(r) PROVE SlotInv'
  BY <1>7, <1>10 DEF Persist, PersistFails, Stages
<1>11. ASSUME NEW r \in Requests,
              (\E how \in {"done", "error", "cut"} : StreamEnds(r, how)) \/ Chunk(r) \/ Tick(r)
              \/ ClientLeaves(r) \/ (\E tool \in BOOLEAN : Other(r, tool))
       PROVE  SlotInv'
  <2>1. Active(r) /\ UNCHANGED <<slot, begun>>
    BY <1>11 DEF StreamEnds, Chunk, Tick, ClientLeaves, Other, Streaming
  <2>2. \A q \in Requests : q # r => turn'[q] = turn[q]
    BY <1>0, <1>11 DEF StreamEnds, Chunk, Tick, ClientLeaves, Flush, Other
  <2>3. turn'[r].id = turn[r].id /\ turn'[r].at \notin {"idle", "retry"}
    BY <1>0, <1>11 DEF StreamEnds, Chunk, Tick, ClientLeaves, Flush, Other, Streaming, TurnRecord
  <2> QED BY <1>0, <2>1, <2>2, <2>3 DEF SlotInv
<1>12. CASE UNCHANGED vars
  BY <1>0, <1>12 DEF vars, SlotInv
<1> QED BY <1>1, <1>8, <1>9, <1>10, <1>11, <1>12 DEF Next, Work

-----------------------------------------------------------------------------
(* What is on record *)

\* What a turn has on record stays there.
LEMMA RecordedStays ==
  ASSUME TypeInv, log' = log \/ Writes, NEW t, NEW x, Recorded(t, x)
  PROVE  Recorded(t, x)'
<1>1. \A i \in DOMAIN log : i \in DOMAIN log' /\ log'[i] = log[i]
  BY Kept
<1> QED BY <1>1 DEF Recorded, Wrote

\* The event just appended is the turn's.
LEMMA Appended ==
  ASSUME TypeInv, NEW kind \in Kinds, NEW t \in Nat, NEW x \in 0..MaxText,
         log' = Append(log, Event(kind, t, x))
  PROVE  /\ Len(log) + 1 \in Wrote(t, {kind})' /\ log'[Len(log) + 1].text = x
         /\ kind # "assistant_turn" => \A u : Wrote(u, {"assistant_turn"})' = Wrote(u, {"assistant_turn"})
<1>1. Event(kind, t, x) \in EventType /\ Event(kind, t, x).kind = kind
      /\ Event(kind, t, x).text = x /\ Event(kind, t, x).turn = t
  BY EventFits DEF Fits
<1>2. /\ DOMAIN log = 1..Len(log) /\ Len(log) \in Nat
      /\ DOMAIN log' = 1..(Len(log) + 1)
      /\ \A i \in 1..Len(log) : log'[i] = log[i]
      /\ log'[Len(log) + 1] = Event(kind, t, x)
  BY <1>1, Appending DEF TypeInv
<1> QED BY <1>1, <1>2 DEF Wrote

\* No answer is in the log of a turn that has not persisted.
LEMMA AnswerStep ==
  ASSUME IInv, [Next]_vars
  PROVE  AnswerInv'
<1> USE DEF history, Active, After
<1>0. /\ begun \in Nat /\ turn \in [Requests -> TurnRecord] /\ NoRequest \notin Requests
      /\ TypeInv /\ SlotInv /\ AnswerInv /\ LogType
  BY BegunType, TypeParts, ChatConstants DEF IInv, TypeInv, StateType
<1>1. CASE Kill
  BY <1>0, <1>1 DEF Kill, Idle, AnswerInv
<1>2. ASSUME NEW r \in Requests, NEW at \in {"append", "compact"}, TurnBegin(r, at), log' = log
      PROVE  AnswerInv'
  <2>1. Wrote(begun + 1, {"assistant_turn"}) = {}
    BY <1>0 DEF Wrote, LogType
  <2>2. \A q \in Requests : Active(q)' => q = r
    BY <1>0, <1>2 DEF TurnBegin, SlotInv
  <2>3. begun' = begun + 1
    BY <1>2 DEF TurnBegin
  <2> QED BY <1>2, <2>1, <2>2, <2>3 DEF AnswerInv, Wrote
<1>3. ASSUME NEW r \in Requests, RetryReads(r) \/ (RetryBegins(r) /\ Go(r, "idle") /\ UNCHANGED <<slot, begun>>)
      PROVE  AnswerInv'
  BY <1>0, <1>3 DEF RetryReads, RetryBegins, Go, AnswerInv, TurnRecord, Wrote
<1>4. ASSUME NEW r \in Requests, Active(r), UNCHANGED begun,
             \A q \in Requests : q # r => turn'[q] = turn[q],
             \/ turn'[r].at \in After \cup {"idle", "retry"}
             \/ turn[r].at \notin After /\ Wrote(begun, {"assistant_turn"})' = Wrote(begun, {"assistant_turn"})
      PROVE  AnswerInv'
  <2>1. ASSUME NEW q \in Requests, Active(q)', turn'[q].at \notin After
        PROVE  Wrote(begun, {"assistant_turn"})' = {}
    <3>1. q = r
      BY <1>4, <2>1, Alone
    <3> QED BY <1>0, <1>4, <2>1, <3>1 DEF AnswerInv
  <2> QED BY <1>4, <2>1 DEF AnswerInv, Wrote
<1>5. ASSUME NEW r \in Requests, Chat(r) \/ RetryReads(r) \/ RetryBegins(r) PROVE AnswerInv'
  BY <1>2, <1>3, <1>5 DEF Chat, RetryBegins
<1>6. ASSUME NEW r \in Requests, AppendQuestion(r) PROVE AnswerInv'
  <2>1. Active(r) /\ turn[r].at \notin After /\ UNCHANGED begun /\ turn[r].id = begun
    BY <1>6, ActiveId DEF AppendQuestion
  <2>2. \A q \in Requests : q # r => turn'[q] = turn[q]
    BY <1>0, <1>6 DEF AppendQuestion, Go, TurnDone
  <2>3. CASE log' = log
    BY <1>4, <2>1, <2>2, <2>3 DEF Wrote
  <2>4. CASE Append1(r, "user_message", 0)
    <3>1. Wrote(begun, {"assistant_turn"})' = Wrote(begun, {"assistant_turn"})
      BY <1>0, <2>1, <2>4, Appended, BoundsType DEF Append1, Kinds
    <3> QED BY <1>4, <2>1, <2>2, <3>1
  <2> QED BY <1>6, <2>3, <2>4 DEF AppendQuestion
<1>7. ASSUME NEW r \in Requests, Compact(r) PROVE AnswerInv'
  <2>1. Active(r) /\ UNCHANGED begun /\ turn[r].id = begun
    BY <1>7, ActiveId DEF Compact
  <2>2. \A q \in Requests : q # r => turn'[q] = turn[q]
    BY <1>0, <1>7 DEF Compact, Go
  <2>3. CASE turn[r].at = "recompact"
    <3>1. turn'[r].at = "finish"
      BY <1>0, <1>7, <2>3 DEF Compact, Go, TurnRecord
    <3> QED BY <1>4, <2>1, <2>2, <3>1
  <2>4. CASE turn[r].at = "compact"
    <3>1. CASE log' = log
      BY <1>4, <2>1, <2>2, <2>4, <3>1 DEF Wrote
    <3>2. CASE \E c \in Plans(log, turn[r].id) : log' = Append(log, c)
      <4>1. PICK c \in Plans(log, begun) : log' = Append(log, c)
        BY <2>1, <3>2
      <4>2. Fits(c, begun) /\ c.kind = "compaction_applied"
        BY <1>0, <4>1, PlansFit
      <4>3. Wrote(begun, {"assistant_turn"})' = Wrote(begun, {"assistant_turn"})
        BY <1>0, <2>1, <4>1, <4>2, Appending DEF Wrote, Fits, TypeInv
      <4> QED BY <1>4, <2>1, <2>2, <2>4, <4>3
    <3> QED BY <1>7, <3>1, <3>2 DEF Compact
  <2> QED BY <1>7, <2>3, <2>4 DEF Compact
<1>8. ASSUME NEW r \in Requests, Send(r) \/ Finish(r) \/ Chunk(r)
              \/ (\E how \in {"done", "error", "cut"} : StreamEnds(r, how))
              \/ (\E tool \in BOOLEAN : Other(r, tool))
      PROVE  AnswerInv'
  <2>1. Active(r) /\ UNCHANGED begun /\ log' = log
    BY <1>8 DEF Send, Finish, Chunk, StreamEnds, Other, Streaming
  <2>2. \A q \in Requests : q # r => turn'[q] = turn[q]
    BY <1>0, <1>8 DEF Send, Finish, Go, TurnDone, Chunk, StreamEnds, Other
  <2>3. turn[r].at \notin After \/ turn'[r].at = "idle"
    BY <1>0, <1>8 DEF Send, Finish, TurnDone, Idle, Chunk, StreamEnds, Other, Streaming
  <2> QED BY <1>4, <2>1, <2>2, <2>3 DEF Wrote
<1>9. ASSUME NEW r \in Requests, Tick(r) \/ ClientLeaves(r) PROVE AnswerInv'
  <2>1. Active(r) /\ turn[r].at \notin After /\ UNCHANGED begun /\ turn[r].id = begun
    BY <1>9, ActiveId DEF Tick, ClientLeaves, Streaming
  <2>2. \A q \in Requests : q # r => turn'[q] = turn[q]
    BY <1>0, <1>9 DEF Tick, ClientLeaves, Flush
  <2>3. CASE log' = log
    BY <1>4, <2>1, <2>2, <2>3 DEF Wrote
  <2>4. CASE Append1(r, "pending_state", turn[r].text)
    <3>1. Wrote(begun, {"assistant_turn"})' = Wrote(begun, {"assistant_turn"})
      BY <1>0, <2>1, <2>4, Appended, TextType DEF Append1, Kinds
    <3> QED BY <1>4, <2>1, <2>2, <3>1
  <2> QED BY <1>9, <2>3, <2>4 DEF Tick, ClientLeaves, Flush
<1>10. ASSUME NEW r \in Requests, Persist(r) \/ PersistFails(r) \/ Distill(r) PROVE AnswerInv'
  <2>1. Active(r) /\ UNCHANGED begun
    BY <1>10 DEF Persist, PersistFails, Distill
  <2>2. \A q \in Requests : q # r => turn'[q] = turn[q]
    BY <1>0, <1>10 DEF Persist, PersistFails, Distill, Written, Go
  <2>3. turn'[r].at \in After
    <3>1. \/ Written(r, "memory") \/ Written(r, "finish") \/ Go(r, "recompact")
      BY <1>10 DEF Persist, PersistFails, Distill
    <3>2. turn \in [Requests -> TurnRecord]
      BY <1>0
    <3>3. Written(r, "memory") \/ Written(r, "finish") => turn'[r].at \in {"memory", "finish"}
      BY <3>2 DEF Written, Idle
    <3>4. Go(r, "recompact") => turn'[r].at = "recompact"
      BY <3>2 DEF Go, TurnRecord
    <3> QED BY <3>1, <3>3, <3>4
  <2> QED BY <1>4, <2>1, <2>2, <2>3
<1>11. CASE UNCHANGED vars
  BY <1>0, <1>11 DEF vars, AnswerInv, Wrote
<1> QED BY <1>1, <1>5, <1>6, <1>7, <1>8, <1>9, <1>10, <1>11 DEF Next, Work

\* The log stays in the order of the turns.
LEMMA OrderStep ==
  ASSUME IInv, [Next]_vars
  PROVE  TurnByTurn'
<1>0. /\ begun \in Nat /\ LogType /\ TurnByTurn /\ log \in Seq(EventType)
  BY BegunType, TypeParts DEF IInv, TypeInv, LogTellsEachTurn
<1>1. CASE log' = log
  BY <1>0, <1>1 DEF TurnByTurn
<1>2. CASE Writes
  <2>1. PICK ev : /\ Fits(ev, begun) /\ log' = Append(log, ev)
                  /\ \/ ev.kind \in {"turn_memory", "compaction_applied"}
                     \/ Wrote(begun, {"assistant_turn"}) = {}
    BY <1>2 DEF Writes
  <2>2. /\ DOMAIN log = 1..Len(log) /\ Len(log) \in Nat
        /\ DOMAIN log' = 1..(Len(log) + 1)
        /\ \A i \in 1..Len(log) : log'[i] = log[i]
        /\ log'[Len(log) + 1] = ev /\ ev.turn = begun
    BY <1>0, <2>1, Appending DEF Fits
  <2>3. SUFFICES ASSUME NEW i \in DOMAIN log', NEW j \in DOMAIN log', i < j
                 PROVE  /\ log'[i].turn <= log'[j].turn
                        /\ log'[i].kind = "assistant_turn" /\ log'[j].turn = log'[i].turn =>
                             log'[j].kind \in {"turn_memory", "compaction_applied"}
    BY DEF TurnByTurn
  <2>4. i \in 1..Len(log) /\ log[i].turn \in 1..begun
    BY <1>0, <2>2, <2>3 DEF LogType
  <2>5. CASE j \in 1..Len(log)
    BY <1>0, <2>2, <2>3, <2>4, <2>5 DEF TurnByTurn
  <2>6. CASE j = Len(log) + 1
    <3>1. log'[i].turn <= log'[j].turn
      BY <1>0, <2>2, <2>4, <2>6
    <3>2. log[i].kind = "assistant_turn" /\ log[i].turn = begun => i \in Wrote(begun, {"assistant_turn"})
      BY <2>2, <2>4 DEF Wrote
    <3> QED BY <2>1, <2>2, <2>4, <2>6, <3>1, <3>2
  <2> QED BY <2>2, <2>3, <2>5, <2>6
<1> QED BY <1>1, <1>2, LogStep

\* What is flushed is in a checkpoint, and a turn that has persisted is on record.
OnRecord(r) ==
  /\ Active(r) /\ turn[r].at \notin After /\ turn[r].flushed # 0 =>
       \E i \in Wrote(begun, {"pending_state"}) : log[i].text = turn[r].flushed
  /\ turn[r].at \in After => begun \in lost \/ Recorded(begun, turn[r].text)

LEMMA RecordStep ==
  ASSUME IInv, [Next]_vars
  PROVE  RecordInv'
<1> USE DEF history, Active, After
<1>0. /\ begun \in Nat /\ turn \in [Requests -> TurnRecord] /\ NoRequest \notin Requests
      /\ TypeInv /\ SlotInv /\ RecordInv /\ LogType
  BY BegunType, TypeParts, ChatConstants DEF IInv, TypeInv, StateType
<1>a. \A i \in DOMAIN log : i \in DOMAIN log' /\ log'[i] = log[i]
  BY <1>0, LogStep, Kept
<1>1. CASE Kill
  BY <1>0, <1>1 DEF Kill, Idle, RecordInv
<1>2. ASSUME NEW r \in Requests, NEW at \in {"append", "compact"}, TurnBegin(r, at)
      PROVE  RecordInv'
  BY <1>0, <1>2 DEF TurnBegin, RecordInv, SlotInv, Idle
<1>3. ASSUME NEW r \in Requests, RetryReads(r) \/ (RetryBegins(r) /\ Go(r, "idle") /\ UNCHANGED <<slot, begun>>)
      PROVE  RecordInv'
  <2>1. log' = log /\ lost' = lost /\ begun' = begun
    BY <1>3 DEF RetryReads, RetryBegins
  <2>2. \A q \in Requests : turn'[q] = turn[q] \/ turn'[q].at \in {"idle", "retry"}
    BY <1>0, <1>3 DEF RetryReads, RetryBegins, Go, TurnRecord
  <2> QED BY <1>0, <2>1, <2>2 DEF RecordInv, Recorded, Wrote
<1>4. ASSUME NEW r \in Requests, Active(r), \A q \in Requests : q # r => turn'[q] = turn[q],
             OnRecord(r)'
      PROVE  RecordInv'
  <2>1. ASSUME NEW q \in Requests, q # r PROVE turn'[q].at \in {"idle", "retry"}
    BY <1>4, <2>1, Alone
  <2> QED BY <1>4, <2>1 DEF OnRecord, RecordInv
<1>5. ASSUME NEW r \in Requests, UNCHANGED begun, turn'[r].at \notin After,
             turn[r].at \notin After, Active(r), turn'[r].flushed \in {0, turn[r].flushed}
      PROVE  OnRecord(r)'
  BY <1>0, <1>a, <1>5 DEF OnRecord, RecordInv, Wrote
<1>6. ASSUME NEW r \in Requests, Chat(r) \/ RetryReads(r) \/ RetryBegins(r) PROVE RecordInv'
  BY <1>2, <1>3, <1>6 DEF Chat, RetryBegins
<1>7. ASSUME NEW r \in Requests, AppendQuestion(r) \/ Send(r) \/ (Compact(r) /\ turn[r].at = "compact")
      PROVE  RecordInv'
  <2>1. Active(r) /\ UNCHANGED begun /\ turn[r].at \notin After
    BY <1>7 DEF AppendQuestion, Send, Compact
  <2>2. \A q \in Requests : q # r => turn'[q] = turn[q]
    BY <1>0, <1>7 DEF AppendQuestion, Send, Compact, Go, TurnDone
  <2>3. turn'[r].at \notin After /\ turn'[r].flushed \in {0, turn[r].flushed}
    BY <1>0, <1>7 DEF AppendQuestion, Send, Compact, Go, TurnDone, Idle, TurnRecord
  <2> QED BY <1>4, <1>5, <2>1, <2>2, <2>3
<1>8. ASSUME NEW r \in Requests, Chunk(r)
              \/ (\E how \in {"done", "error", "cut"} : StreamEnds(r, how))
              \/ (\E tool \in BOOLEAN : Other(r, tool))
      PROVE  RecordInv'
  <2>1. Active(r) /\ UNCHANGED begun /\ turn[r].at \notin After
    BY <1>8 DEF Chunk, StreamEnds, Other, Streaming
  <2>2. \A q \in Requests : q # r => turn'[q] = turn[q]
    BY <1>0, <1>8 DEF Chunk, StreamEnds, Other
  <2>3. turn'[r].at \notin After /\ turn'[r].flushed \in {0, turn[r].flushed}
    BY <1>0, <1>8 DEF Chunk, StreamEnds, Other, Streaming, TurnRecord
  <2> QED BY <1>4, <1>5, <2>1, <2>2, <2>3
<1>9. ASSUME NEW r \in Requests, Tick(r) \/ ClientLeaves(r) PROVE RecordInv'
  <2>1. Active(r) /\ turn[r].at \notin After /\ UNCHANGED begun /\ turn[r].id = begun
    BY <1>9, ActiveId DEF Tick, ClientLeaves, Streaming
  <2>2. \A q \in Requests : q # r => turn'[q] = turn[q]
    BY <1>0, <1>9 DEF Tick, ClientLeaves, Flush
  <2>3. PICK here \in BOOLEAN : Flush(r, here)
    BY <1>9 DEF Tick, ClientLeaves
  <2>4. CASE turn' = [turn EXCEPT ![r].here = here]
    <3>1. turn'[r].at \notin After /\ turn'[r].flushed = turn[r].flushed
      BY <1>0, <2>1, <2>4 DEF TurnRecord
    <3> QED BY <1>4, <1>5, <2>1, <2>2, <3>1
  <2>5. CASE Append1(r, "pending_state", turn[r].text)
             /\ turn' = [turn EXCEPT ![r].flushed = turn[r].text, ![r].here = here]
    <3>1. /\ Len(log) + 1 \in Wrote(begun, {"pending_state"})'
          /\ log'[Len(log) + 1].text = turn[r].text
      BY <1>0, <2>1, <2>5, Appended, TextType DEF Append1, Kinds
    <3>2. turn'[r].flushed = turn[r].text /\ turn'[r].at = turn[r].at
      BY <1>0, <2>5 DEF TurnRecord
    <3>3. OnRecord(r)'
      BY <2>1, <3>1, <3>2 DEF OnRecord, Wrote
    <3> QED BY <1>4, <2>1, <2>2, <3>3
  <2> QED BY <2>3, <2>4, <2>5 DEF Flush
<1>10. ASSUME NEW r \in Requests, Persist(r) PROVE RecordInv'
  <2>1. Active(r) /\ turn[r].at \notin After /\ UNCHANGED <<begun, lost>> /\ turn[r].id = begun
    BY <1>10, ActiveId DEF Persist
  <2>2. \A q \in Requests : q # r => turn'[q] = turn[q]
    BY <1>0, <1>10 DEF Persist, Written
  <2>3. turn'[r].at \in After /\ turn'[r].text = turn[r].text
    <3>1. PICK at \in {"memory", "finish"} : Written(r, at)
      BY <1>10 DEF Persist
    <3>2. turn'[r] = [Idle EXCEPT !.at = at, !.id = turn[r].id, !.text = turn[r].text]
      BY <1>0, <3>1 DEF Written
    <3> QED BY <3>1, <3>2 DEF Idle
  <2>4. CASE Record(r) = {} /\ log' = log
    <3>1. turn[r].text # 0 /\ turn[r].text = turn[r].flushed
      BY <1>0, <2>4 DEF Record, Abnormal, TurnRecord
    <3>2. \E i \in Wrote(begun, {"pending_state"}) : log[i].text = turn[r].text
      BY <1>0, <2>1, <3>1 DEF RecordInv
    <3>3. OnRecord(r)'
      BY <2>1, <2>3, <2>4, <3>2 DEF OnRecord, Recorded, Wrote
    <3> QED BY <1>4, <2>1, <2>2, <3>3
  <2>5. ASSUME NEW kind \in Record(r), Append1(r, kind, turn[r].text) PROVE RecordInv'
    <3>1. kind \in {"assistant_turn", "pending_state"} \/ (kind = "turn_failed" /\ turn[r].text = 0)
          \/ (kind = "turn_failed" /\ turn[r].text = turn[r].flushed)
      <4>1. turn[r].text \in Nat
        BY TextType, BoundsType
      <4> QED BY <2>5, <4>1 DEF Record, Abnormal
    <3>2. /\ Len(log) + 1 \in Wrote(begun, {kind})'
          /\ log'[Len(log) + 1].text = turn[r].text
      BY <1>0, <2>1, <2>5, <3>1, Appended, TextType DEF Append1, Kinds
    <3>3. CASE turn[r].text = turn[r].flushed /\ turn[r].text # 0
      <4>1. \E i \in Wrote(begun, {"pending_state"}) : log[i].text = turn[r].text
        BY <1>0, <2>1, <3>3 DEF RecordInv
      <4>2. Recorded(begun, turn[r].text)'
        BY <1>a, <2>1, <2>3, <4>1 DEF Recorded, Wrote
      <4> QED BY <1>4, <2>1, <2>2, <2>3, <4>2 DEF OnRecord
    <3>4. CASE kind # "turn_failed" \/ turn[r].text = 0
      <4>1. Recorded(begun, turn[r].text)'
        BY <2>1, <2>3, <3>1, <3>2, <3>4 DEF Recorded, Wrote
      <4> QED BY <1>4, <2>1, <2>2, <2>3, <4>1 DEF OnRecord
    <3> QED BY <3>1, <3>3, <3>4
  <2> QED BY <1>10, <2>4, <2>5 DEF Persist
<1>11. ASSUME NEW r \in Requests, PersistFails(r) PROVE RecordInv'
  <2>1. Active(r) /\ turn[r].at \notin After /\ UNCHANGED begun /\ turn[r].id = begun
    BY <1>11, ActiveId DEF PersistFails
  <2>2. \A q \in Requests : q # r => turn'[q] = turn[q]
    BY <1>0, <1>11 DEF PersistFails, Written
  <2>3. turn'[r].at \in After /\ begun \in lost'
    BY <1>0, <1>11, <2>1 DEF PersistFails, Written, Idle
  <2> QED BY <1>4, <2>1, <2>2, <2>3 DEF OnRecord
<1>12. ASSUME NEW r \in Requests, Distill(r) \/ (Compact(r) /\ turn[r].at = "recompact") PROVE RecordInv'
  <2>1. Active(r) /\ turn[r].at \in After /\ UNCHANGED <<begun, lost>>
    BY <1>12 DEF Distill, Compact
  <2>2. \A q \in Requests : q # r => turn'[q] = turn[q]
    BY <1>0, <1>12 DEF Distill, Compact, Go
  <2>3. turn'[r].at \in After /\ turn'[r].text = turn[r].text
    BY <1>0, <1>12 DEF Distill, Compact, Go, TurnRecord
  <2>4. begun \in lost' \/ Recorded(begun, turn[r].text)'
    BY <1>0, <1>a, <2>1, <2>3 DEF RecordInv, Recorded, Wrote
  <2>5. OnRecord(r)'
    BY <2>1, <2>3, <2>4 DEF OnRecord
  <2> QED BY <1>4, <2>1, <2>2, <2>5
<1>13. ASSUME NEW r \in Requests, Finish(r) PROVE RecordInv'
  <2>1. Active(r) /\ turn'[r] = Idle
    BY <1>0, <1>13 DEF Finish, TurnDone
  <2>2. \A q \in Requests : q # r => turn'[q] = turn[q]
    BY <1>0, <1>13 DEF Finish, TurnDone
  <2> QED BY <1>4, <2>1, <2>2 DEF OnRecord, Idle
<1>14. CASE UNCHANGED vars
  BY <1>0, <1>14 DEF vars, RecordInv, Recorded, Wrote
<1> QED
  BY <1>1, <1>6, <1>7, <1>8, <1>9, <1>10, <1>11, <1>12, <1>13, <1>14 DEF Next, Work, Compact

LEMMA EndedStep ==
  ASSUME IInv, [Next]_vars
  PROVE  EndedIsRecorded'
<1>1. ASSUME NEW r \in Requests, Finish(r)
      PROVE  /\ ended' = ended \cup {[id |-> begun, text |-> turn[r].text]} /\ lost' = lost
             /\ begun \in lost \/ Recorded(begun, turn[r].text)
  <2>1. turn[r].at = "finish"
    BY <1>1 DEF Finish
  <2>2. turn[r].id = begun
    BY <2>1, ActiveId DEF Active
  <2> QED BY <1>1, <2>1, <2>2 DEF Finish, IInv, RecordInv, After
<1>2. /\ lost \subseteq lost'
      /\ ended' = ended \/ \E r \in Requests : Finish(r)
  BY DEF Next, Work, vars, history, Kill, Chat, RetryReads, RetryBegins, AppendQuestion, Compact,
         Send, Chunk, Other, Tick, ClientLeaves, StreamEnds, Persist, PersistFails, Distill, Finish
<1>3. \A t, x : Recorded(t, x) => Recorded(t, x)'
  BY LogStep, RecordedStays DEF IInv
<1>4. \A e \in ended' : e.id \in lost \/ Recorded(e.id, e.text)
  BY <1>1, <1>2 DEF IInv, LogTellsEachTurn, EndedIsRecorded, Recorded
<1>5. \A e \in ended' : e.id \in lost' \/ Recorded(e.id, e.text)'
  BY <1>2, <1>3, <1>4
<1> QED BY <1>5 DEF EndedIsRecorded, Recorded

-----------------------------------------------------------------------------
(* What the context keeps *)

\* A log whose compactions speak of what lies before them.
Logged(l) ==
  /\ l \in Seq(EventType)
  /\ \A i \in DOMAIN l : l[i].through \in 0..(i - 1) /\ l[i].covers \subseteq 1..(i - 1)

LEMMA LoggedLog == TypeInv => Logged(log)
BY DEF TypeInv, TypeOK, Logged

LEMMA Positions ==
  ASSUME NEW l, Logged(l)
  PROVE  Len(l) \in Nat /\ DOMAIN l = 1..Len(l) /\ \A i \in DOMAIN l : l[i] \in EventType
BY DEF Logged

\* The newest compaction, if there is one.
LEMMA Newest ==
  ASSUME NEW l, Logged(l), At(l, "compaction_applied") # {}
  PROVE  \E c \in At(l, "compaction_applied") :
           LastCompaction(l) = l[c] /\ \A d \in At(l, "compaction_applied") : c >= d
<1>1. At(l, "compaction_applied") \in SUBSET (0..Len(l)) /\ Len(l) \in Nat
  BY Positions DEF At
<1>2. /\ Max(At(l, "compaction_applied")) \in At(l, "compaction_applied")
      /\ \A d \in At(l, "compaction_applied") : Max(At(l, "compaction_applied")) >= d
  BY <1>1, MaxIn
<1> QED BY <1>2 DEF LastCompaction

LEMMA NoneYet ==
  ASSUME NEW l, At(l, "compaction_applied") = {}
  PROVE  LastCompaction(l).through = 0 /\ LastCompaction(l).covers = {}
BY DEF LastCompaction, Compaction, Event

\* A boundary lies in the log.
LEMMA Boundary ==
  ASSUME NEW l, Logged(l)
  PROVE  LastCompaction(l).through \in 0..Len(l)
<1>1. Len(l) \in Nat /\ DOMAIN l = 1..Len(l)
  BY Positions
<1>2. CASE At(l, "compaction_applied") = {}
  BY <1>1, <1>2, NoneYet
<1>3. CASE At(l, "compaction_applied") # {}
  <2>1. PICK c \in At(l, "compaction_applied") : LastCompaction(l) = l[c]
    BY <1>3, Newest
  <2>2. c \in 1..Len(l) /\ l[c].through \in 0..(c - 1)
    BY <1>1, <2>1 DEF At, Logged
  <2> QED BY <1>1, <2>1, <2>2
<1> QED BY <1>2, <1>3

\* An event may follow in a log.
LEMMA LoggedMore ==
  ASSUME NEW l, Logged(l), NEW ev \in EventType,
         ev.through \in 0..Len(l), ev.covers \subseteq 1..Len(l)
  PROVE  Logged(Append(l, ev))
<1> DEFINE k == Append(l, ev)
<1>1. /\ k \in Seq(EventType) /\ DOMAIN l = 1..Len(l) /\ Len(l) \in Nat
      /\ DOMAIN k = 1..(Len(l) + 1)
      /\ \A i \in 1..Len(l) : k[i] = l[i]
      /\ k[Len(l) + 1] = ev
  BY Appending DEF Logged
<1> HIDE DEF k
<1>2. ASSUME NEW i \in DOMAIN k
      PROVE  k[i].through \in 0..(i - 1) /\ k[i].covers \subseteq 1..(i - 1)
  <2>1. CASE i \in 1..Len(l)
    BY <1>1, <2>1 DEF Logged
  <2>2. CASE i = Len(l) + 1
    <3>1. i - 1 = Len(l)
      BY <1>1, <2>2
    <3> QED BY <1>1, <2>2, <3>1
  <2> QED BY <1>1, <1>2, <2>1, <2>2
<1>3. Logged(k)
  BY <1>1, <1>2 DEF Logged
<1> QED BY <1>3 DEF k

\* The events of a kind after one more.
LEMMA AtMore ==
  ASSUME NEW l, Logged(l), NEW ev \in EventType, NEW kind
  PROVE  At(Append(l, ev), kind) = At(l, kind) \cup IF ev.kind = kind THEN {Len(l) + 1} ELSE {}
<1>1. /\ DOMAIN l = 1..Len(l) /\ Len(l) \in Nat
      /\ DOMAIN Append(l, ev) = 1..(Len(l) + 1)
      /\ \A i \in 1..Len(l) : Append(l, ev)[i] = l[i]
      /\ Append(l, ev)[Len(l) + 1] = ev
  BY Appending DEF Logged
<1> QED BY <1>1 DEF At

\* A compaction is the newest from the moment it is stored, and stays it until the next one.
LEMMA LastMore ==
  ASSUME NEW l, NEW ev \in EventType, Logged(l), Logged(Append(l, ev))
  PROVE  /\ ev.kind = "compaction_applied" => LastCompaction(Append(l, ev)) = ev
         /\ ev.kind # "compaction_applied" => LastCompaction(Append(l, ev)) = LastCompaction(l)
<1> DEFINE k == Append(l, ev)
<1>1. /\ DOMAIN l = 1..Len(l) /\ Len(l) \in Nat
      /\ \A i \in 1..Len(l) : k[i] = l[i]
      /\ k[Len(l) + 1] = ev
  BY Appending DEF Logged
<1>2. At(k, "compaction_applied") =
        At(l, "compaction_applied") \cup IF ev.kind = "compaction_applied" THEN {Len(l) + 1} ELSE {}
  BY AtMore
<1>3. Logged(k)
  OBVIOUS
<1> HIDE DEF k
<1>4. At(l, "compaction_applied") \subseteq 1..Len(l)
  BY <1>1 DEF At
<1>5. CASE ev.kind = "compaction_applied"
  <2>1. PICK c \in At(k, "compaction_applied") :
          LastCompaction(k) = k[c] /\ \A d \in At(k, "compaction_applied") : c >= d
    BY <1>2, <1>3, <1>5, Newest
  <2>2. c = Len(l) + 1
    BY <1>1, <1>2, <1>4, <1>5, <2>1
  <2>3. LastCompaction(k) = ev
    BY <1>1, <2>1, <2>2
  <2> QED BY <1>5, <2>3 DEF k
<1>6. CASE ev.kind # "compaction_applied"
  <2>1. At(k, "compaction_applied") = At(l, "compaction_applied")
    BY <1>2, <1>6
  <2>2. CASE At(l, "compaction_applied") = {}
    <3>1. LastCompaction(k) = Compaction(0, 0, {}) /\ LastCompaction(l) = Compaction(0, 0, {})
      BY <2>1, <2>2 DEF LastCompaction
    <3> QED BY <1>6, <3>1 DEF k
  <2>3. CASE At(l, "compaction_applied") # {}
    <3>1. PICK c \in At(l, "compaction_applied") :
            LastCompaction(l) = l[c] /\ \A d \in At(l, "compaction_applied") : c >= d
      BY <2>3, Newest
    <3>2. PICK b \in At(k, "compaction_applied") :
            LastCompaction(k) = k[b] /\ \A d \in At(k, "compaction_applied") : b >= d
      BY <1>3, <2>1, <2>3, Newest
    <3>3. b = c /\ c \in 1..Len(l)
      BY <1>1, <1>4, <2>1, <3>1, <3>2
    <3>4. LastCompaction(k) = LastCompaction(l)
      BY <1>1, <3>1, <3>2, <3>3
    <3> QED BY <1>6, <3>4 DEF k
  <2> QED BY <2>2, <2>3
<1> QED BY <1>5, <1>6

\* The live partial is the newest one, if nothing behind it supersedes it.
LEMMA Live ==
  ASSUME NEW l, Logged(l), NEW p
  PROVE  p \in LivePending(l) <=>
           /\ p \in At(l, "pending_state") /\ \A q \in At(l, "pending_state") : p >= q
           /\ \A i \in DOMAIN l : i > p => ~Supersedes(l[i], p)
<1> DEFINE P == At(l, "pending_state")
<1>1. P \in SUBSET (0..Len(l)) /\ Len(l) \in Nat
  BY Positions DEF At
<1>2. CASE P = {}
  BY <1>2 DEF LivePending
<1>3. CASE P # {}
  <2>1. Max(P) \in P /\ \A y \in P : Max(P) >= y
    <3> HIDE DEF P
    <3> QED BY <1>1, <1>3, MaxIn
  <2>2. p \in P /\ (\A q \in P : p >= q) <=> p = Max(P)
    BY <1>1, <2>1
  <2>3. p \in LivePending(l) <=>
          p = Max(P) /\ \A i \in DOMAIN l : i > Max(P) => ~Supersedes(l[i], Max(P))
    BY <1>3 DEF LivePending
  <2> QED BY <2>2, <2>3
<1> QED BY <1>2, <1>3

-----------------------------------------------------------------------------
(* What a compaction stands for *)

\* The messages to summarize are those up to a position.
LEMMA HalfIsPrefix ==
  ASSUME NEW l, Logged(l), Cardinality(Messages(l)) >= 4
  PROVE  \E x \in Nat : Half(l) = UpTo(Messages(l), x)
<1> DEFINE M == Messages(l)
           ends == {i \in M : /\ Cardinality(UpTo(M, i)) >= Cardinality(M) \div 2
                              /\ ~FromUser(l, i)}
           last == Max(M \ {Max(M)})
<1>1. M \in SUBSET (0..Len(l)) /\ Len(l) \in Nat
  BY Positions DEF Messages, Shown
<1>2. Half(l) = UpTo(M, Min(ends \cup {last}))
  BY DEF Half
<1>3. M \ {Max(M)} # {}
  <2> SUFFICES ASSUME M \subseteq {Max(M)} PROVE FALSE
    OBVIOUS
  <2>1. M = {} \/ M = {Max(M)}
    OBVIOUS
  <2>2. Cardinality(M) = 0 \/ Cardinality(M) = 1
    BY <2>1, FS_EmptySet, FS_Singleton
  <2> QED BY <2>2
<1>4. last \in M
  <2>1. M \ {Max(M)} \in SUBSET (0..Len(l))
    BY <1>1
  <2> HIDE DEF M
  <2> QED BY <1>1, <1>3, <2>1, MaxIn
<1>5. ends \cup {last} \in SUBSET Nat /\ ends \cup {last} # {}
  BY <1>1, <1>4
<1>6. Min(ends \cup {last}) \in Nat
  <2> HIDE DEF ends, last
  <2> QED BY <1>5, MinIn
<1> QED BY <1>2, <1>6

\* Two prefixes of a set of positions that are equally long are the same.
LEMMA SamePrefix ==
  ASSUME NEW n \in Nat, NEW S \in SUBSET (0..n), NEW x \in Nat, NEW y \in Nat,
         Cardinality(UpTo(S, x)) = Cardinality(UpTo(S, y))
  PROVE  UpTo(S, x) = UpTo(S, y)
<1>1. ASSUME NEW z \in Nat PROVE IsFiniteSet(UpTo(S, z))
  <2>1. IsFiniteSet(0..n)
    <3>1. 0 \in Int /\ n \in Int
      OBVIOUS
    <3> QED BY <3>1, FS_Interval
  <2>2. UpTo(S, z) \in SUBSET (0..n)
    BY DEF UpTo
  <2> QED BY <2>1, <2>2, FS_Subset
<1>2. UpTo(S, x) \in SUBSET UpTo(S, y) \/ UpTo(S, y) \in SUBSET UpTo(S, x)
  <2>1. \A j \in S : j \in Nat
    OBVIOUS
  <2>2. CASE x <= y
    <3>1. \A j \in S : j <= x => j <= y
      BY <2>1, <2>2
    <3> QED BY <3>1 DEF UpTo
  <2>3. CASE y <= x
    <3>1. \A j \in S : j <= y => j <= x
      BY <2>1, <2>3
    <3> QED BY <3>1 DEF UpTo
  <2> QED BY <2>2, <2>3
<1> QED BY <1>1, <1>2, FS_Subset

\* planCompaction puts the boundary behind the last message it summarizes, unless it
\* summarizes a failure note, which it does not count.
LEMMA PlanCovers ==
  ASSUME NEW l, Logged(l), NEW t \in Nat, NEW c \in Plans(l, t),
         At(l, "turn_failed") \cap c.covers = {}
  PROVE  /\ c.through \in Nat /\ c.through > LastCompaction(l).through
         /\ c.covers = LastCompaction(l).covers \cup UpTo(Counted(l), c.through)
<1> DEFINE half == Half(l) \ {0}
           old == LastCompaction(l)
<1>1. ~(Cardinality(Messages(l)) < 4) /\ Cardinality(Messages(l)) >= 4
  <2>1. Plans(l, t) # {}
    OBVIOUS
  <2>2. Messages(l) \in SUBSET (0..Len(l)) /\ Len(l) \in Nat
    BY Positions DEF Messages, Shown
  <2>3. IsFiniteSet(Messages(l))
    <3>1. 0 \in Int /\ Len(l) \in Int
      BY <2>2
    <3>2. IsFiniteSet(0..Len(l))
      BY <3>1, FS_Interval
    <3> QED BY <2>2, <3>2, FS_Subset
  <2>4. Cardinality(Messages(l)) \in Nat
    BY <2>3, FS_CardinalityType
  <2> QED BY <2>1, <2>4 DEF Plans
<1>2. PICK i \in Counted(l) :
        /\ Cardinality(UpTo(Counted(l), i)) = Cardinality(half)
        /\ c = Compaction(t, i, half \cup old.covers)
  <2>1. c \in {Compaction(t, i, half \cup old.covers) :
                 i \in {i \in Counted(l) :
                          half # {} /\ Cardinality(UpTo(Counted(l), i)) = Cardinality(half)}}
    BY <1>1 DEF Plans
  <2> QED BY <2>1
<1>3. c.through = i /\ c.covers = half \cup old.covers
  <2> HIDE DEF half, old
  <2> QED BY <1>2 DEF Compaction, Event
<1>4. /\ Len(l) \in Nat /\ Counted(l) \in SUBSET (0..Len(l)) /\ i \in Nat
      /\ old.through \in Nat /\ i > old.through
  BY Positions, Boundary DEF Counted, Shown
<1>5. PICK x \in Nat : Half(l) = UpTo(Messages(l), x)
  BY <1>1, HalfIsPrefix
<1>6. half = UpTo(Counted(l), x)
  <2>1. half = UpTo(Shown(l), x)
    <3>1. 0 \notin Shown(l)
      BY Positions DEF Shown
    <3> QED BY <1>5, <3>1 DEF Messages, UpTo
  <2>2. half \cap At(l, "turn_failed") = {}
    BY <1>3
  <2> HIDE DEF half
  <2> QED BY <2>1, <2>2 DEF Counted, UpTo
<1>7. UpTo(Counted(l), i) = UpTo(Counted(l), x)
  <2>1. Cardinality(UpTo(Counted(l), i)) = Cardinality(UpTo(Counted(l), x))
    BY <1>2, <1>6
  <2> QED BY <1>4, <2>1, SamePrefix
<1> HIDE DEF half, old
<1>8. c.covers = old.covers \cup UpTo(Counted(l), i)
  BY <1>3, <1>6, <1>7
<1> QED BY <1>3, <1>4, <1>8 DEF old

-----------------------------------------------------------------------------
(* The context after one more event *)

\* A partial that is still open was open before, and no event superseded it but a compaction.
LEMMA OpenBefore ==
  ASSUME NEW l, Logged(l), NEW ev \in EventType, NEW p \in Open(Append(l, ev)), p # Len(l) + 1
  PROVE  p \in Open(l) /\ p \in 1..Len(l) /\ ev.kind \notin {"assistant_turn", "pending_state"}
<1> DEFINE k == Append(l, ev)
<1>1. /\ DOMAIN l = 1..Len(l) /\ Len(l) \in Nat
      /\ DOMAIN k = 1..(Len(l) + 1)
      /\ \A i \in 1..Len(l) : k[i] = l[i]
      /\ k[Len(l) + 1] = ev
  BY Appending DEF Logged
<1>2. p \in Open(k)
  OBVIOUS
<1> HIDE DEF k
<1>3. p \in 1..Len(l) /\ l[p].kind = "pending_state"
  BY <1>1, <1>2 DEF Open, At
<1> QED BY <1>1, <1>2, <1>3 DEF Open, At

\* A partial that was live stays it, unless it is superseded.
LEMMA LiveAfter ==
  ASSUME NEW l, NEW ev \in EventType, Logged(l), Logged(Append(l, ev)), NEW p \in LivePending(l),
         ev.kind # "pending_state", ~Supersedes(ev, p)
  PROVE  p \in LivePending(Append(l, ev))
<1> DEFINE k == Append(l, ev)
<1>1. /\ DOMAIN l = 1..Len(l) /\ Len(l) \in Nat
      /\ DOMAIN k = 1..(Len(l) + 1)
      /\ \A i \in 1..Len(l) : k[i] = l[i]
      /\ k[Len(l) + 1] = ev
  BY Appending DEF Logged
<1>2. At(k, "pending_state") = At(l, "pending_state")
  <2>1. At(k, "pending_state") =
          At(l, "pending_state") \cup IF ev.kind = "pending_state" THEN {Len(l) + 1} ELSE {}
    BY AtMore
  <2> HIDE DEF k
  <2> QED BY <2>1
<1>3. Logged(k)
  OBVIOUS
<1> HIDE DEF k
<1>4. /\ p \in At(l, "pending_state") /\ \A q \in At(l, "pending_state") : p >= q
      /\ \A i \in DOMAIN l : i > p => ~Supersedes(l[i], p)
  BY Live
<1>5. ASSUME NEW i \in DOMAIN k, i > p PROVE ~Supersedes(k[i], p)
  <2>1. CASE i \in 1..Len(l)
    BY <1>1, <1>4, <1>5, <2>1
  <2>2. CASE i = Len(l) + 1
    BY <1>1, <2>2
  <2> QED BY <1>1, <1>5, <2>1, <2>2
<1>6. p \in LivePending(k)
  BY <1>2, <1>3, <1>4, <1>5, Live
<1> QED BY <1>6 DEF k

\* A checkpoint just written is live.
LEMMA LiveNew ==
  ASSUME NEW l, NEW ev \in EventType, Logged(l), Logged(Append(l, ev)), ev.kind = "pending_state"
  PROVE  Len(l) + 1 \in LivePending(Append(l, ev))
<1> DEFINE k == Append(l, ev)
<1>1. DOMAIN l = 1..Len(l) /\ Len(l) \in Nat /\ DOMAIN k = 1..(Len(l) + 1)
  BY Appending DEF Logged
<1>2. At(k, "pending_state") = At(l, "pending_state") \cup {Len(l) + 1}
  BY AtMore
<1>3. Logged(k)
  OBVIOUS
<1> HIDE DEF k
<1>4. At(l, "pending_state") \subseteq 1..Len(l)
  BY <1>1 DEF At
<1>5. Len(l) + 1 \in LivePending(k)
  <2>1. \A q \in At(k, "pending_state") : Len(l) + 1 >= q
    BY <1>1, <1>2, <1>4
  <2>2. \A i \in DOMAIN k : ~(i > Len(l) + 1)
    BY <1>1
  <2> QED BY <1>2, <1>3, <2>1, <2>2, Live
<1> QED BY <1>5 DEF k

\* An event other than a compaction takes no message from the context.
LEMMA KeepsPlain ==
  ASSUME NEW l, NEW ev \in EventType, Logged(l), Logged(Append(l, ev)),
         ev.kind # "compaction_applied", Keeps(l)
  PROVE  Keeps(Append(l, ev))
<1> DEFINE k == Append(l, ev)
           last == LastCompaction(l)
<1>1. /\ DOMAIN l = 1..Len(l) /\ Len(l) \in Nat
      /\ DOMAIN k = 1..(Len(l) + 1)
      /\ \A i \in 1..Len(l) : k[i] = l[i]
      /\ k[Len(l) + 1] = ev
  BY Appending DEF Logged
<1>2. LastCompaction(k) = last
  BY LastMore
<1>3. At(l, "turn_failed") \subseteq At(k, "turn_failed")
  BY AtMore
<1>4. last.through \in 0..Len(l)
  BY Boundary
<1>5. \A p \in Open(k) : p # Len(l) + 1 =>
        p \in Open(l) /\ p \in 1..Len(l) /\ ev.kind \notin {"assistant_turn", "pending_state"}
  BY OpenBefore
<1>6. /\ ev.kind = "pending_state" => Len(l) + 1 \in LivePending(k)
      /\ \A p \in LivePending(l) :
           ev.kind # "pending_state" /\ ~Supersedes(ev, p) => p \in LivePending(k)
  BY LiveAfter, LiveNew
<1> HIDE DEF k, last
<1>7. SUFFICES ASSUME FailureFree(k) PROVE Keeps(k)
  BY DEF Keeps, k
<1>8. /\ last.covers \subseteq 1..last.through
      /\ \A i \in 1..last.through :
           l[i].kind \in {"user_message", "assistant_turn", "turn_memory"} => i \in last.covers
      /\ Open(l) \subseteq Shown(l) \cup last.covers
  <2>1. FailureFree(l)
    BY <1>2, <1>3, <1>7 DEF FailureFree, last
  <2> QED BY <2>1 DEF Keeps, last
<1>9. \A i \in 1..last.through : k[i] = l[i]
  BY <1>1, <1>4
<1>10. ASSUME NEW p \in Open(k) PROVE p \in Shown(k) \cup last.covers
  <2>1. CASE p = Len(l) + 1
    <3>1. ev.kind = "pending_state"
      BY <1>1, <2>1 DEF Open, At
    <3> QED BY <1>1, <1>2, <1>4, <1>6, <2>1, <3>1 DEF Shown
  <2>2. CASE p # Len(l) + 1
    <3>1. /\ p \in Open(l) /\ p \in 1..Len(l) /\ ev.kind \notin {"assistant_turn", "pending_state"}
          /\ ~Supersedes(ev, p)
      BY <1>5, <2>2 DEF Supersedes
    <3>2. l[p].kind = "pending_state"
      BY <3>1 DEF Open, At
    <3>3. CASE p \in Shown(l)
      <4>1. p > last.through /\ p \in LivePending(l)
        BY <3>2, <3>3 DEF Shown, last
      <4>2. p \in LivePending(k)
        BY <1>6, <3>1, <4>1
      <4> QED BY <1>1, <1>2, <3>1, <4>1, <4>2 DEF Shown
    <3> QED BY <1>8, <3>1, <3>3
  <2> QED BY <2>1, <2>2
<1> QED BY <1>2, <1>8, <1>9, <1>10 DEF Keeps

\* A compaction renders every message it takes from the context, and every open partial.
LEMMA KeepsPlan ==
  ASSUME NEW l, NEW ev \in EventType, Logged(l), Logged(Append(l, ev)), NEW t \in Nat,
         ev \in Plans(l, t), ev.kind = "compaction_applied", ev.through \in 0..Len(l), Keeps(l)
  PROVE  Keeps(Append(l, ev))
<1> DEFINE k == Append(l, ev)
           last == LastCompaction(l)
<1>1. /\ DOMAIN l = 1..Len(l) /\ Len(l) \in Nat
      /\ DOMAIN k = 1..(Len(l) + 1)
      /\ \A i \in 1..Len(l) : k[i] = l[i]
      /\ k[Len(l) + 1] = ev
  BY Appending DEF Logged
<1>2. LastCompaction(k) = ev
  BY LastMore
<1>3. At(l, "turn_failed") \subseteq At(k, "turn_failed")
  BY AtMore
<1>4. last.through \in 0..Len(l)
  BY Boundary
<1>5. \A p \in Open(k) : p # Len(l) + 1 => p \in Open(l) /\ p \in 1..Len(l)
  BY OpenBefore
<1>6. \A p \in LivePending(l) : ~Supersedes(ev, p) => p \in LivePending(k)
  BY LiveAfter
<1> HIDE DEF k, last
<1>7. SUFFICES ASSUME FailureFree(k) PROVE Keeps(k)
  BY DEF Keeps, k
<1>8. At(l, "turn_failed") \cap ev.covers = {}
  BY <1>2, <1>3, <1>7 DEF FailureFree
<1>9. /\ ev.through > last.through
      /\ ev.covers = last.covers \cup UpTo(Counted(l), ev.through)
  BY <1>8, PlanCovers DEF last
<1>10. /\ last.covers \subseteq 1..last.through
       /\ \A i \in 1..last.through :
            l[i].kind \in {"user_message", "assistant_turn", "turn_memory"} => i \in last.covers
       /\ Open(l) \subseteq Shown(l) \cup last.covers
  <2>1. FailureFree(l)
    BY <1>8, <1>9 DEF FailureFree, last
  <2> QED BY <2>1 DEF Keeps, last
<1>11. ev.covers \subseteq 1..ev.through
  <2>1. UpTo(Counted(l), ev.through) \subseteq 1..ev.through
    BY <1>1 DEF UpTo, Counted, Shown
  <2>2. 1..last.through \subseteq 1..ev.through
    BY <1>4, <1>9
  <2> QED BY <1>9, <1>10, <2>1, <2>2
<1>12. ASSUME NEW i \in 1..ev.through,
              k[i].kind \in {"user_message", "assistant_turn", "turn_memory"}
       PROVE  i \in ev.covers
  <2>1. i \in 1..Len(l) /\ l[i] = k[i] /\ (i \in 1..last.through \/ i > last.through) /\ i <= ev.through
    BY <1>1, <1>4
  <2>2. CASE i \in 1..last.through
    BY <1>9, <1>10, <1>12, <2>1, <2>2
  <2>3. CASE i > last.through
    <3>1. i \in Shown(l) /\ i \notin At(l, "turn_failed")
      BY <1>1, <1>12, <2>1, <2>3 DEF Shown, At, last
    <3> QED BY <1>9, <2>1, <3>1 DEF Counted, UpTo
  <2> QED BY <2>1, <2>2, <2>3
<1>13. ASSUME NEW p \in Open(k) PROVE p \in Shown(k) \cup ev.covers
  <2>1. p # Len(l) + 1
    BY <1>1 DEF Open, At
  <2>2. p \in Open(l) /\ p \in 1..Len(l)
    BY <1>5, <2>1
  <2>3. l[p].kind = "pending_state"
    BY <2>2 DEF Open, At
  <2>4. CASE p \in last.covers
    BY <1>9, <2>4
  <2>5. CASE p \in Shown(l) /\ p <= ev.through
    <3>1. p \in Counted(l)
      BY <2>3, <2>5 DEF Counted, At
    <3> QED BY <1>9, <2>5, <3>1 DEF UpTo
  <2>6. CASE p \in Shown(l) /\ p > ev.through
    <3>1. p \in LivePending(l)
      BY <2>3, <2>6 DEF Shown
    <3>2. ~Supersedes(ev, p)
      BY <2>2, <2>6 DEF Supersedes
    <3>3. p \in LivePending(k)
      BY <1>6, <3>1, <3>2
    <3> QED BY <1>1, <1>2, <2>2, <2>6, <3>3 DEF Shown
  <2>7. p <= ev.through \/ p > ev.through
    BY <1>1, <2>2
  <2> QED BY <1>10, <2>2, <2>4, <2>5, <2>6, <2>7
<1> QED BY <1>2, <1>11, <1>12, <1>13 DEF Keeps

LEMMA KeepsStep ==
  ASSUME IInv, [Next]_vars
  PROVE  Keeps(log)'
<1>1. Logged(log) /\ Keeps(log) /\ begun \in Nat
  BY LoggedLog, BegunType DEF IInv, TypeInv
<1>2. CASE log' = log
  BY <1>1, <1>2
<1>3. CASE Writes
  <2>1. PICK ev : /\ Fits(ev, begun) /\ log' = Append(log, ev)
                  /\ ev.kind = "compaction_applied" => ev \in Plans(log, begun)
    BY <1>3 DEF Writes
  <2>2. ev \in EventType /\ ev.through \in 0..Len(log) /\ ev.covers \subseteq 1..Len(log)
    BY <2>1 DEF Fits
  <2>3. Logged(Append(log, ev))
    BY <1>1, <2>2, LoggedMore
  <2>4. Keeps(Append(log, ev))
    BY <1>1, <2>1, <2>2, <2>3, KeepsPlain, KeepsPlan
  <2> QED BY <2>1, <2>4
<1> QED BY <1>2, <1>3, LogStep

-----------------------------------------------------------------------------
(* The theorems *)

LEMMA Start == Init => IInv
<1> SUFFICES ASSUME Init PROVE IInv
  OBVIOUS
<1>1. log \in Seq(EventType) /\ DOMAIN log = {}
  BY EmptySeq DEF Init
<1>2. LogType
  BY <1>1 DEF LogType
<1>3. StateType
  <2>1. turn \in [Requests -> TurnRecord]
    BY RecordType DEF Init
  <2> QED BY <2>1, BoundsType DEF Init, StateType
<1>4. TypeInv
  BY <1>1, <1>2, <1>3, TypeParts DEF TypeInv
<1>5. SlotInv /\ AnswerInv /\ RecordInv
  BY ChatConstants DEF Init, SlotInv, AnswerInv, RecordInv, Active, After, Idle
<1>6. TurnByTurn /\ EndedIsRecorded
  BY <1>1 DEF Init, TurnByTurn, EndedIsRecorded
<1>7. Keeps(log)
  <2>1. \A kind : At(log, kind) = {}
    BY <1>1 DEF At
  <2>2. LastCompaction(log).through = 0 /\ LastCompaction(log).covers = {} /\ Open(log) = {}
    BY <2>1, NoneYet DEF Open
  <2> QED BY <2>2 DEF Keeps
<1> QED BY <1>4, <1>5, <1>6, <1>7 DEF IInv, LogTellsEachTurn

\* The inductive invariant holds throughout.
THEOREM Invariant == Spec => []IInv
<1>1. IInv /\ [Next]_vars => IInv'
  <2> SUFFICES ASSUME IInv, [Next]_vars PROVE IInv'
    OBVIOUS
  <2> QED BY TypeStep, SlotStep, AnswerStep, RecordStep, OrderStep, EndedStep, KeepsStep
         DEF IInv, LogTellsEachTurn
<1> QED BY <1>1, Start, PTL DEF Spec

\* The log, the slot and the turns keep their types (Append, turnBegin, turnDone).
THEOREM TypeCorrect == Spec => []TypeOK
<1>1. IInv => TypeOK
  BY DEF IInv, TypeInv
<1> QED BY <1>1, Invariant, PTL

\* The log tells one turn after the other, and a session whose slot is free holds what is left
\* of every turn that streamed: its answer, its failure or its whole partial (persistTurn).
THEOREM TellsEachTurn == Spec => []LogTellsEachTurn
<1>1. IInv => LogTellsEachTurn
  BY DEF IInv
<1> QED BY <1>1, Invariant, PTL

\* What was said reaches the model (LLMContext, planCompaction): a message leaves the context
\* only for a summary that renders it and is not shown beside it, and the partial of a turn
\* that nothing has answered stays in it, as long as no failure note was summarized.
THEOREM LosesNothing == Spec => []ContextLosesNothing
<1>1. IInv => ContextLosesNothing
  <2> SUFFICES ASSUME IInv PROVE ContextLosesNothing
    OBVIOUS
  <2>1. Keeps(log) /\ LastCompaction(log).through \in Nat /\ DOMAIN log = 1..Len(log)
        /\ Len(log) \in Nat
    BY LoggedLog, Positions, Boundary DEF IInv
  <2>2. ASSUME FailureFree(log), LastCompaction(log).covers \subseteq 1..LastCompaction(log).through
        PROVE  LastCompaction(log).covers \cap Shown(log) = {}
    BY <2>1, <2>2 DEF Shown
  <2> QED BY <2>1, <2>2 DEF Keeps, FailureFree, Open, ContextLosesNothing
<1> QED BY <1>1, Invariant, PTL
=============================================================================
