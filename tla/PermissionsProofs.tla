-------------------------- MODULE PermissionsProofs --------------------------
(***************************************************************************)
(* Theorems about permission prompts: for any number of parallel calls,    *)
(* prompts, turns, restarts, cancelled turns and failed writes.            *)
(***************************************************************************)
EXTENDS Permissions, FiniteSetTheorems, TLAPS

-----------------------------------------------------------------------------
(* The inductive invariant. *)

\* An asker that may still open a prompt, that is at work on one, that holds its gate.
Early == {"start", "gate", "redeem", "adopt", "register", "open"}
AtPrompt == {"register", "wait", "forget", "close"}
Inside == {"redeem", "adopt", "register", "open", "insert", "wait", "forget", "close", "decided"}

\* The answer of prompt i has been given to asker a, whose call has not run yet.
Using(a, i) ==
  /\ ask[a].prompt = i
  /\ ask[a].answer \in Granting
  /\ \/ ask[a].pc \in {"wait", "forget", "close", "decided"}
     \/ ask[a].pc = "run" /\ ask[a].by = "answer"

\* What an asker has when it gets to each of its steps.
AskInv ==
  \A a \in Askers :
    /\ ask[a].pc \notin {"idle", "done"} => ask[a].call \in Calls
    /\ ask[a].pc \in Early \cup {"insert"} => ask[a].answer = ""
    /\ ask[a].pc \in AtPrompt \cup {"insert"} => ask[a].prompt \in Ids
    /\ ask[a].pc = "run" /\ ask[a].by = "answer" => ask[a].answer \in Granting
    /\ ask[a].pc \in {"decided", "run"} /\ ask[a].answer \in Granting => ask[a].prompt \in Ids

\* Every asker that has not opened a prompt yet can still do so.
Opening == {a \in Askers : ask[a].pc \in Early}

RoomInv == opened + Cardinality(Opening) <= MaxPrompts

ResolverInv == resolver # NoResolve => resolver.id \in Ids /\ resolver.decision \in Decisions

TypeInv == TypeOK /\ AskInv /\ RoomInv /\ ResolverInv

\* Whoever is past the gate of its subject holds it.
GateInv == \A a \in Askers : ask[a].pc \in Inside => gate[SubjectOf(a)] = a

\* A row is written once its prompt is opened, and decided once it is resolved.
RowInv ==
  \A i \in Ids :
    /\ i > opened => row[i].status = "none"
    /\ row[i].status # "resolved" => row[i].decision = "" /\ ~row[i].carry
    /\ row[i].carry => row[i].decision \in Granting

\* An asker is at work on a prompt of its own call, which has been written, or is about
\* to write the one it has registered for.
PromptAt(a) ==
  /\ ask[a].pc \in AtPrompt =>
       row[ask[a].prompt].status # "none" /\ row[ask[a].prompt].call = ask[a].call
  /\ ask[a].pc = "insert" =>
       /\ row[ask[a].prompt].status = "none" /\ waiter[ask[a].prompt] = a
       /\ ask[a].prompt <= opened

\* The prompt a mission shows and the one its sweep denies have been written, and so has
\* that of an answer under way, whose waiter has been taken.
ShownInv ==
  /\ slot # 0 => row[slot].status # "none"
  /\ sweep # 0 => row[sweep].status # "none"
  /\ resolver # NoResolve => row[resolver.id].status # "none" /\ waiter[resolver.id] = None

PromptInv == (\A a \in Askers : PromptAt(a)) /\ ShownInv

\* An asker that waits is in the broker's map, or its answer is on the way.
WaitAt(a) ==
  ask[a].pc = "wait" /\ ask[a].answer = "" =>
    /\ row[ask[a].prompt].decision \notin {"once", "session", "deny"}
    /\ \/ waiter[ask[a].prompt] = a
       \/ resolver.live = a /\ resolver.id = ask[a].prompt

WaitInv == \A a \in Askers : WaitAt(a)

\* Every accepted answer is in one place at a time: kept for a later ask, with one asker,
\* or used by a call that ran.
Users(i) == {a \in Askers : Using(a, i)}
Keeps(i) == IF row[i].carry THEN 1 ELSE 0
CountAt(i) == ran[i] + Cardinality(Users(i)) + Keeps(i) <= given[i]

CountInv == \A i \in Ids : CountAt(i)

\* A prompt that has been answered takes no further answer, unless its row could not be
\* written: the row is resolved, and nobody waits for it.
Settled(i) ==
  /\ row[i].status = "resolved" /\ waiter[i] = None
  /\ resolver.id = i => resolver.live = None

OnceInv == \A i \in Ids : given[i] # 0 /\ i \notin unsaved => given[i] = 1 /\ Settled(i)

-----------------------------------------------------------------------------
(* Type correctness. *)

Pcs == {"idle", "start", "gate", "redeem", "adopt", "register", "open", "insert", "wait",
        "forget", "close", "decided", "run", "denied", "done"}

AskType ==
  [pc : Pcs, call : Calls \cup {None}, prompt : 0..MaxPrompts,
   answer : Decisions \cup {""}, by : {"none", "grant", "answer"}]

RowType ==
  [status : {"none", "pending", "resolved"}, call : Calls \cup {None},
   decision : Decisions \cup {""}, carry : BOOLEAN]

LEMMA Typed ==
  ASSUME TypeOK
  PROVE  ask \in [Askers -> AskType] /\ row \in [Ids -> RowType]
BY DEF TypeOK, AskType, Pcs, RowType

LEMMA Blank ==
  /\ NoAsk \in AskType
  /\ NoRow \in RowType
  /\ NoAsk.pc = "idle" /\ NoAsk.answer = "" /\ NoAsk.prompt = 0 /\ NoAsk.by = "none"
  /\ NoResolve \in [id : 0..MaxPrompts, decision : Decisions \cup {""}, live : Askers \cup {None}]
  /\ NoResolve.live = None /\ NoResolve.id = 0
BY BoundsAssumption DEF NoAsk, NoRow, NoResolve, AskType, Pcs, RowType

\* An asker that is past its start has a call, and the call a subject.
LEMMA HasSubject ==
  ASSUME AskInv, NEW a \in Askers, ask[a].pc \notin {"idle", "done"}
  PROVE  SubjectOf(a) \in Subjects
BY SubjectAssumption DEF AskInv, SubjectOf

\* Room is kept when an asker goes on, and used up by the one that opens a prompt.
LEMMA RoomStep ==
  ASSUME opened \in 0..MaxPrompts, RoomInv,
         \/ Opening' \subseteq Opening /\ opened' = opened
         \/ \E a \in Opening : Opening' = Opening \ {a} /\ opened' = opened + 1
  PROVE  RoomInv' /\ opened' \in 0..MaxPrompts
<1>1. IsFiniteSet(Opening)
  BY AskersAssumption, FS_Subset DEF Opening
<1>5. \A S \in SUBSET Opening : IsFiniteSet(S) /\ Cardinality(S) \in Nat
  BY <1>1, FS_Subset, FS_CardinalityType
<1>2. opened \in Nat /\ MaxPrompts \in Nat /\ Cardinality(Opening) \in Nat
  <2>1. Cardinality(Opening) \in Nat
    BY <1>5
  <2> QED BY <2>1, BoundsAssumption
<1>3. CASE Opening' \subseteq Opening /\ opened' = opened
  <2>1. Cardinality(Opening') \in Nat /\ Cardinality(Opening') <= Cardinality(Opening)
    BY <1>5, <1>1, <1>3, FS_Subset
  <2> QED BY <1>2, <1>3, <2>1 DEF RoomInv
<1>4. ASSUME NEW a \in Opening, Opening' = Opening \ {a}, opened' = opened + 1
      PROVE  RoomInv' /\ opened' \in 0..MaxPrompts
  <2>1. Cardinality(Opening') = Cardinality(Opening) - 1
    BY <1>1, <1>4, FS_RemoveElement
  <2>2. Cardinality(Opening') \in Nat
    BY <1>5, <1>4
  <2> QED BY <1>2, <1>4, <2>1, <2>2 DEF RoomInv
<1> QED BY <1>3, <1>4

\* What one asker has, in a form that speaks of its record only.
Has(k) ==
  /\ k.pc \notin {"idle", "done"} => k.call \in Calls
  /\ k.pc \in Early \cup {"insert"} => k.answer = ""
  /\ k.pc \in AtPrompt \cup {"insert"} => k.prompt \in Ids
  /\ k.pc = "run" /\ k.by = "answer" => k.answer \in Granting
  /\ k.pc \in {"decided", "run"} /\ k.answer \in Granting => k.prompt \in Ids

\* One asker moves, and has what it needs where it gets.
LEMMA AskMoves ==
  ASSUME TypeOK, AskInv, NEW a \in Askers, NEW k \in AskType, Has(k),
         ask' = [ask EXCEPT ![a] = k]
  PROVE  /\ ask' \in [Askers -> AskType]
         /\ AskInv'
         /\ ask'[a] = k
         /\ \A b \in Askers \ {a} : ask'[b] = ask[b]
         /\ Opening' \subseteq Opening \/ (k.pc \in Early /\ ask[a].pc \notin Early)
         /\ k.pc \notin Early => Opening' = Opening \ {a}
<1>1. /\ ask' \in [Askers -> AskType] /\ ask'[a] = k
      /\ \A b \in Askers \ {a} : ask'[b] = ask[b]
  BY Typed
<1>2. AskInv'
  BY <1>1 DEF AskInv, Has
<1> QED BY <1>1, <1>2 DEF Opening

\* The variables other than opened and ask have their types.
OtherType ==
  /\ kind \in Kinds /\ grants \subseteq Subjects /\ slot \in 0..MaxPrompts
  /\ row \in [Ids -> RowType]
  /\ waiter \in [Ids -> Askers \cup {None}] /\ gate \in [Subjects -> Askers \cup {None}]
  /\ resolver \in [id : 0..MaxPrompts, decision : Decisions \cup {""}, live : Askers \cup {None}]
  /\ turn \in {"none", "running", "cancelled"} /\ parked \subseteq Askers
  /\ expiry \subseteq Ids /\ sweep \in 0..MaxPrompts /\ clearing \subseteq Ids
  /\ turns \in 0..MaxTurns /\ faults \in 0..MaxFaults
  /\ given \in [Ids -> Nat] /\ unsaved \subseteq Ids /\ ran \in [Ids -> Nat]
  /\ ResolverInv

LEMMA TypeParts ==
  /\ TypeInv => /\ OtherType /\ opened \in 0..MaxPrompts /\ ask \in [Askers -> AskType]
                /\ AskInv /\ RoomInv
  /\ OtherType' /\ opened' \in 0..MaxPrompts /\ ask' \in [Askers -> AskType] /\ AskInv' /\ RoomInv'
       => TypeInv'
BY DEF TypeInv, TypeOK, OtherType, AskType, Pcs, RowType

\* An asker's step that does not take it back to where it may open a prompt.
LEMMA AskerType ==
  ASSUME TypeInv, NEW a \in Askers,
         ask' = [ask EXCEPT ![a] = ask'[a]], ask'[a] \in AskType, Has(ask'[a]),
         ask'[a].pc \in Early => ask[a].pc \in Early, opened' = opened, OtherType'
  PROVE  TypeInv'
<1>1. /\ ask' \in [Askers -> AskType] /\ AskInv'
      /\ Opening' \subseteq Opening
  BY AskMoves DEF TypeInv
<1>2. opened \in 0..MaxPrompts /\ RoomInv
  BY TypeParts
<1>3. RoomInv' /\ opened' \in 0..MaxPrompts
  BY <1>1, <1>2, RoomStep
<1> QED BY <1>1, <1>3, TypeParts

\* The record an asker has is one of the records an asker may have.
LEMMA AskRecord ==
  ASSUME NEW k \in AskType, NEW p \in Pcs
  PROVE  /\ [k EXCEPT !.pc = p] \in AskType
         /\ \A b \in {"none", "grant", "answer"} : [k EXCEPT !.pc = p, !.by = b] \in AskType
         /\ \A i \in 0..MaxPrompts : [k EXCEPT !.pc = p, !.prompt = i] \in AskType
         /\ \A d \in Decisions \cup {""} :
              /\ [k EXCEPT !.pc = p, !.answer = d] \in AskType
              /\ \A i \in 0..MaxPrompts : [k EXCEPT !.pc = p, !.prompt = i, !.answer = d] \in AskType
BY DEF AskType

LEMMA RowRecord ==
  ASSUME NEW r \in RowType
  PROVE  /\ [r EXCEPT !.carry = FALSE] \in RowType
         /\ \A d \in Decisions, b \in BOOLEAN :
              [r EXCEPT !.status = "resolved", !.decision = d, !.carry = b] \in RowType
         /\ \A c \in Calls : [NoRow EXCEPT !.status = "pending", !.call = c] \in RowType
BY DEF RowType, NoRow

\* A goto writes the asker's pc only.
LEMMA GotoRecord ==
  ASSUME ask \in [Askers -> AskType], NEW a \in Askers, NEW p \in Pcs, Goto(a, p)
  PROVE  /\ ask' = [ask EXCEPT ![a] = ask'[a]]
         /\ ask'[a] = [ask[a] EXCEPT !.pc = p]
         /\ ask'[a] \in AskType
BY AskRecord DEF Goto

LEMMA GateSteps ==
  ASSUME TypeInv, NEW a \in Askers, Start(a) \/ EnterGate(a) \/ LeaveGate(a)
  PROVE  TypeInv'
<1>1. /\ ask \in [Askers -> AskType] /\ OtherType /\ ask[a] \in AskType
      /\ AskInv /\ Has(ask[a])
  BY TypeParts DEF AskInv, Has
<1>2. opened' = opened
  BY DEF Start, EnterGate, LeaveGate, store
<1>3. OtherType'
  <2>1. gate' \in [Subjects -> Askers \cup {None}]
    BY <1>1 DEF Start, EnterGate, LeaveGate, broker, OtherType
  <2> QED BY <1>1, <2>1 DEF OtherType, ResolverInv, Start, EnterGate, LeaveGate, store, broker,
            tickers, history
<1>4. CASE \E p \in {"denied", "gate", "redeem"} : Goto(a, p) /\ ask[a].pc \in {"start", "gate"}
  <2>1. PICK p \in {"denied", "gate", "redeem"} : Goto(a, p)
    BY <1>4
  <2>2. /\ ask' = [ask EXCEPT ![a] = ask'[a]]
        /\ ask'[a] = [ask[a] EXCEPT !.pc = p]
        /\ ask'[a] \in AskType
    BY <1>1, <2>1, GotoRecord DEF Pcs
  <2>3. Has(ask'[a])
    BY <1>1, <1>4, <2>2 DEF Has, AskType, Early, AtPrompt
  <2> QED BY <1>2, <1>3, <1>4, <2>2, <2>3, AskerType DEF AskType, Early
<1>5. CASE ask' = [ask EXCEPT ![a].pc = "run", ![a].by = "grant"] /\ ask[a].pc \in {"start", "gate"}
  <2>1. /\ ask' = [ask EXCEPT ![a] = ask'[a]]
        /\ ask'[a] = [ask[a] EXCEPT !.pc = "run", !.by = "grant"]
    BY <1>1, <1>5
  <2>2. ask'[a] \in AskType
    BY <1>1, <2>1, AskRecord DEF Pcs
  <2>3. Has(ask'[a]) /\ ask'[a].pc \notin Early
    BY <1>1, <1>5, <2>1 DEF Has, AskType, Early, AtPrompt, Granting
  <2> QED BY <1>2, <1>3, <2>1, <2>2, <2>3, AskerType
<1> QED BY <1>4, <1>5 DEF Start, EnterGate, LeaveGate

LEMMA ParkType ==
  ASSUME OtherType, NEW a \in Askers, NEW i \in 0..MaxPrompts, Parks(a, i) \/ Unparks(a)
  PROVE  slot' \in 0..MaxPrompts /\ parked' \subseteq Askers
<1>1. 0 \in 0..MaxPrompts
  BY BoundsAssumption
<1>2. CASE Parks(a, i)
  BY <1>1, <1>2 DEF OtherType, Parks
<1>3. CASE Unparks(a)
  BY <1>1, <1>3 DEF OtherType, Unparks
<1> QED BY <1>2, <1>3

\* Creating a prompt: the redeemed answer, the adopted prompt, the new one.
LEMMA PromptSteps ==
  ASSUME TypeInv, NEW a \in Askers,
         Redeem(a) \/ Adopt(a) \/ Register(a) \/ Open(a) \/ Insert(a)
  PROVE  TypeInv'
<1>1. /\ ask \in [Askers -> AskType] /\ OtherType /\ ask[a] \in AskType
      /\ AskInv /\ Has(ask[a]) /\ opened \in 0..MaxPrompts /\ RoomInv
  BY TypeParts DEF AskInv, Has
<1>2. row \in [Ids -> RowType] /\ waiter \in [Ids -> Askers \cup {None}]
  BY <1>1 DEF OtherType
<1>3. \A i \in Ids : row[i] \in RowType /\ row[i].decision \in Decisions \cup {""}
  BY <1>2 DEF RowType
<1>4. Ids \subseteq 0..MaxPrompts
  BY BoundsAssumption DEF Ids
<1>5. ASSUME NEW p \in {"adopt", "open", "wait"}, Goto(a, p), ask[a].pc \notin {"idle", "done"},
             p = "wait" => ask[a].pc \in {"register", "insert"}, ask[a].pc \in Early \/ p = "wait",
             opened' = opened, OtherType'
      PROVE  TypeInv'
  <2>1. /\ ask' = [ask EXCEPT ![a] = ask'[a]]
        /\ ask'[a] = [ask[a] EXCEPT !.pc = p]
        /\ ask'[a] \in AskType
    <3>1. p \in Pcs /\ Goto(a, p) /\ ask \in [Askers -> AskType]
      BY <1>1, <1>5 DEF Pcs
    <3> QED BY <3>1, GotoRecord, Zenon
  <2>2. Has(ask'[a]) /\ (ask'[a].pc \in Early => ask[a].pc \in Early)
    BY <1>1, <1>5, <2>1 DEF Has, AskType, Early, AtPrompt
  <2> QED BY <1>5, <2>1, <2>2, AskerType
<1>6. ASSUME NEW i \in Ids, ask[a].pc \in {"redeem", "register"},
             ask' = [ask EXCEPT ![a] = [ask[a] EXCEPT !.pc = "wait", !.prompt = i,
                                                      !.answer = row[i].decision]],
             opened' = opened, OtherType'
      PROVE  TypeInv'
  <2>1. /\ ask' = [ask EXCEPT ![a] = ask'[a]]
        /\ ask'[a] = [ask[a] EXCEPT !.pc = "wait", !.prompt = i, !.answer = row[i].decision]
    BY <1>1, <1>6
  <2>2. ask'[a] \in AskType
    <3>1. i \in 0..MaxPrompts /\ row[i].decision \in Decisions \cup {""}
      BY <1>3, <1>4
    <3> QED BY <1>1, <2>1, <3>1 DEF AskType, Pcs
  <2>3. Has(ask'[a]) /\ ask'[a].pc \notin Early
    BY <1>1, <1>6, <2>1 DEF Has, AskType, Early, AtPrompt
  <2> QED BY <1>6, <2>1, <2>2, <2>3, AskerType
<1>7. CASE Redeem(a)
  <2>1. opened' = opened
    BY <1>7 DEF Redeem
  <2>2. CASE Redeemable(ask[a].call) = {}
    <3>1. OtherType'
      BY <1>1, <1>7, <2>2 DEF Redeem, OtherType, ResolverInv, broker, tickers, history
    <3> QED BY <1>5, <1>7, <2>1, <2>2, <3>1 DEF Redeem, Early
  <2>3. CASE Redeemable(ask[a].call) # {}
    <3>1. PICK i \in Redeemable(ask[a].call) :
            /\ row' = [row EXCEPT ![i].carry = FALSE]
            /\ Parks(a, i)
            /\ ask' = [ask EXCEPT ![a].pc = "wait", ![a].prompt = i, ![a].answer = row[i].decision]
      BY <1>7, <2>3 DEF Redeem
    <3>2. i \in Ids
      BY DEF Redeemable
    <3>3. row' \in [Ids -> RowType]
      BY <1>2, <1>3, <3>1, <3>2, RowRecord
    <3>4. slot' \in 0..MaxPrompts /\ parked' \subseteq Askers
      BY <1>1, <1>4, <3>1, <3>2, ParkType
    <3>5. OtherType'
      BY <1>1, <1>7, <3>3, <3>4 DEF Redeem, OtherType, ResolverInv, broker, tickers, history
    <3>6. ask[a].pc = "redeem"
      BY <1>7 DEF Redeem
    <3>7. ask' = [ask EXCEPT ![a] = [ask[a] EXCEPT !.pc = "wait", !.prompt = i,
                                                   !.answer = row[i].decision]]
      BY <1>1, <3>1
    <3> QED BY <1>6, <2>1, <3>2, <3>5, <3>6, <3>7
  <2> QED BY <2>2, <2>3
<1>8. CASE Adopt(a)
  <2>1. opened' = opened /\ OtherType'
    BY <1>1, <1>8 DEF Adopt, OtherType, ResolverInv, store, broker, tickers, history
  <2>2. CASE Adoptable(ask[a].call) = {}
    BY <1>5, <1>8, <2>1, <2>2 DEF Adopt, Early
  <2>3. CASE Adoptable(ask[a].call) # {}
    <3>1. PICK i \in Adoptable(ask[a].call) :
            ask' = [ask EXCEPT ![a].pc = "register", ![a].prompt = i]
      BY <1>8, <2>3 DEF Adopt
    <3>2. i \in Ids
      BY DEF Adoptable
    <3>3. /\ ask' = [ask EXCEPT ![a] = ask'[a]]
          /\ ask'[a] = [ask[a] EXCEPT !.pc = "register", !.prompt = i]
      BY <1>1, <3>1
    <3>4. ask'[a] \in AskType
      <4>1. i \in 0..MaxPrompts
        BY <1>4, <3>2
      <4> QED BY <1>1, <3>3, <4>1 DEF AskType, Pcs
    <3>5. Has(ask'[a]) /\ ask[a].pc \in Early
      BY <1>1, <1>8, <3>2, <3>3 DEF Adopt, Has, AskType, Early, AtPrompt
    <3> QED BY <2>1, <3>3, <3>4, <3>5, AskerType
  <2> QED BY <2>2, <2>3
<1>9. CASE Register(a)
  <2> DEFINE i == ask[a].prompt
  <2>1. opened' = opened /\ i \in Ids /\ ask[a].pc = "register"
    BY <1>1, <1>9 DEF Register, Has, AtPrompt
  <2>2. row' \in [Ids -> RowType]
    <3>1. [row[i] EXCEPT !.carry = FALSE] \in RowType
      BY <1>3, <2>1, RowRecord
    <3>2. row' = row \/ row' = [row EXCEPT ![i] = [row[i] EXCEPT !.carry = FALSE]]
      BY <1>2, <1>9 DEF Register
    <3> QED BY <1>2, <2>1, <3>1, <3>2
  <2>3. waiter' \in [Ids -> Askers \cup {None}]
    BY <1>2, <1>9, <2>1 DEF Register
  <2>4. slot' \in 0..MaxPrompts /\ parked' \subseteq Askers
    <3>1. CASE Parks(a, i)
      BY <1>1, <1>4, <2>1, <3>1, ParkType
    <3>2. CASE UNCHANGED <<slot, parked>>
      BY <1>1, <3>2 DEF OtherType
    <3> QED BY <1>9, <3>1, <3>2 DEF Register
  <2>5. OtherType'
    BY <1>1, <1>9, <2>2, <2>3, <2>4 DEF Register, OtherType, ResolverInv, tickers, history
  <2>6. CASE ask' = [ask EXCEPT ![a].pc = "wait", ![a].answer = row[i].decision]
    <3>1. ask' = [ask EXCEPT ![a] = [ask[a] EXCEPT !.pc = "wait", !.prompt = i,
                                                      !.answer = row[i].decision]]
      BY <1>1, <2>6 DEF AskType
    <3> QED BY <1>6, <2>1, <2>5, <3>1
  <2>7. CASE Goto(a, "wait") \/ Goto(a, "open")
    BY <1>5, <2>1, <2>5, <2>7 DEF Early
  <2> QED BY <1>9, <2>6, <2>7 DEF Register
<1>10. CASE Open(a)
  <2>1. a \in Opening /\ opened' = opened + 1
    BY <1>10 DEF Open, Opening, Early
  <2>2. 1 <= Cardinality(Opening) /\ Cardinality(Opening) \in Nat
    <3>1. IsFiniteSet(Opening)
      BY AskersAssumption, FS_Subset DEF Opening
    <3>2. Cardinality(Opening) \in Nat
      BY <3>1, FS_CardinalityType
    <3>3. Cardinality(Opening) # 0
      BY <2>1, <3>1, FS_EmptySet
    <3> QED BY <3>2, <3>3
  <2>3. opened' \in Ids
    BY <1>1, <2>1, <2>2, BoundsAssumption DEF RoomInv, Ids
  <2>4. waiter' \in [Ids -> Askers \cup {None}]
    BY <1>2, <1>10, <2>3 DEF Open
  <2>5. OtherType'
    BY <1>1, <1>10, <2>4 DEF Open, OtherType, ResolverInv, tickers, history
  <2>6. /\ ask' = [ask EXCEPT ![a] = ask'[a]]
        /\ ask'[a] = [ask[a] EXCEPT !.pc = "insert", !.prompt = opened']
    BY <1>1, <1>10 DEF Open
  <2>7. ask'[a] \in AskType
    <3>1. opened' \in 0..MaxPrompts
      BY <1>4, <2>3
    <3> QED BY <1>1, <2>6, <3>1 DEF AskType, Pcs
  <2>8. Has(ask'[a]) /\ ask'[a].pc \notin Early
    BY <1>1, <1>10, <2>3, <2>6 DEF Open, Has, AskType, Early, AtPrompt
  <2>9. ask' \in [Askers -> AskType] /\ AskInv' /\ Opening' = Opening \ {a}
    <3>1. TypeOK
      BY DEF TypeInv
    <3> QED BY <1>1, <2>6, <2>7, <2>8, <3>1, AskMoves
  <2>10. RoomInv' /\ opened' \in 0..MaxPrompts
    BY <1>1, <2>1, <2>9, RoomStep
  <2> QED BY <2>5, <2>9, <2>10, TypeParts
<1>11. CASE Insert(a)
  <2> DEFINE i == ask[a].prompt
  <2>1. i \in Ids /\ ask[a].call \in Calls /\ ask[a].pc = "insert" /\ opened' = opened
    BY <1>1, <1>11 DEF Insert, Has
  <2>2. row' \in [Ids -> RowType]
    BY <1>2, <1>3, <1>11, <2>1, RowRecord DEF Insert
  <2>3. slot' \in 0..MaxPrompts /\ parked' \subseteq Askers
    BY <1>1, <1>4, <1>11, <2>1, ParkType DEF Insert
  <2>4. OtherType'
    BY <1>1, <1>11, <2>2, <2>3 DEF Insert, OtherType, ResolverInv, broker, tickers, history
  <2> QED BY <1>5, <1>11, <2>1, <2>4 DEF Insert, Early
<1> QED BY <1>7, <1>8, <1>9, <1>10, <1>11

\* The end of an ask, and the call itself.
LEMMA WaitSteps ==
  ASSUME TypeInv, NEW a \in Askers,
         CreateFails(a) \/ Receive(a) \/ GiveUp(a) \/ Forget(a) \/ Close(a) \/ Decide(a) \/ Finish(a)
  PROVE  TypeInv'
<1>1. /\ ask \in [Askers -> AskType] /\ OtherType /\ ask[a] \in AskType
      /\ AskInv /\ Has(ask[a])
  BY TypeParts DEF AskInv, Has
<1>2. /\ row \in [Ids -> RowType] /\ waiter \in [Ids -> Askers \cup {None}]
      /\ faults \in 0..MaxFaults /\ grants \subseteq Subjects
      /\ gate \in [Subjects -> Askers \cup {None}] /\ ran \in [Ids -> Nat]
  BY <1>1 DEF OtherType
<1>3. ASSUME NEW p \in {"forget", "close", "decided", "denied"}, Goto(a, p),
             <<ask[a].pc, p>> \in {<<"wait", "forget">>, <<"forget", "close">>,
                                   <<"close", "decided">>, <<"decided", "denied">>},
             opened' = opened, OtherType'
      PROVE  TypeInv'
  <2>1. /\ ask' = [ask EXCEPT ![a] = ask'[a]]
        /\ ask'[a] = [ask[a] EXCEPT !.pc = p]
        /\ ask'[a] \in AskType
    <3>1. p \in Pcs /\ Goto(a, p) /\ ask \in [Askers -> AskType]
      BY <1>1, <1>3 DEF Pcs
    <3> QED BY <3>1, GotoRecord, Zenon
  <2>2. Has(ask'[a]) /\ ask'[a].pc \notin Early
    BY <1>1, <1>3, <2>1 DEF Has, AskType, Early, AtPrompt
  <2> QED BY <1>3, <2>1, <2>2, AskerType
<1>4. ASSUME NEW p \in {"forget", "decided"}, ask[a].pc \notin {"idle", "done"},
             p = "forget" => ask[a].pc = "wait",
             ask' = [ask EXCEPT ![a].pc = p, ![a].answer = "timeout"],
             opened' = opened, OtherType'
      PROVE  TypeInv'
  <2>1. /\ ask' = [ask EXCEPT ![a] = ask'[a]]
        /\ ask'[a] = [ask[a] EXCEPT !.pc = p, !.answer = "timeout"]
    BY <1>1, <1>4
  <2>2. ask'[a] \in AskType
    BY <1>1, <2>1 DEF AskType, Pcs, Decisions
  <2>3. Has(ask'[a]) /\ ask'[a].pc \notin Early
    BY <1>1, <1>4, <2>1 DEF Has, AskType, Early, AtPrompt, Granting
  <2> QED BY <1>4, <2>1, <2>2, <2>3, AskerType
<1>5. CASE CreateFails(a)
  <2>1. faults' \in 0..MaxFaults
    BY <1>2, <1>5, BoundsAssumption DEF CreateFails
  <2>2. waiter' \in [Ids -> Askers \cup {None}]
    BY <1>1, <1>2, <1>5 DEF CreateFails, Has
  <2>3. OtherType' /\ opened' = opened
    BY <1>1, <1>5, <2>1, <2>2 DEF CreateFails, OtherType, ResolverInv, store, tickers, history
  <2> QED BY <1>4, <1>5, <2>3 DEF CreateFails
<1>6. CASE Receive(a)
  <2>1. OtherType' /\ opened' = opened
    BY <1>1, <1>6 DEF Receive, OtherType, ResolverInv, store, broker, tickers, history
  <2> QED BY <1>3, <1>6, <2>1 DEF Receive
<1>7. CASE GiveUp(a)
  <2>1. OtherType' /\ opened' = opened
    BY <1>1, <1>7 DEF GiveUp, OtherType, ResolverInv, store, broker, tickers, history
  <2> QED BY <1>4, <1>7, <2>1 DEF GiveUp
<1>8. CASE Forget(a)
  <2>1. waiter' \in [Ids -> Askers \cup {None}]
    BY <1>1, <1>2, <1>8 DEF Forget, Has, AtPrompt
  <2>2. OtherType' /\ opened' = opened
    BY <1>1, <1>8, <2>1 DEF Forget, OtherType, ResolverInv, store, tickers, history
  <2> QED BY <1>3, <1>8, <2>2 DEF Forget
<1>9. CASE Close(a)
  <2> DEFINE i == ask[a].prompt
  <2>1. i \in Ids
    BY <1>1, <1>9 DEF Close, Has, AtPrompt
  <2>2. row' \in [Ids -> RowType]
    <3>1. Resolved(i, "timeout", FALSE) \in RowType
      BY <1>2, <2>1, RowRecord DEF Resolved, Decisions
    <3> QED BY <1>2, <1>9, <2>1, <3>1 DEF Close
  <2>3. faults' \in 0..MaxFaults
    BY <1>2, <1>9, BoundsAssumption DEF Close, Saves
  <2>4. OtherType' /\ opened' = opened
    BY <1>1, <1>9, <2>2, <2>3 DEF Close, OtherType, ResolverInv, broker, tickers, history
  <2> QED BY <1>3, <1>9, <2>4 DEF Close
<1>10. CASE Decide(a)
  <2>1. SubjectOf(a) \in Subjects
    BY <1>1, <1>10, HasSubject DEF Decide
  <2>2. grants' \subseteq Subjects /\ gate' \in [Subjects -> Askers \cup {None}]
    BY <1>2, <1>10, <2>1 DEF Decide
  <2>3. OtherType' /\ opened' = opened
    BY <1>1, <1>10, <2>2 DEF Decide, OtherType, ResolverInv, tickers, history
  <2>4. CASE ask[a].answer \in Granting
    <3>1. /\ ask' = [ask EXCEPT ![a] = ask'[a]]
          /\ ask'[a] = [ask[a] EXCEPT !.pc = "run", !.by = "answer"]
      BY <1>1, <1>10, <2>4 DEF Decide
    <3>2. ask'[a] \in AskType
      BY <1>1, <3>1 DEF AskType, Pcs
    <3>3. Has(ask'[a]) /\ ask'[a].pc \notin Early
      BY <1>1, <1>10, <2>4, <3>1 DEF Decide, Has, AskType, Early, AtPrompt
    <3> QED BY <2>3, <3>1, <3>2, <3>3, AskerType
  <2> QED BY <1>3, <1>10, <2>3, <2>4 DEF Decide
<1>11. CASE Finish(a)
  <2>1. ran' \in [Ids -> Nat]
    <3>1. CASE ask[a].pc = "run" /\ ask[a].by = "answer"
      <4>1. ask[a].prompt \in Ids
        BY <1>1, <3>1 DEF Has
      <4> QED BY <1>2, <1>11, <3>1, <4>1 DEF Finish
    <3> QED BY <1>2, <1>11, <3>1 DEF Finish
  <2>2. slot' \in 0..MaxPrompts /\ parked' \subseteq Askers
    <3>1. 0 \in 0..MaxPrompts
      BY BoundsAssumption
    <3> QED BY <1>1, <1>11, <3>1, ParkType DEF Finish
  <2>3. OtherType' /\ opened' = opened
    BY <1>1, <1>11, <2>1, <2>2 DEF Finish, OtherType, ResolverInv, broker, tickers
  <2>4. ask' = [ask EXCEPT ![a] = ask'[a]] /\ ask'[a] = [NoAsk EXCEPT !.pc = "done"]
    BY <1>1, <1>11 DEF Finish
  <2>5. ask'[a] \in AskType /\ Has(ask'[a]) /\ ask'[a].pc \notin Early
    <3>1. ask'[a] \in AskType
      BY <2>4, Blank, AskRecord DEF Pcs
    <3>2. ask'[a].pc = "done"
      BY <2>4 DEF NoAsk
    <3> QED BY <3>1, <3>2 DEF Has, Early, AtPrompt
  <2> QED BY <2>3, <2>4, <2>5, AskerType
<1> QED BY <1>5, <1>6, <1>7, <1>8, <1>9, <1>10, <1>11

\* Turns and restarts give every asker a fresh record.
LEMMA TurnSteps ==
  ASSUME TypeInv, BeginTurn \/ EndTurn \/ CancelTurn \/ Restart
  PROVE  TypeInv'
<1>1. /\ ask \in [Askers -> AskType] /\ OtherType
      /\ AskInv /\ opened \in 0..MaxPrompts /\ RoomInv
  BY TypeParts
<1>2. ASSUME ask' = [a \in Askers |-> NoAsk], opened' = opened, OtherType'
      PROVE  TypeInv'
  <2>1. ask' \in [Askers -> AskType]
    BY <1>2, Blank
  <2>2. AskInv' /\ Opening' = {}
    BY <1>2, Blank DEF AskInv, Opening, Early, AtPrompt
  <2>3. RoomInv' /\ opened' \in 0..MaxPrompts
    BY <1>1, <1>2, <2>2, RoomStep
  <2> QED BY <1>2, <2>1, <2>2, <2>3, TypeParts
<1>3. CASE BeginTurn
  <2>1. PICK some \in SUBSET Askers \ {{}} : \E c \in [some -> Calls] :
          /\ opened + Cardinality(some) <= MaxPrompts
          /\ ask' = [a \in Askers |-> IF a \in some THEN [NoAsk EXCEPT !.pc = "start", !.call = c[a]]
                                                    ELSE [NoAsk EXCEPT !.pc = "done"]]
    BY <1>3 DEF BeginTurn
  <2>2. PICK c \in [some -> Calls] :
          /\ opened + Cardinality(some) <= MaxPrompts
          /\ ask' = [a \in Askers |-> IF a \in some THEN [NoAsk EXCEPT !.pc = "start", !.call = c[a]]
                                                    ELSE [NoAsk EXCEPT !.pc = "done"]]
    BY <2>1
  <2>3. \A a \in some : c[a] \in Calls
    OBVIOUS
  <2>4. ASSUME NEW a \in Askers
        PROVE  /\ ask'[a] = IF a \in some THEN [NoAsk EXCEPT !.pc = "start", !.call = c[a]]
                                          ELSE [NoAsk EXCEPT !.pc = "done"]
               /\ ask'[a] \in AskType
               /\ Has(ask'[a])
               /\ ask'[a].pc \in Early <=> a \in some
    <3>1. ask'[a] = IF a \in some THEN [NoAsk EXCEPT !.pc = "start", !.call = c[a]]
                                  ELSE [NoAsk EXCEPT !.pc = "done"]
      BY <2>2
    <3>2. CASE a \in some
      <4>1. c[a] \in Calls /\ ask'[a] = [NoAsk EXCEPT !.pc = "start", !.call = c[a]]
        BY <2>3, <3>1, <3>2
      <4>2. /\ ask'[a].pc = "start" /\ ask'[a].call = c[a] /\ ask'[a].prompt = 0
            /\ ask'[a].answer = "" /\ ask'[a].by = "none"
        BY <4>1 DEF NoAsk
      <4>3. ask'[a] \in AskType
        BY <4>1, Blank DEF AskType, Pcs, NoAsk
      <4>4. Has(ask'[a])
        BY <4>1, <4>2 DEF Has, Early, AtPrompt
      <4>5. ask'[a].pc \in Early
        BY <4>2 DEF Early
      <4> QED BY <3>1, <3>2, <4>3, <4>4, <4>5
    <3>3. CASE a \notin some
      <4>1. ask'[a] = [NoAsk EXCEPT !.pc = "done"]
        BY <3>1, <3>3
      <4>2. ask'[a] \in AskType /\ ask'[a].pc = "done"
        BY <4>1, Blank DEF AskType, Pcs
      <4> QED BY <3>1, <3>3, <4>2 DEF Has, Early, AtPrompt
    <3> QED BY <3>2, <3>3
  <2>5. ask' \in [Askers -> AskType]
    BY <2>2, <2>4
  <2>6. AskInv' /\ Opening' = some
    BY <2>4 DEF AskInv, Has, Opening
  <2>7. OtherType' /\ opened' = opened
    <3>1. turns' \in 0..MaxTurns
      <4>1. turns \in 0..MaxTurns
        BY <1>1 DEF OtherType
      <4>2. turns < MaxTurns /\ turns' = turns + 1
        BY <1>3 DEF BeginTurn
      <4> QED BY <4>1, <4>2, BoundsAssumption
    <3> QED BY <1>1, <1>3, <3>1 DEF BeginTurn, OtherType, ResolverInv, store, broker, tickers, history
  <2>8. RoomInv'
    BY <2>2, <2>6, <2>7 DEF RoomInv
  <2> QED BY <1>1, <2>5, <2>6, <2>7, <2>8, TypeParts
<1>4. CASE EndTurn
  <2>1. OtherType' /\ opened' = opened
    BY <1>1, <1>4 DEF EndTurn, OtherType, ResolverInv, store, broker, tickers, history
  <2> QED BY <1>2, <1>4, <2>1 DEF EndTurn
<1>5. CASE CancelTurn
  <2>1. faults' \in 0..MaxFaults
    <3>1. faults \in 0..MaxFaults
      BY <1>1 DEF OtherType
    <3> QED BY <1>5, <3>1, BoundsAssumption DEF CancelTurn
  <2>2. OtherType' /\ opened' = opened /\ ask' = ask
    BY <1>1, <1>5, <2>1 DEF CancelTurn, OtherType, ResolverInv, store, broker, tickers, history
  <2> QED BY <1>1, <2>2, TypeParts DEF AskInv, RoomInv, Opening
<1>6. CASE Restart
  <2>1. faults' \in 0..MaxFaults
    <3>1. faults \in 0..MaxFaults
      BY <1>1 DEF OtherType
    <3> QED BY <1>6, <3>1, BoundsAssumption DEF Restart
  <2>2. /\ waiter' \in [Ids -> Askers \cup {None}] /\ gate' \in [Subjects -> Askers \cup {None}]
        /\ 0 \in 0..MaxPrompts
    BY <1>6, BoundsAssumption DEF Restart
  <2>3. ResolverInv' /\ resolver' \in [id : 0..MaxPrompts, decision : Decisions \cup {""},
                                       live : Askers \cup {None}]
    BY <1>6, Blank DEF Restart, ResolverInv
  <2>4. OtherType' /\ opened' = opened
    BY <1>1, <1>6, <2>1, <2>2, <2>3 DEF Restart, OtherType, store, history
  <2> QED BY <1>2, <1>6, <2>4 DEF Restart
<1> QED BY <1>3, <1>4, <1>5, <1>6

LEMMA TakeType ==
  ASSUME OtherType, NEW i \in Ids, NEW d \in Decisions, Take(i, d)
  PROVE  /\ waiter' \in [Ids -> Askers \cup {None}]
         /\ resolver' \in [id : 0..MaxPrompts, decision : Decisions \cup {""}, live : Askers \cup {None}]
         /\ ResolverInv'
<1>1. waiter \in [Ids -> Askers \cup {None}] /\ i \in 0..MaxPrompts
  <2>1. i \in 0..MaxPrompts
    BY BoundsAssumption DEF Ids
  <2> QED BY <2>1 DEF OtherType
<1>2. resolver' = [id |-> i, decision |-> d, live |-> waiter[i]]
  BY DEF Take
<1>3. waiter' \in [Ids -> Askers \cup {None}]
  BY <1>1 DEF Take
<1> QED BY <1>1, <1>2, <1>3 DEF ResolverInv

\* Answers, and the sweeps and tickers.
LEMMA AnswerSteps ==
  ASSUME TypeInv,
         \/ \E i \in Ids, d \in Decisions : Answer(i, d)
         \/ Deliver \/ SweepLists \/ SweepDenies \/ ExpireReads \/ ExpireWrites
         \/ \E i \in Ids : ClearSlot(i) \/ Lapse(i)
  PROVE  TypeInv'
<1>1. /\ ask \in [Askers -> AskType] /\ OtherType
      /\ AskInv /\ opened \in 0..MaxPrompts /\ RoomInv
  BY TypeParts
<1>2. /\ row \in [Ids -> RowType] /\ waiter \in [Ids -> Askers \cup {None}]
      /\ given \in [Ids -> Nat] /\ unsaved \subseteq Ids /\ faults \in 0..MaxFaults
      /\ clearing \subseteq Ids /\ slot \in 0..MaxPrompts
      /\ sweep \in 0..MaxPrompts
  BY <1>1 DEF OtherType
<1>3. 0 \in 0..MaxPrompts /\ "timeout" \in Decisions
  BY BoundsAssumption DEF Decisions
<1>4. ASSUME ask' = ask, opened' = opened, OtherType' PROVE TypeInv'
  BY <1>1, <1>4, TypeParts DEF AskInv, RoomInv, Opening
<1>5. ASSUME NEW i \in Ids, NEW d \in Decisions, Answer(i, d) PROVE TypeInv'
  <2>1. Take(i, d)
    BY <1>5 DEF Answer
  <2>2. OtherType' /\ opened' = opened /\ ask' = ask
    BY <1>1, <1>5, <2>1, TakeType DEF Answer, OtherType, store, tickers, history
  <2> QED BY <1>4, <2>2
<1>6. CASE Deliver
  <2> DEFINE i == resolver.id
             d == resolver.decision
             l == resolver.live
  <2>1. i \in Ids /\ d \in Decisions /\ l \in Askers \cup {None}
    BY <1>1, <1>6 DEF Deliver, ResolveFree, OtherType, ResolverInv
  <2>2. row' \in [Ids -> RowType]
    <3>1. Carried(l, d) \in BOOLEAN
      BY DEF Carried
    <3>2. Resolved(i, d, Carried(l, d)) \in RowType
      BY <1>2, <2>1, <3>1, RowRecord DEF Resolved
    <3>3. row' = row \/ row' = [row EXCEPT ![i] = Resolved(i, d, Carried(l, d))]
      BY <1>6 DEF Deliver
    <3> QED BY <1>2, <2>1, <3>2, <3>3
  <2>3. given' \in [Ids -> Nat] /\ unsaved' \subseteq Ids /\ faults' \in 0..MaxFaults
    <3>1. given' = given \/ given' = [given EXCEPT ![i] = @ + 1]
      BY <1>6 DEF Deliver
    <3>2. given' \in [Ids -> Nat]
      BY <1>2, <2>1, <3>1
    <3>3. unsaved' = unsaved \/ unsaved' = unsaved \cup {i}
      BY <1>6 DEF Deliver
    <3>4. faults' \in 0..MaxFaults
      BY <1>2, <1>6, BoundsAssumption DEF Deliver, Saves
    <3> QED BY <1>2, <2>1, <3>2, <3>3, <3>4
  <2>4. clearing' \subseteq Ids
    BY <1>2, <1>6, <2>1 DEF Deliver
  <2>5. OtherType' /\ opened' = opened
    BY <1>1, <1>6, <2>2, <2>3, <2>4, Blank DEF Deliver, OtherType, ResolverInv
  <2>6. CASE l = None
    BY <1>4, <1>6, <2>5, <2>6 DEF Deliver
  <2>7. CASE l # None
    <3>1. l \in Askers
      BY <2>1, <2>7
    <3>2. ask' = [ask EXCEPT ![l].answer = IF ask[l].pc = "wait" /\ ask[l].prompt = i THEN d ELSE @]
      BY <1>6, <2>7 DEF Deliver
    <3>3. /\ ask' = [ask EXCEPT ![l] = ask'[l]]
          /\ ask'[l] = [ask[l] EXCEPT !.answer =
                          IF ask[l].pc = "wait" /\ ask[l].prompt = i THEN d ELSE ask[l].answer]
      BY <1>1, <3>1, <3>2
    <3>4. ask'[l] \in AskType /\ ask'[l].pc = ask[l].pc
      <4>1. (IF ask[l].pc = "wait" /\ ask[l].prompt = i THEN d ELSE ask[l].answer)
              \in Decisions \cup {""}
        BY <1>1, <2>1, <3>1 DEF AskType
      <4>2. \A k \in AskType, v \in Decisions \cup {""} :
              [k EXCEPT !.answer = v] \in AskType /\ [k EXCEPT !.answer = v].pc = k.pc
        BY DEF AskType
      <4>3. ask[l] \in AskType
        BY <1>1, <3>1
      <4> DEFINE v == IF ask[l].pc = "wait" /\ ask[l].prompt = i THEN d ELSE ask[l].answer
      <4>4. ask'[l] = [ask[l] EXCEPT !.answer = v] /\ v \in Decisions \cup {""}
        BY <3>3, <4>1
      <4> HIDE DEF i, d, v
      <4>5. [ask[l] EXCEPT !.answer = v] \in AskType /\ [ask[l] EXCEPT !.answer = v].pc = ask[l].pc
        BY <4>2, <4>3, <4>4
      <4> QED BY <4>4, <4>5
    <3>5. Has(ask[l]) /\ ask[l] \in AskType
      BY <1>1, <3>1 DEF AskInv, Has
    <3>6. Has(ask'[l])
      BY <3>3, <3>5 DEF Has, AskType, AtPrompt, Early
    <3> QED BY <2>5, <3>1, <3>3, <3>4, <3>6, AskerType
  <2> QED BY <2>6, <2>7
<1>7. CASE SweepLists
  <2>1. OtherType' /\ opened' = opened /\ ask' = ask
    BY <1>1, <1>7 DEF SweepLists, OtherType, ResolverInv, store, broker, history
  <2> QED BY <1>4, <2>1
<1>8. CASE SweepDenies
  <2>1. sweep \in Ids /\ Take(sweep, "timeout")
    BY <1>2, <1>8, BoundsAssumption DEF SweepDenies, Ids
  <2>2. OtherType' /\ opened' = opened /\ ask' = ask
    BY <1>1, <1>3, <1>8, <2>1, TakeType DEF SweepDenies, OtherType, history
  <2> QED BY <1>4, <2>2
<1>9. CASE ExpireReads
  <2>1. Unattended \subseteq Ids
    BY DEF Unattended
  <2>2. OtherType' /\ opened' = opened /\ ask' = ask
    BY <1>1, <1>9, <2>1 DEF ExpireReads, OtherType, ResolverInv, store, broker, history
  <2> QED BY <1>4, <2>2
<1>10. CASE ExpireWrites
  <2>1. \A i \in Ids : Resolved(i, "timeout", FALSE) \in RowType
    BY <1>2, <1>3, RowRecord DEF Resolved
  <2>2. row' \in [Ids -> RowType]
    BY <1>2, <1>10, <2>1 DEF ExpireWrites
  <2>3. OtherType' /\ opened' = opened /\ ask' = ask
    BY <1>1, <1>10, <2>2 DEF ExpireWrites, OtherType, ResolverInv, broker, history
  <2> QED BY <1>4, <2>3
<1>11. ASSUME NEW i \in Ids, ClearSlot(i) PROVE TypeInv'
  <2>1. OtherType' /\ opened' = opened /\ ask' = ask
    BY <1>1, <1>2, <1>3, <1>11 DEF ClearSlot, OtherType, ResolverInv, broker, history
  <2> QED BY <1>4, <2>1
<1>12. ASSUME NEW i \in Ids, Lapse(i) PROVE TypeInv'
  <2>1. row' \in [Ids -> RowType]
    BY <1>2, <1>12, RowRecord DEF Lapse
  <2>2. OtherType' /\ opened' = opened /\ ask' = ask
    BY <1>1, <1>12, <2>1 DEF Lapse, OtherType, ResolverInv, broker, tickers, history
  <2> QED BY <1>4, <2>2
<1> QED BY <1>5, <1>6, <1>7, <1>8, <1>9, <1>10, <1>11, <1>12

LEMMA NextTypeInv == TypeInv /\ [Next]_vars => TypeInv'
<1> SUFFICES ASSUME TypeInv, [Next]_vars PROVE TypeInv'
  OBVIOUS
<1>1. CASE UNCHANGED vars
  <2>1. /\ ask \in [Askers -> AskType] /\ OtherType
        /\ AskInv /\ opened \in 0..MaxPrompts /\ RoomInv
    BY TypeParts
  <2>2. OtherType' /\ AskInv' /\ RoomInv' /\ ask' = ask /\ opened' = opened
    BY <1>1, <2>1 DEF vars, store, broker, tickers, history, OtherType, ResolverInv, AskInv,
                      RoomInv, Opening
  <2> QED BY <2>1, <2>2, TypeParts
<1> QED BY <1>1, GateSteps, PromptSteps, WaitSteps, TurnSteps, AnswerSteps DEF Next, AskerStep

LEMMA InitTypeInv == Init => TypeInv
<1> SUFFICES ASSUME Init PROVE TypeInv
  OBVIOUS
<1>1. 0 \in 0..MaxPrompts /\ 0 \in 0..MaxTurns /\ 0 \in 0..MaxFaults
  BY BoundsAssumption
<1>2. OtherType
  BY <1>1, Blank, SessionsAssumption DEF Init, OtherType, ResolverInv
<1>3. ask \in [Askers -> AskType] /\ AskInv /\ Opening = {}
  BY Blank DEF Init, AskInv, Opening, Early, AtPrompt
<1>4. RoomInv /\ opened \in 0..MaxPrompts
  BY <1>1, <1>3, FS_EmptySet, BoundsAssumption DEF Init, RoomInv
<1> QED BY <1>2, <1>3, <1>4 DEF TypeInv, TypeOK, OtherType, AskType, Pcs, RowType

\* Every row, waiter and asker has its type, and a turn never runs out of prompts, whatever
\* answers, sweeps, cancelled turns and restarts come between.
THEOREM TypeCorrect == Spec => []TypeOK
<1>1. TypeInv => TypeOK
  BY DEF TypeInv
<1> QED BY <1>1, InitTypeInv, NextTypeInv, PTL DEF Spec

-----------------------------------------------------------------------------
(* One prompt per subject. *)

\* One asker's record becomes the given one, and no other changes.
Becomes(a, p, i, d, b) ==
  /\ ask'[a].pc = p /\ ask'[a].prompt = i /\ ask'[a].answer = d /\ ask'[a].by = b
  /\ ask'[a].call = ask[a].call
  /\ \A o \in Askers \ {a} : ask'[o] = ask[o]

\* What each of an asker's steps leaves in its record.
LEMMA StartEffect ==
  ASSUME TypeInv, NEW a \in Askers, Start(a)
  PROVE  \/ Becomes(a, "run", ask[a].prompt, ask[a].answer, "grant")
         \/ Becomes(a, "denied", ask[a].prompt, ask[a].answer, ask[a].by)
         \/ Becomes(a, "gate", ask[a].prompt, ask[a].answer, ask[a].by)
<1>1. ask \in [Askers -> AskType] /\ ask[a] \in AskType
  BY TypeParts
<1>2. CASE ask' = [ask EXCEPT ![a].pc = "run", ![a].by = "grant"]
  BY <1>1, <1>2 DEF Becomes, AskType
<1>3. CASE Goto(a, "denied")
  BY <1>1, <1>3 DEF Goto, Becomes, AskType
<1>4. CASE Goto(a, "gate")
  BY <1>1, <1>4 DEF Goto, Becomes, AskType
<1> QED BY <1>2, <1>3, <1>4 DEF Start

LEMMA EnterGateEffect ==
  ASSUME TypeInv, NEW a \in Askers, EnterGate(a)
  PROVE  \/ Becomes(a, "run", ask[a].prompt, ask[a].answer, "grant")
         \/ Becomes(a, "redeem", ask[a].prompt, ask[a].answer, ask[a].by)
<1>1. ask \in [Askers -> AskType] /\ ask[a] \in AskType
  BY TypeParts
<1>2. CASE ask' = [ask EXCEPT ![a].pc = "run", ![a].by = "grant"]
  BY <1>1, <1>2 DEF Becomes, AskType
<1>3. CASE Goto(a, "redeem")
  BY <1>1, <1>3 DEF Goto, Becomes, AskType
<1> QED BY <1>2, <1>3 DEF EnterGate

LEMMA LeaveGateEffect ==
  ASSUME TypeInv, NEW a \in Askers, LeaveGate(a)
  PROVE  Becomes(a, "denied", ask[a].prompt, ask[a].answer, ask[a].by)
BY TypeParts DEF LeaveGate, Goto, Becomes, AskType

LEMMA RedeemEffect ==
  ASSUME TypeInv, NEW a \in Askers, Redeem(a)
  PROVE  \/ /\ Becomes(a, "adopt", ask[a].prompt, ask[a].answer, ask[a].by)
            /\ row' = row
         \/ \E i \in Redeemable(ask[a].call) :
              /\ Becomes(a, "wait", i, row[i].decision, ask[a].by)
              /\ row' = [row EXCEPT ![i].carry = FALSE]
<1>1. ask \in [Askers -> AskType] /\ ask[a] \in AskType
  BY TypeParts
<1>2. CASE Goto(a, "adopt") /\ UNCHANGED <<row, slot, parked>>
  BY <1>1, <1>2 DEF Goto, Becomes, AskType
<1>3. ASSUME NEW i \in Redeemable(ask[a].call),
             row' = [row EXCEPT ![i].carry = FALSE],
             ask' = [ask EXCEPT ![a].pc = "wait", ![a].prompt = i, ![a].answer = row[i].decision]
      PROVE  Becomes(a, "wait", i, row[i].decision, ask[a].by)
  BY <1>1, <1>3 DEF Becomes, AskType
<1> QED BY <1>2, <1>3 DEF Redeem

LEMMA AdoptEffect ==
  ASSUME TypeInv, NEW a \in Askers, Adopt(a)
  PROVE  \/ Becomes(a, "open", ask[a].prompt, ask[a].answer, ask[a].by)
         \/ \E i \in Adoptable(ask[a].call) : Becomes(a, "register", i, ask[a].answer, ask[a].by)
<1>1. ask \in [Askers -> AskType] /\ ask[a] \in AskType
  BY TypeParts
<1>2. CASE Goto(a, "open")
  BY <1>1, <1>2 DEF Goto, Becomes, AskType
<1>3. ASSUME NEW i \in Adoptable(ask[a].call),
             ask' = [ask EXCEPT ![a].pc = "register", ![a].prompt = i]
      PROVE  Becomes(a, "register", i, ask[a].answer, ask[a].by)
  BY <1>1, <1>3 DEF Becomes, AskType
<1> QED BY <1>2, <1>3 DEF Adopt

LEMMA RegisterEffect ==
  ASSUME TypeInv, NEW a \in Askers, Register(a)
  PROVE  LET i == ask[a].prompt IN
         \/ /\ Becomes(a, "wait", i, row[i].decision, ask[a].by)
            /\ row[i].carry /\ waiter[i] = None /\ waiter' = waiter
            /\ row' = [row EXCEPT ![i].carry = FALSE]
         \/ /\ Becomes(a, "wait", i, ask[a].answer, ask[a].by)
            /\ waiter[i] = None /\ ~row[i].carry /\ row[i].status = "pending" /\ row' = row
            /\ waiter' = [waiter EXCEPT ![i] = a]
         \/ /\ Becomes(a, "open", i, ask[a].answer, ask[a].by)
            /\ row' = row /\ waiter' = waiter
<1> DEFINE i == ask[a].prompt
<1>1. ask \in [Askers -> AskType] /\ ask[a] \in AskType
  BY TypeParts
<1>2. CASE /\ waiter[i] = None /\ row[i].carry
           /\ row' = [row EXCEPT ![i].carry = FALSE]
           /\ ask' = [ask EXCEPT ![a].pc = "wait", ![a].answer = row[i].decision]
           /\ UNCHANGED waiter
  <2>1. Becomes(a, "wait", i, row[i].decision, ask[a].by)
    BY <1>1, <1>2 DEF Becomes, AskType
  <2> QED BY <1>2, <2>1
<1>3. CASE /\ waiter[i] = None /\ ~row[i].carry /\ row[i].status = "pending"
           /\ waiter' = [waiter EXCEPT ![i] = a]
           /\ Goto(a, "wait")
           /\ UNCHANGED row
  <2>1. Becomes(a, "wait", i, ask[a].answer, ask[a].by)
    BY <1>1, <1>3 DEF Goto, Becomes, AskType
  <2> QED BY <1>3, <2>1
<1>4. CASE Goto(a, "open") /\ UNCHANGED <<row, waiter, slot, parked>>
  <2>1. Becomes(a, "open", i, ask[a].answer, ask[a].by)
    BY <1>1, <1>4 DEF Goto, Becomes, AskType
  <2> QED BY <1>4, <2>1
<1> QED BY <1>2, <1>3, <1>4 DEF Register

LEMMA OpenEffect ==
  ASSUME TypeInv, NEW a \in Askers, Open(a)
  PROVE  Becomes(a, "insert", opened + 1, ask[a].answer, ask[a].by)
BY TypeParts DEF Open, Becomes, AskType

LEMMA InsertEffect ==
  ASSUME TypeInv, NEW a \in Askers, Insert(a)
  PROVE  Becomes(a, "wait", ask[a].prompt, ask[a].answer, ask[a].by)
BY TypeParts DEF Insert, Goto, Becomes, AskType

LEMMA WaitEffects ==
  ASSUME TypeInv, NEW a \in Askers
  PROVE  /\ CreateFails(a) => Becomes(a, "decided", ask[a].prompt, "timeout", ask[a].by)
         /\ GiveUp(a) => Becomes(a, "forget", ask[a].prompt, "timeout", ask[a].by)
         /\ Receive(a) => Becomes(a, "forget", ask[a].prompt, ask[a].answer, ask[a].by)
         /\ Forget(a) => Becomes(a, "close", ask[a].prompt, ask[a].answer, ask[a].by)
         /\ Close(a) => Becomes(a, "decided", ask[a].prompt, ask[a].answer, ask[a].by)
<1>1. ask \in [Askers -> AskType] /\ ask[a] \in AskType
  BY TypeParts
<1>2. CreateFails(a) => Becomes(a, "decided", ask[a].prompt, "timeout", ask[a].by)
  <2> SUFFICES ASSUME CreateFails(a)
               PROVE  Becomes(a, "decided", ask[a].prompt, "timeout", ask[a].by)
    OBVIOUS
  <2>1. ask' = [ask EXCEPT ![a].pc = "decided", ![a].answer = "timeout"]
    BY DEF CreateFails
  <2> QED BY <1>1, <2>1 DEF Becomes, AskType
<1>3. GiveUp(a) => Becomes(a, "forget", ask[a].prompt, "timeout", ask[a].by)
  <2> SUFFICES ASSUME GiveUp(a)
               PROVE  Becomes(a, "forget", ask[a].prompt, "timeout", ask[a].by)
    OBVIOUS
  <2>1. ask' = [ask EXCEPT ![a].pc = "forget", ![a].answer = "timeout"]
    BY DEF GiveUp
  <2> QED BY <1>1, <2>1 DEF Becomes, AskType
<1>4. Receive(a) => Becomes(a, "forget", ask[a].prompt, ask[a].answer, ask[a].by)
  BY <1>1 DEF Receive, Goto, Becomes, AskType
<1>5. Forget(a) => Becomes(a, "close", ask[a].prompt, ask[a].answer, ask[a].by)
  <2> SUFFICES ASSUME Forget(a)
               PROVE  Becomes(a, "close", ask[a].prompt, ask[a].answer, ask[a].by)
    OBVIOUS
  <2>1. ask' = [ask EXCEPT ![a].pc = "close"]
    BY DEF Forget, Goto
  <2> QED BY <1>1, <2>1 DEF Becomes, AskType
<1>6. Close(a) => Becomes(a, "decided", ask[a].prompt, ask[a].answer, ask[a].by)
  <2> SUFFICES ASSUME Close(a)
               PROVE  Becomes(a, "decided", ask[a].prompt, ask[a].answer, ask[a].by)
    OBVIOUS
  <2>1. ask' = [ask EXCEPT ![a].pc = "decided"]
    BY DEF Close, Goto
  <2> QED BY <1>1, <2>1 DEF Becomes, AskType
<1> QED BY <1>2, <1>3, <1>4, <1>5, <1>6

LEMMA DecideEffect ==
  ASSUME TypeInv, NEW a \in Askers, Decide(a)
  PROVE  IF ask[a].answer \in Granting
         THEN Becomes(a, "run", ask[a].prompt, ask[a].answer, "answer")
         ELSE Becomes(a, "denied", ask[a].prompt, ask[a].answer, ask[a].by)
<1>1. ask \in [Askers -> AskType] /\ ask[a] \in AskType
  BY TypeParts
<1>2. CASE ask[a].answer \in Granting
  <2>1. ask' = [ask EXCEPT ![a].pc = "run", ![a].by = "answer"]
    BY <1>2 DEF Decide
  <2> QED BY <1>1, <1>2, <2>1 DEF Becomes, AskType
<1>3. CASE ask[a].answer \notin Granting
  BY <1>1, <1>3 DEF Decide, Goto, Becomes, AskType
<1> QED BY <1>2, <1>3

LEMMA FinishEffect ==
  ASSUME TypeInv, NEW a \in Askers, Finish(a)
  PROVE  /\ ask'[a] = [NoAsk EXCEPT !.pc = "done"]
         /\ \A o \in Askers \ {a} : ask'[o] = ask[o]
BY TypeParts DEF Finish

\* A step of one asker leaves the others where they are, and its own call alone.
LEMMA AskerAlone ==
  ASSUME TypeInv, NEW a \in Askers, AskerStep(a)
  PROVE  /\ \A b \in Askers \ {a} : ask'[b] = ask[b]
         /\ ask'[a].pc # "done" => ask'[a].call = ask[a].call
<1>1. ASSUME NEW p, NEW i, NEW d, NEW b, Becomes(a, p, i, d, b)
      PROVE  /\ \A o \in Askers \ {a} : ask'[o] = ask[o]
             /\ ask'[a].pc # "done" => ask'[a].call = ask[a].call
  BY <1>1 DEF Becomes
<1>2. CASE Start(a) \/ EnterGate(a) \/ LeaveGate(a)
  BY <1>1, <1>2, StartEffect, EnterGateEffect, LeaveGateEffect
<1>3. CASE Decide(a)
  BY <1>1, <1>3, DecideEffect
<1>4. CASE Finish(a)
  BY <1>4, FinishEffect DEF NoAsk
<1>5. CASE Redeem(a) \/ Adopt(a)
  BY <1>1, <1>5, RedeemEffect, AdoptEffect
<1>6. CASE Register(a)
  BY <1>1, <1>6, RegisterEffect
<1>7. CASE Open(a) \/ Insert(a)
  BY <1>1, <1>7, OpenEffect, InsertEffect
<1>8. CASE CreateFails(a) \/ Receive(a) \/ GiveUp(a) \/ Forget(a) \/ Close(a)
  BY <1>1, <1>8, WaitEffects
<1> QED BY <1>2, <1>3, <1>4, <1>5, <1>6, <1>7, <1>8 DEF AskerStep

LEMMA BeginEffect ==
  ASSUME BeginTurn, NEW a \in Askers
  PROVE  /\ ask'[a].pc \in {"start", "done"} /\ ask'[a].prompt = 0
         /\ ask'[a].answer = "" /\ ask'[a].by = "none"
<1>1. PICK some \in SUBSET Askers \ {{}} : \E c \in [some -> Calls] :
        ask' = [o \in Askers |-> IF o \in some THEN [NoAsk EXCEPT !.pc = "start", !.call = c[o]]
                                                ELSE [NoAsk EXCEPT !.pc = "done"]]
  BY DEF BeginTurn
<1>2. PICK c \in [some -> Calls] :
        ask' = [o \in Askers |-> IF o \in some THEN [NoAsk EXCEPT !.pc = "start", !.call = c[o]]
                                                ELSE [NoAsk EXCEPT !.pc = "done"]]
  BY <1>1
<1>3. ask'[a] = IF a \in some THEN [NoAsk EXCEPT !.pc = "start", !.call = c[a]]
                              ELSE [NoAsk EXCEPT !.pc = "done"]
  BY <1>2
<1> QED BY <1>3 DEF NoAsk

LEMMA GateStep ==
  ASSUME TypeInv, GateInv, [Next]_vars
  PROVE  GateInv'
<1>1. /\ gate \in [Subjects -> Askers \cup {None}] /\ None \notin Askers
      /\ ask \in [Askers -> AskType] /\ AskInv
  BY TypeParts, BoundsAssumption DEF OtherType
<1>2. \A a \in Askers : ask[a].pc \notin {"idle", "done"} => SubjectOf(a) \in Subjects
  BY <1>1, HasSubject
<1>3. ASSUME NEW a \in Askers, AskerStep(a) PROVE GateInv'
  <2>1. /\ \A b \in Askers \ {a} : ask'[b] = ask[b]
        /\ ask'[a].pc # "done" => ask'[a].call = ask[a].call
    BY <1>3, AskerAlone
  <2>2. ASSUME UNCHANGED gate, ask'[a].pc \in Inside => ask[a].pc \in Inside
        PROVE  GateInv'
    BY <2>1, <2>2 DEF GateInv, SubjectOf, Inside
  <2>3. CASE EnterGate(a)
    <3>1. CASE UNCHANGED gate /\ ask' = [ask EXCEPT ![a].pc = "run", ![a].by = "grant"]
      BY <1>1, <2>2, <3>1 DEF AskType, Inside
    <3>2. CASE Goto(a, "redeem") /\ gate' = [gate EXCEPT ![SubjectOf(a)] = a]
      <4>1. gate[SubjectOf(a)] = None /\ ask[a].pc = "gate"
        BY <2>3 DEF EnterGate, GateFree
      <4>2. SubjectOf(a) \in Subjects /\ gate'[SubjectOf(a)] = a
        BY <1>1, <1>2, <3>2, <4>1
      <4>3. ask'[a].pc = "redeem"
        BY <1>1, <3>2 DEF Goto, AskType
      <4>4. ASSUME NEW b \in Askers \ {a}, ask[b].pc \in Inside
            PROVE  gate'[SubjectOf(b)] = b
        <5>1. gate[SubjectOf(b)] = b /\ SubjectOf(b) \in Subjects
          BY <1>2, <4>4 DEF GateInv, Inside
        <5>2. SubjectOf(b) # SubjectOf(a)
          BY <1>1, <4>1, <5>1
        <5> QED BY <1>1, <3>2, <5>1, <5>2
      <4> QED BY <2>1, <4>2, <4>3, <4>4 DEF GateInv, SubjectOf
    <3> QED BY <2>3, <3>1, <3>2 DEF EnterGate
  <2>4. CASE Decide(a)
    <3>1. /\ gate' = [gate EXCEPT ![SubjectOf(a)] = None]
          /\ ask'[a].pc \in {"run", "denied"} /\ ask[a].pc = "decided"
      BY <2>4, DecideEffect DEF Decide, Becomes
    <3>2. SubjectOf(a) \in Subjects /\ gate[SubjectOf(a)] = a
      BY <1>2, <3>1 DEF GateInv, Inside
    <3>3. ASSUME NEW b \in Askers \ {a}, ask[b].pc \in Inside
          PROVE  gate'[SubjectOf(b)] = b
      <4>1. gate[SubjectOf(b)] = b
        BY <3>3 DEF GateInv
      <4> QED BY <1>2, <3>1, <3>2, <3>3, <4>1, <1>1 DEF Inside
    <3> QED BY <2>1, <3>1, <3>3 DEF GateInv, SubjectOf, Inside
  <2>5. CASE Start(a) \/ LeaveGate(a) \/ Redeem(a) \/ Adopt(a) \/ Register(a) \/ Open(a) \/ Insert(a)
    <3>1. UNCHANGED gate
      BY <2>5 DEF Start, LeaveGate, Redeem, Adopt, Register, Open, Insert, broker
    <3>2. ask'[a].pc \in Inside => ask[a].pc \in Inside
      <4>1. CASE Start(a) \/ LeaveGate(a)
        BY <4>1, StartEffect, LeaveGateEffect DEF Becomes, Inside
      <4>2. CASE ~(Start(a) \/ LeaveGate(a))
        BY <2>5, <4>2 DEF Redeem, Adopt, Register, Open, Insert, Inside
      <4> QED BY <4>1, <4>2
    <3> QED BY <2>2, <3>1, <3>2
  <2>6. CASE CreateFails(a) \/ Receive(a) \/ GiveUp(a) \/ Forget(a) \/ Close(a)
    BY <2>2, <2>6 DEF CreateFails, Receive, GiveUp, Forget, Close, broker, Inside
  <2>7. CASE Finish(a)
    <3>1. ask'[a].pc = "done"
      BY <2>7, FinishEffect DEF NoAsk
    <3>2. UNCHANGED gate
      BY <2>7 DEF Finish, broker
    <3> QED BY <2>2, <3>1, <3>2 DEF Inside
  <2> QED BY <1>3, <2>3, <2>4, <2>5, <2>6, <2>7 DEF AskerStep
<1>4. ASSUME \A a \in Askers : ask'[a].pc \notin Inside PROVE GateInv'
  BY <1>4 DEF GateInv
<1>5. CASE BeginTurn
  <2>1. \A a \in Askers : ask'[a].pc \in {"start", "done"}
    BY <1>5, BeginEffect
  <2> QED BY <1>4, <2>1 DEF Inside
<1>6. CASE EndTurn \/ Restart
  <2>1. ask' = [a \in Askers |-> NoAsk]
    BY <1>6 DEF EndTurn, Restart
  <2>2. \A a \in Askers : ask'[a].pc = "idle"
    BY <2>1, Blank
  <2> QED BY <1>4, <2>2 DEF Inside
<1>7. ASSUME UNCHANGED gate,
             \A a \in Askers : ask'[a].pc = ask[a].pc /\ ask'[a].call = ask[a].call
      PROVE  GateInv'
  BY <1>7 DEF GateInv, SubjectOf
<1>8. CASE Deliver
  <2>1. UNCHANGED gate
    BY <1>8 DEF Deliver
  <2>2. \A a \in Askers : ask'[a].pc = ask[a].pc /\ ask'[a].call = ask[a].call
    BY <1>1, <1>8 DEF Deliver, AskType
  <2> QED BY <1>7, <2>1, <2>2
<1>9. CASE UNCHANGED <<ask, gate>>
  BY <1>7, <1>9
<1>10. CASE CancelTurn \/ SweepLists \/ SweepDenies \/ ExpireReads \/ ExpireWrites
            \/ (\E i \in Ids, d \in Decisions : Answer(i, d))
            \/ (\E i \in Ids : ClearSlot(i) \/ Lapse(i))
  BY <1>9, <1>10 DEF CancelTurn, SweepLists, SweepDenies, ExpireReads, ExpireWrites, Answer,
       ClearSlot, Lapse, broker
<1> QED BY <1>3, <1>5, <1>6, <1>8, <1>9, <1>10 DEF Next, vars, broker

\* For any number of parallel calls: two calls on one subject never wait for an answer at a
\* time (askGate), so a session answer to the first covers the second.
THEOREM OneAsk == Spec => []OnePromptPerSubject
<1>1. Init => GateInv
  <2> SUFFICES ASSUME Init PROVE \A a \in Askers : ask[a].pc \notin Inside
    BY DEF GateInv
  <2> QED BY Blank DEF Init, Inside
<1>2. TypeInv /\ GateInv => OnePromptPerSubject
  BY DEF GateInv, Inside, OnePromptPerSubject
<1> QED BY <1>1, <1>2, InitTypeInv, NextTypeInv, GateStep, PTL DEF Spec

-----------------------------------------------------------------------------
(* What a step does to the rows, the waiters and the answer under way. *)

\* A row after a step: as it was; its carried-over answer consumed or lapsed; written;
\* timed out; or given the operator's answer.
Kept(i) == row'[i] = row[i]
Spent(i) ==
  /\ row[i].carry /\ ~row'[i].carry /\ row'[i].status = row[i].status
  /\ row'[i].call = row[i].call /\ row'[i].decision = row[i].decision
Written(i) ==
  /\ \E a \in Askers : Insert(a) /\ ask[a].prompt = i /\ row'[i].call = ask[a].call
  /\ row'[i].status = "pending" /\ row'[i].decision = "" /\ ~row'[i].carry
TimedOut(i) ==
  /\ row[i].status = "pending" /\ row'[i].status = "resolved" /\ row'[i].call = row[i].call
  /\ row'[i].decision = "timeout" /\ ~row'[i].carry
Answered(i) ==
  /\ Deliver /\ i = resolver.id
  /\ row[i].status = "pending" /\ row'[i].status = "resolved" /\ row'[i].call = row[i].call
  /\ row'[i].decision = resolver.decision
  /\ row'[i].carry => resolver.live = None /\ resolver.decision \in Granting
RowMoves(i) == Kept(i) \/ Spent(i) \/ Written(i) \/ TimedOut(i) \/ Answered(i)

LEMMA SpendOne ==
  ASSUME row \in [Ids -> RowType], NEW i \in Ids, row[i].carry,
         row' = [row EXCEPT ![i].carry = FALSE], NEW j \in Ids
  PROVE  Kept(j) \/ Spent(j)
<1>1. CASE j = i
  <2>1. row[i] \in RowType /\ row'[i] = [row[i] EXCEPT !.carry = FALSE]
    OBVIOUS
  <2> QED BY <1>1, <2>1 DEF Spent, RowType
<1>2. CASE j # i
  BY <1>2 DEF Kept
<1> QED BY <1>1, <1>2

LEMMA RowSteps ==
  ASSUME TypeInv, NEW a \in Askers, AskerStep(a), NEW j \in Ids
  PROVE  RowMoves(j)
<1>1. row \in [Ids -> RowType] /\ ask \in [Askers -> AskType] /\ ask[a] \in AskType /\ AskInv
  BY TypeParts DEF OtherType
<1>2. CASE UNCHANGED row
  BY <1>2 DEF RowMoves, Kept
<1>3. CASE Start(a) \/ EnterGate(a) \/ LeaveGate(a) \/ Adopt(a) \/ Open(a) \/ CreateFails(a)
        \/ Receive(a) \/ GiveUp(a) \/ Forget(a) \/ Decide(a) \/ Finish(a)
  BY <1>2, <1>3 DEF Start, EnterGate, LeaveGate, Adopt, Open, CreateFails, Receive, GiveUp,
       Forget, Decide, Finish, store
<1>4. CASE Redeem(a)
  <2>1. ASSUME NEW i \in Redeemable(ask[a].call), row' = [row EXCEPT ![i].carry = FALSE]
        PROVE  RowMoves(j)
    <3>1. i \in Ids /\ row[i].carry
      BY <2>1 DEF Redeemable
    <3> QED BY <1>1, <2>1, <3>1, SpendOne DEF RowMoves
  <2> QED BY <1>2, <1>4, <2>1, RedeemEffect
<1>5. CASE Register(a)
  <2>1. ask[a].prompt \in Ids
    BY <1>1, <1>5 DEF Register, AskInv, AtPrompt
  <2>2. CASE row[ask[a].prompt].carry /\ row' = [row EXCEPT ![ask[a].prompt].carry = FALSE]
    BY <1>1, <2>1, <2>2, SpendOne DEF RowMoves
  <2> QED BY <1>2, <1>5, <2>2, RegisterEffect
<1>6. CASE Insert(a)
  <2>1. ask[a].prompt \in Ids /\ ask[a].pc = "insert"
    BY <1>1, <1>6 DEF Insert, AskInv
  <2>2. row' = [row EXCEPT ![ask[a].prompt] = [NoRow EXCEPT !.status = "pending", !.call = ask[a].call]]
    BY <1>6 DEF Insert
  <2>3. CASE j # ask[a].prompt
    BY <1>1, <2>2, <2>3 DEF RowMoves, Kept
  <2>4. CASE j = ask[a].prompt
    <3>1. row'[j] = [NoRow EXCEPT !.status = "pending", !.call = ask[a].call]
      BY <1>1, <2>1, <2>2, <2>4
    <3>2. /\ row'[j].status = "pending" /\ row'[j].decision = "" /\ ~row'[j].carry
          /\ row'[j].call = ask[a].call
      BY <3>1 DEF NoRow
    <3> QED BY <1>6, <2>4, <3>2 DEF RowMoves, Written
  <2> QED BY <2>3, <2>4
<1>7. CASE Close(a)
  <2>1. ask[a].prompt \in Ids
    BY <1>1, <1>7 DEF Close, AskInv, AtPrompt
  <2>2. CASE /\ row[ask[a].prompt].status = "pending"
             /\ row' = [row EXCEPT ![ask[a].prompt] = Resolved(ask[a].prompt, "timeout", FALSE)]
             /\ j = ask[a].prompt
    <3>1. row'[j] = Resolved(j, "timeout", FALSE) /\ row[j] \in RowType /\ row[j].status = "pending"
      BY <1>1, <2>1, <2>2
    <3> QED BY <3>1 DEF RowMoves, TimedOut, Resolved, RowType
  <2>3. CASE /\ row' = [row EXCEPT ![ask[a].prompt] = Resolved(ask[a].prompt, "timeout", FALSE)]
             /\ j # ask[a].prompt
    BY <1>1, <2>3 DEF RowMoves, Kept
  <2> QED BY <1>2, <1>7, <2>2, <2>3 DEF Close
<1> QED BY <1>3, <1>4, <1>5, <1>6, <1>7 DEF AskerStep

LEMMA RowEffect ==
  ASSUME TypeInv, [Next]_vars, NEW j \in Ids
  PROVE  RowMoves(j)
<1>1. row \in [Ids -> RowType] /\ resolver \in [id : 0..MaxPrompts, decision : Decisions \cup {""},
                                               live : Askers \cup {None}] /\ ResolverInv
  BY TypeParts DEF OtherType, TypeInv
<1>2. CASE UNCHANGED row
  BY <1>2 DEF RowMoves, Kept
<1>3. CASE \E a \in Askers : AskerStep(a)
  BY <1>3, RowSteps
<1>4. CASE \E i \in Ids : Lapse(i)
  <2>1. PICK i \in Ids : row[i].carry /\ row' = [row EXCEPT ![i].carry = FALSE]
    BY <1>4 DEF Lapse
  <2> QED BY <1>1, <2>1, SpendOne DEF RowMoves
<1>5. CASE ExpireWrites
  <2>1. PICK aged \in SUBSET {i \in expiry : Expirable(i)} :
          row' = [i \in Ids |-> IF i \in aged THEN Resolved(i, "timeout", FALSE) ELSE row[i]]
    BY <1>5 DEF ExpireWrites
  <2>2. CASE j \in aged
    <3>1. row'[j] = Resolved(j, "timeout", FALSE) /\ row[j] \in RowType /\ row[j].status = "pending"
      BY <1>1, <2>1, <2>2 DEF Expirable
    <3> QED BY <3>1 DEF RowMoves, TimedOut, Resolved, RowType
  <2>3. CASE j \notin aged
    BY <2>1, <2>3 DEF RowMoves, Kept
  <2> QED BY <2>2, <2>3
<1>6. CASE Deliver
  <2>1. CASE /\ StillPending(resolver.id)
             /\ row' = [row EXCEPT ![resolver.id] =
                          Resolved(resolver.id, resolver.decision, Carried(resolver.live, resolver.decision))]
             /\ j = resolver.id
    <3>1. /\ row'[j] = Resolved(j, resolver.decision, Carried(resolver.live, resolver.decision))
          /\ row[j] \in RowType /\ row[j].status = "pending"
      BY <1>1, <2>1 DEF StillPending
    <3>2. /\ row'[j].status = "resolved" /\ row'[j].call = row[j].call
          /\ row'[j].decision = resolver.decision
          /\ row'[j].carry = Carried(resolver.live, resolver.decision)
      BY <3>1 DEF Resolved, RowType
    <3> QED BY <1>6, <2>1, <3>1, <3>2 DEF RowMoves, Answered, Carried
  <2>2. CASE /\ row' = [row EXCEPT ![resolver.id] =
                          Resolved(resolver.id, resolver.decision, Carried(resolver.live, resolver.decision))]
             /\ j # resolver.id
    BY <1>1, <2>2 DEF RowMoves, Kept
  <2> QED BY <1>2, <1>6, <2>1, <2>2 DEF Deliver
<1>7. CASE BeginTurn \/ EndTurn \/ CancelTurn \/ Restart \/ SweepLists \/ SweepDenies \/ ExpireReads
        \/ (\E i \in Ids, d \in Decisions : Answer(i, d)) \/ (\E i \in Ids : ClearSlot(i))
        \/ UNCHANGED vars
  BY <1>2, <1>7 DEF BeginTurn, EndTurn, CancelTurn, Restart, SweepLists, SweepDenies, ExpireReads,
       Answer, ClearSlot, store, vars
<1> QED BY <1>3, <1>4, <1>5, <1>6, <1>7 DEF Next

LEMMA OpenedGrows ==
  ASSUME [Next]_vars
  PROVE  opened' = opened \/ \E a \in Askers : Open(a) /\ opened' = opened + 1
<1>1. ASSUME NEW a \in Askers, AskerStep(a) PROVE opened' = opened \/ (Open(a) /\ opened' = opened + 1)
  <2>1. CASE Open(a)
    BY <2>1 DEF Open
  <2>2. CASE Start(a) \/ EnterGate(a) \/ LeaveGate(a) \/ Redeem(a) \/ Adopt(a) \/ Register(a)
          \/ Insert(a)
    BY <2>2 DEF Start, EnterGate, LeaveGate, Redeem, Adopt, Register, Insert, store
  <2>3. CASE CreateFails(a) \/ Receive(a) \/ GiveUp(a) \/ Forget(a) \/ Close(a) \/ Decide(a)
          \/ Finish(a)
    BY <2>3 DEF CreateFails, Receive, GiveUp, Forget, Close, Decide, Finish, store
  <2> QED BY <1>1, <2>1, <2>2, <2>3 DEF AskerStep
<1>2. CASE BeginTurn \/ EndTurn \/ CancelTurn \/ Restart \/ SweepLists \/ SweepDenies \/ ExpireReads
        \/ ExpireWrites \/ Deliver \/ (\E i \in Ids, d \in Decisions : Answer(i, d))
        \/ (\E i \in Ids : ClearSlot(i) \/ Lapse(i)) \/ UNCHANGED vars
  BY <1>2 DEF BeginTurn, EndTurn, CancelTurn, Restart, SweepLists, SweepDenies, ExpireReads,
       ExpireWrites, Deliver, Answer, ClearSlot, Lapse, store, vars
<1> QED BY <1>1, <1>2 DEF Next

LEMMA RowInvStep ==
  ASSUME TypeInv, RowInv, PromptInv, [Next]_vars
  PROVE  RowInv'
<1>1. opened \in Nat /\ AskInv
  BY TypeParts, BoundsAssumption
<1>2. opened' \in Nat /\ opened <= opened'
  BY <1>1, OpenedGrows
<1>3. ASSUME NEW i \in Ids
      PROVE  /\ i > opened' => row'[i].status = "none"
             /\ row'[i].status # "resolved" => row'[i].decision = "" /\ ~row'[i].carry
             /\ row'[i].carry => row'[i].decision \in Granting
  <2>1. /\ i > opened => row[i].status = "none"
        /\ row[i].status # "resolved" => row[i].decision = "" /\ ~row[i].carry
        /\ row[i].carry => row[i].decision \in Granting
    BY DEF RowInv
  <2>2. i \in Nat /\ (i > opened' => i > opened)
    BY <1>1, <1>2, BoundsAssumption DEF Ids
  <2>3. CASE Kept(i) \/ Spent(i)
    BY <2>1, <2>2, <2>3 DEF Kept, Spent
  <2>4. CASE TimedOut(i) \/ Answered(i)
    BY <2>1, <2>2, <2>4 DEF TimedOut, Answered
  <2>5. CASE Written(i)
    <3>1. PICK a \in Askers : Insert(a) /\ ask[a].prompt = i
      BY <2>5 DEF Written
    <3>2. i <= opened
      BY <3>1 DEF Insert, PromptInv, PromptAt
    <3>3. ~(i > opened')
      BY <1>1, <1>2, <2>2, <3>2
    <3> QED BY <2>5, <3>3 DEF Written
  <2> QED BY <2>3, <2>4, <2>5, RowEffect DEF RowMoves
<1> QED BY <1>3 DEF RowInv

\* A prompt's waiter leaves: it forgets the prompt, its row could not be written, an answer
\* takes it, or the process ends.
Taken(i) ==
  /\ ResolveFree /\ row[i].status # "none" /\ waiter'[i] = None
  /\ resolver'.id = i /\ resolver'.live = waiter[i] /\ resolver'.decision \in Decisions
  /\ UNCHANGED <<row, ask, opened, history>>
Leaves(i) ==
  /\ waiter'[i] = None
  /\ \/ Restart
     \/ Taken(i)
     \/ \E a \in Askers : ask[a].prompt = i /\ (Forget(a) \/ (CreateFails(a) /\ ask[a].pc = "insert"))
\* It comes: an open prompt is adopted, a new one registered.
Comes(i) ==
  \E a \in Askers :
    /\ waiter'[i] = a
    /\ \/ /\ Register(a) /\ ask[a].prompt = i /\ row[i].status = "pending"
          /\ waiter[i] = None /\ ResolveFree
       \/ Open(a) /\ i = opened + 1
WaiterMoves(i) == waiter'[i] = waiter[i] \/ Leaves(i) \/ Comes(i)

LEMMA TakeEffect ==
  ASSUME waiter \in [Ids -> Askers \cup {None}], NEW i \in Ids, NEW d \in Decisions, Take(i, d),
         row[i].status # "none", UNCHANGED <<row, ask, opened, history>>
  PROVE  /\ Taken(i)
         /\ \A j \in Ids : WaiterMoves(j)
<1>1. Taken(i)
  BY DEF Take, Taken
<1>2. \A j \in Ids \ {i} : waiter'[j] = waiter[j]
  BY DEF Take
<1> QED BY <1>1, <1>2 DEF WaiterMoves, Leaves, Taken

LEMMA WaiterSteps ==
  ASSUME TypeInv, NEW a \in Askers, AskerStep(a), NEW j \in Ids
  PROVE  WaiterMoves(j)
<1>1. waiter \in [Ids -> Askers \cup {None}] /\ AskInv
  BY TypeParts DEF OtherType
<1>2. CASE UNCHANGED waiter
  BY <1>2 DEF WaiterMoves
<1>3. CASE Start(a) \/ EnterGate(a) \/ LeaveGate(a) \/ Redeem(a) \/ Adopt(a) \/ Insert(a)
        \/ Receive(a) \/ GiveUp(a) \/ Close(a) \/ Decide(a) \/ Finish(a)
  BY <1>2, <1>3 DEF Start, EnterGate, LeaveGate, Redeem, Adopt, Insert, Receive, GiveUp,
       Close, Decide, Finish, broker
<1>4. CASE Register(a)
  <2>1. ResolveFree
    BY <1>4 DEF Register, AdoptFree
  <2>2. CASE /\ waiter[ask[a].prompt] = None /\ row[ask[a].prompt].status = "pending"
             /\ waiter' = [waiter EXCEPT ![ask[a].prompt] = a]
    BY <1>1, <1>4, <2>1, <2>2 DEF WaiterMoves, Comes
  <2> QED BY <1>2, <1>4, <2>2, RegisterEffect
<1>5. CASE Open(a)
  <2>1. waiter' = [waiter EXCEPT ![opened + 1] = a]
    BY <1>5 DEF Open
  <2> QED BY <1>1, <1>5, <2>1 DEF WaiterMoves, Comes
<1>6. CASE CreateFails(a)
  <2>1. CASE /\ ask[a].pc = "insert"
             /\ waiter' = [waiter EXCEPT ![ask[a].prompt] = None]
    BY <1>1, <1>6, <2>1 DEF WaiterMoves, Leaves
  <2> QED BY <1>2, <1>6, <2>1 DEF CreateFails
<1>7. CASE Forget(a)
  <2>1. waiter' = [waiter EXCEPT ![ask[a].prompt] = None]
    BY <1>7 DEF Forget
  <2> QED BY <1>1, <1>7, <2>1 DEF WaiterMoves, Leaves
<1> QED BY <1>3, <1>4, <1>5, <1>6, <1>7 DEF AskerStep

LEMMA WaiterEffect ==
  ASSUME TypeInv, PromptInv, [Next]_vars
  PROVE  /\ \A j \in Ids : WaiterMoves(j)
         /\ \/ resolver' = resolver
            \/ resolver' = NoResolve /\ (Deliver \/ Restart)
            \/ \E i \in Ids : Taken(i)
<1>1. waiter \in [Ids -> Askers \cup {None}] /\ sweep \in 0..MaxPrompts
  BY TypeParts DEF OtherType
<1>2. ASSUME NEW a \in Askers, AskerStep(a) PROVE resolver' = resolver
  <2>1. CASE Start(a) \/ EnterGate(a) \/ LeaveGate(a) \/ Redeem(a) \/ Adopt(a) \/ Register(a)
          \/ Open(a) \/ Insert(a)
    BY <2>1 DEF Start, EnterGate, LeaveGate, Redeem, Adopt, Register, Open, Insert, broker
  <2>2. CASE CreateFails(a) \/ Receive(a) \/ GiveUp(a) \/ Forget(a) \/ Close(a) \/ Decide(a)
          \/ Finish(a)
    BY <2>2 DEF CreateFails, Receive, GiveUp, Forget, Close, Decide, Finish, broker
  <2> QED BY <1>2, <2>1, <2>2 DEF AskerStep
<1>3. CASE Restart
  BY <1>3 DEF Restart, WaiterMoves, Leaves
<1>4. CASE Deliver
  BY <1>4 DEF Deliver, WaiterMoves
<1>5. CASE \E i \in Ids, d \in Decisions : Answer(i, d)
  <2>1. PICK i \in Ids, d \in Decisions : Answer(i, d)
    BY <1>5
  <2>2. /\ Take(i, d) /\ row[i].status # "none" /\ UNCHANGED <<row, ask, opened, history>>
    BY <2>1 DEF Answer, store, history
  <2> QED BY <1>1, <2>2, TakeEffect
<1>6. CASE SweepDenies
  <2>1. sweep \in Ids /\ row[sweep].status # "none"
    BY <1>1, <1>6, BoundsAssumption DEF SweepDenies, PromptInv, ShownInv, Ids
  <2>2. Take(sweep, "timeout") /\ UNCHANGED <<row, ask, opened, history>>
    BY <1>6 DEF SweepDenies, history
  <2> QED BY <1>1, <2>1, <2>2, TakeEffect DEF Decisions
<1>7. CASE BeginTurn \/ EndTurn \/ CancelTurn \/ SweepLists \/ ExpireReads \/ ExpireWrites
        \/ (\E i \in Ids : ClearSlot(i) \/ Lapse(i)) \/ UNCHANGED vars
  BY <1>7 DEF BeginTurn, EndTurn, CancelTurn, SweepLists, ExpireReads, ExpireWrites, ClearSlot,
       Lapse, broker, vars, WaiterMoves
<1> QED BY <1>2, <1>3, <1>4, <1>5, <1>6, <1>7, WaiterSteps DEF Next

\* What a step leaves in an asker's record: it moves by itself, is put back by the turn or by
\* a restart, is given the answer it waits for, or stays.
Told(b) ==
  /\ Deliver /\ resolver.live = b /\ ask[b].pc = "wait" /\ ask[b].prompt = resolver.id
  /\ ask'[b].pc = ask[b].pc /\ ask'[b].prompt = ask[b].prompt /\ ask'[b].call = ask[b].call
  /\ ask'[b].by = ask[b].by /\ ask'[b].answer = resolver.decision
Back(b) == ask'[b].pc \in {"start", "done", "idle"}
AskMovesOn(b) == AskerStep(b) \/ Back(b) \/ Told(b) \/ ask'[b] = ask[b]

LEMMA DeliverEffect ==
  ASSUME TypeInv, Deliver, NEW b \in Askers
  PROVE  Told(b) \/ ask'[b] = ask[b]
<1>1. ask \in [Askers -> AskType] /\ ask[b] \in AskType
  BY TypeParts
<1>2. CASE ask' = [ask EXCEPT ![resolver.live].answer =
                    IF ask[resolver.live].pc = "wait" /\ ask[resolver.live].prompt = resolver.id
                      THEN resolver.decision ELSE @]
  <2>1. CASE b # resolver.live
    BY <1>1, <1>2, <2>1
  <2>2. CASE b = resolver.live /\ ask[b].pc = "wait" /\ ask[b].prompt = resolver.id
    <3>1. ask'[b] = [ask[b] EXCEPT !.answer = resolver.decision]
      BY <1>1, <1>2, <2>2
    <3> QED BY <1>1, <2>2, <3>1 DEF Told, AskType
  <2>3. CASE b = resolver.live /\ ~(ask[b].pc = "wait" /\ ask[b].prompt = resolver.id)
    <3>1. ask'[b] = [ask[b] EXCEPT !.answer = ask[b].answer]
      BY <1>1, <1>2, <2>3
    <3> QED BY <1>1, <3>1 DEF AskType
  <2> QED BY <2>1, <2>2, <2>3
<1> QED BY <1>2 DEF Deliver

LEMMA AskEffect ==
  ASSUME TypeInv, [Next]_vars, NEW b \in Askers
  PROVE  AskMovesOn(b)
<1>2. CASE \E a \in Askers : AskerStep(a)
  BY <1>2, AskerAlone DEF AskMovesOn
<1>3. CASE BeginTurn
  BY <1>3, BeginEffect DEF AskMovesOn, Back
<1>4. CASE EndTurn \/ Restart
  <2>1. ask' = [a \in Askers |-> NoAsk]
    BY <1>4 DEF EndTurn, Restart
  <2> QED BY <2>1, Blank DEF AskMovesOn, Back
<1>5. CASE Deliver
  BY <1>5, DeliverEffect DEF AskMovesOn
<1>6. CASE CancelTurn \/ SweepLists \/ SweepDenies \/ ExpireReads \/ ExpireWrites
        \/ (\E i \in Ids, d \in Decisions : Answer(i, d))
        \/ (\E i \in Ids : ClearSlot(i) \/ Lapse(i)) \/ UNCHANGED vars
  BY <1>6 DEF CancelTurn, SweepLists, SweepDenies, ExpireReads, ExpireWrites, Answer, ClearSlot,
       Lapse, vars, AskMovesOn
<1> QED BY <1>2, <1>3, <1>4, <1>5, <1>6 DEF Next

-----------------------------------------------------------------------------
(* Who is at work on which prompt. *)

\* No two askers are at one prompt: they would make the same call, and hold the same gate.
LEMMA OneAsker ==
  ASSUME TypeInv, GateInv, PromptInv, NEW a \in Askers, NEW b \in Askers,
         ask[a].pc \in AtPrompt \cup {"insert"}, ask[b].pc \in AtPrompt \cup {"insert"},
         ask[a].prompt = ask[b].prompt
  PROVE  a = b
<1>1. PromptAt(a) /\ PromptAt(b)
  BY DEF PromptInv
<1>2. CASE ask[a].pc \in AtPrompt /\ ask[b].pc \in AtPrompt
  <2>1. ask[a].call = ask[b].call
    BY <1>1, <1>2 DEF PromptAt
  <2>2. gate[SubjectOf(a)] = a /\ gate[SubjectOf(b)] = b
    BY <1>2 DEF GateInv, AtPrompt, Inside
  <2> QED BY <2>1, <2>2 DEF SubjectOf
<1>3. CASE ask[a].pc = "insert" /\ ask[b].pc = "insert"
  BY <1>1, <1>3 DEF PromptAt
<1>4. CASE ask[a].pc # ask[b].pc /\ (ask[a].pc = "insert" \/ ask[b].pc = "insert")
  BY <1>1, <1>4 DEF PromptAt
<1> QED BY <1>2, <1>3, <1>4

\* An asker that stays at its prompt finds it as it was: no other step writes it again, or
\* takes the place of a waiter that is about to write it.
LEMMA PromptStays ==
  ASSUME TypeInv, RowInv, PromptInv, [Next]_vars, NEW b \in Askers,
         ask'[b].pc = ask[b].pc, ask'[b].prompt = ask[b].prompt, ask'[b].call = ask[b].call
  PROVE  PromptAt(b)'
<1> DEFINE p == ask[b].prompt
<1>1. AskInv /\ opened \in Nat /\ None \notin Askers
  BY TypeParts, BoundsAssumption
<1>2. \A a \in Askers : PromptAt(a)
  BY DEF PromptInv
<1>3. CASE ask[b].pc \in AtPrompt
  <2>1. p \in Ids /\ row[p].status # "none" /\ row[p].call = ask[b].call
    BY <1>1, <1>2, <1>3 DEF AskInv, PromptAt
  <2>2. ~Written(p)
    BY <1>2, <2>1 DEF Written, Insert, PromptAt
  <2>3. row'[p].status # "none" /\ row'[p].call = row[p].call
    BY <2>1, <2>2, RowEffect DEF RowMoves, Kept, Spent, TimedOut, Answered
  <2>4. ask'[b].pc # "insert"
    BY <1>3 DEF AtPrompt
  <2> QED BY <2>1, <2>3, <2>4 DEF PromptAt
<1>4. CASE ask[b].pc = "insert"
  <2>1. p \in Ids /\ row[p].status = "none" /\ waiter[p] = b /\ p <= opened
    BY <1>1, <1>2, <1>4 DEF AskInv, PromptAt
  <2>2. p \in Nat
    BY <2>1, BoundsAssumption DEF Ids
  <2>3. ~Written(p)
    <3>1. ASSUME NEW a \in Askers, Insert(a), ask[a].prompt = p PROVE FALSE
      <4>1. waiter[p] = a
        BY <1>2, <3>1 DEF Insert, PromptAt
      <4>2. ask'[b].pc = "wait"
        BY <2>1, <3>1, <4>1, InsertEffect DEF Becomes
      <4> QED BY <1>4, <4>2
    <3> QED BY <3>1 DEF Written
  <2>4. row'[p].status = "none"
    BY <2>1, <2>3, RowEffect DEF RowMoves, Kept, Spent, TimedOut, Answered, RowInv
  <2>5. ~Leaves(p)
    <3>1. ~Restart
      BY <1>4, Blank DEF Restart
    <3>2. ASSUME NEW a \in Askers, ask[a].prompt = p, Forget(a) PROVE FALSE
      BY <1>2, <2>1, <3>2 DEF Forget, PromptAt, AtPrompt
    <3>3. ASSUME NEW a \in Askers, ask[a].prompt = p, CreateFails(a), ask[a].pc = "insert"
          PROVE  FALSE
      <4>1. waiter[p] = a
        BY <1>2, <3>3 DEF PromptAt
      <4>2. ask'[b].pc = "decided"
        BY <2>1, <3>3, <4>1, WaitEffects DEF Becomes
      <4> QED BY <1>4, <4>2
    <3> QED BY <2>1, <3>1, <3>2, <3>3 DEF Leaves, Taken
  <2>6. ~Comes(p)
    BY <1>1, <2>1, <2>2 DEF Comes
  <2>7. waiter'[p] = b
    BY <2>1, <2>5, <2>6, WaiterEffect DEF WaiterMoves
  <2>8. p <= opened'
    BY <1>1, <2>1, <2>2, OpenedGrows
  <2> QED BY <1>4, <2>4, <2>7, <2>8 DEF PromptAt, AtPrompt
<1> QED BY <1>3, <1>4 DEF PromptAt

LEMMA PromptMoves ==
  ASSUME TypeInv, TypeInv', RowInv, PromptInv, NEW a \in Askers, AskerStep(a)
  PROVE  PromptAt(a)'
<1>1. /\ AskInv /\ opened \in Nat /\ row \in [Ids -> RowType]
      /\ waiter \in [Ids -> Askers \cup {None}]
  <2>1. AskInv /\ opened \in 0..MaxPrompts /\ OtherType
    BY TypeParts
  <2>2. opened \in Nat
    BY <2>1, BoundsAssumption
  <2> QED BY <2>1, <2>2 DEF OtherType
<1>2. PromptAt(a)
  BY DEF PromptInv
<1>3. ASSUME ask'[a].pc \notin AtPrompt \cup {"insert"} PROVE PromptAt(a)'
  BY <1>3 DEF PromptAt
<1>4. CASE Start(a) \/ EnterGate(a) \/ LeaveGate(a)
  BY <1>3, <1>4, StartEffect, EnterGateEffect, LeaveGateEffect DEF Becomes, AtPrompt
<1>5. CASE CreateFails(a) \/ Close(a)
  BY <1>3, <1>5, WaitEffects DEF Becomes, AtPrompt
<1>6. CASE Decide(a)
  BY <1>3, <1>6, DecideEffect DEF Becomes, AtPrompt
<1>7. CASE Finish(a)
  BY <1>3, <1>7, FinishEffect DEF NoAsk, AtPrompt
<1>8. CASE Redeem(a)
  <2>1. ASSUME NEW i \in Redeemable(ask[a].call), Becomes(a, "wait", i, row[i].decision, ask[a].by),
               row' = [row EXCEPT ![i].carry = FALSE]
        PROVE  PromptAt(a)'
    <3>1. i \in Ids /\ row[i].carry /\ row[i].call = ask[a].call
      BY <2>1 DEF Redeemable
    <3>2. Kept(i) \/ Spent(i)
      BY <1>1, <2>1, <3>1, SpendOne
    <3>3. row[i].status # "none"
      BY <3>1 DEF RowInv
    <3>4. row'[i].status # "none" /\ row'[i].call = row[i].call
      BY <3>2, <3>3 DEF Kept, Spent
    <3> QED BY <2>1, <3>1, <3>4 DEF PromptAt, Becomes
  <2>2. CASE Becomes(a, "adopt", ask[a].prompt, ask[a].answer, ask[a].by)
    BY <1>3, <2>2 DEF Becomes, AtPrompt
  <2> QED BY <1>8, <2>1, <2>2, RedeemEffect
<1>9. CASE Adopt(a)
  <2>1. ASSUME NEW i \in Adoptable(ask[a].call), Becomes(a, "register", i, ask[a].answer, ask[a].by)
        PROVE  PromptAt(a)'
    <3>1. row[i].status = "pending" /\ row[i].call = ask[a].call /\ row' = row
      BY <1>9 DEF Adopt, Adoptable, store
    <3> QED BY <2>1, <3>1 DEF PromptAt, Becomes
  <2>2. CASE Becomes(a, "open", ask[a].prompt, ask[a].answer, ask[a].by)
    BY <1>3, <2>2 DEF Becomes, AtPrompt
  <2> QED BY <1>9, <2>1, <2>2, AdoptEffect
<1>10. CASE Register(a)
  <2> DEFINE i == ask[a].prompt
  <2>1. i \in Ids /\ row[i].status # "none" /\ row[i].call = ask[a].call
    BY <1>1, <1>2, <1>10 DEF AskInv, Register, PromptAt, AtPrompt
  <2>2. ASSUME NEW d, Becomes(a, "wait", i, d, ask[a].by),
               row' = row \/ (row[i].carry /\ row' = [row EXCEPT ![i].carry = FALSE])
        PROVE  PromptAt(a)'
    <3>1. Kept(i) \/ Spent(i)
      BY <1>1, <2>1, <2>2, SpendOne DEF Kept
    <3>2. row'[i].status # "none" /\ row'[i].call = row[i].call
      BY <2>1, <3>1 DEF Kept, Spent
    <3> QED BY <2>1, <2>2, <3>2 DEF PromptAt, Becomes
  <2>3. CASE Becomes(a, "open", i, ask[a].answer, ask[a].by)
    BY <1>3, <2>3 DEF Becomes, AtPrompt
  <2> QED BY <1>10, <2>2, <2>3, RegisterEffect
<1>11. CASE Open(a)
  <2>1. Becomes(a, "insert", opened + 1, ask[a].answer, ask[a].by)
    BY <1>11, OpenEffect
  <2>2. opened' = opened + 1 /\ waiter' = [waiter EXCEPT ![opened + 1] = a] /\ row' = row
    BY <1>11 DEF Open
  <2>3. ask'[a].prompt \in Ids
    <3>1. AskInv'
      BY DEF TypeInv
    <3> QED BY <2>1, <3>1 DEF AskInv, Becomes
  <2>4. opened + 1 \in Ids
    BY <2>1, <2>3 DEF Becomes
  <2>5. row[opened + 1].status = "none" /\ waiter'[opened + 1] = a
    <3>1. opened + 1 > opened
      BY <1>1
    <3>2. row[opened + 1].status = "none"
      BY <2>4, <3>1 DEF RowInv
    <3>3. waiter'[opened + 1] = a
      BY <1>1, <2>2, <2>4
    <3> QED BY <3>2, <3>3
  <2> QED BY <1>1, <2>1, <2>2, <2>5 DEF PromptAt, Becomes, AtPrompt
<1>12. CASE Insert(a)
  <2>1. Becomes(a, "wait", ask[a].prompt, ask[a].answer, ask[a].by)
    BY <1>12, InsertEffect
  <2>2. ask[a].prompt \in Ids
    BY <1>1, <1>12 DEF AskInv, Insert
  <2>3. row' = [row EXCEPT ![ask[a].prompt] = [NoRow EXCEPT !.status = "pending", !.call = ask[a].call]]
    BY <1>12 DEF Insert
  <2>4. row'[ask[a].prompt] = [NoRow EXCEPT !.status = "pending", !.call = ask[a].call]
    BY <1>1, <2>2, <2>3
  <2>5. row'[ask[a].prompt].status = "pending" /\ row'[ask[a].prompt].call = ask[a].call
    BY <2>4 DEF NoRow
  <2> QED BY <2>1, <2>5 DEF PromptAt, Becomes
<1>13. CASE Receive(a) \/ GiveUp(a) \/ Forget(a)
  <2>1. /\ ask[a].pc \in AtPrompt /\ row' = row
        /\ ask'[a].prompt = ask[a].prompt /\ ask'[a].call = ask[a].call
        /\ ask'[a].pc \in {"forget", "close"}
    BY <1>13, WaitEffects DEF Receive, GiveUp, Forget, Becomes, AtPrompt, store
  <2> QED BY <1>2, <2>1 DEF PromptAt
<1> QED BY <1>4, <1>5, <1>6, <1>7, <1>8, <1>9, <1>10, <1>11, <1>12, <1>13 DEF AskerStep

LEMMA ShownEffect ==
  ASSUME TypeInv, [Next]_vars
  PROVE  /\ \/ slot' = slot \/ slot' = 0
            \/ \E a \in Askers : AskerStep(a) /\ ask'[a].pc = "wait" /\ slot' = ask'[a].prompt
         /\ sweep' = sweep \/ sweep' = 0 \/ (sweep' = slot /\ row' = row)
<1>1. ASSUME NEW a \in Askers, AskerStep(a)
      PROVE  /\ \/ slot' = slot \/ slot' = 0
                \/ ask'[a].pc = "wait" /\ slot' = ask'[a].prompt
             /\ sweep' = sweep
  <2>1. CASE Redeem(a)
    <3>1. ASSUME NEW i \in Redeemable(ask[a].call), Parks(a, i),
                 ask' = [ask EXCEPT ![a].pc = "wait", ![a].prompt = i, ![a].answer = row[i].decision]
          PROVE  slot' = slot \/ (ask'[a].pc = "wait" /\ slot' = ask'[a].prompt)
      BY <3>1, TypeParts DEF Parks, AskType
    <3> QED BY <2>1, <3>1 DEF Redeem, tickers
  <2>2. CASE Register(a)
    <3>1. \/ Becomes(a, "wait", ask[a].prompt, ask'[a].answer, ask[a].by)
          \/ Becomes(a, "open", ask[a].prompt, ask[a].answer, ask[a].by)
      BY <2>2, RegisterEffect DEF Becomes
    <3>2. Becomes(a, "open", ask[a].prompt, ask[a].answer, ask[a].by) => slot' = slot
      <4>1. CASE ask' = [ask EXCEPT ![a].pc = "wait", ![a].answer = row[ask[a].prompt].decision]
        <5>1. ask \in [Askers -> AskType] /\ ask[a] \in AskType
          BY TypeParts
        <5>2. ask'[a].pc = "wait"
          BY <4>1, <5>1 DEF AskType
        <5> QED BY <5>2 DEF Becomes
      <4>2. CASE Goto(a, "wait")
        <5>1. ask \in [Askers -> AskType] /\ ask[a] \in AskType
          BY TypeParts
        <5>2. ask'[a].pc = "wait"
          BY <4>2, <5>1 DEF Goto, AskType
        <5> QED BY <5>2 DEF Becomes
      <4> QED BY <2>2, <4>1, <4>2 DEF Register
    <3>3. slot' = slot \/ slot' = ask[a].prompt
      BY <2>2 DEF Register, Parks
    <3>4. sweep' = sweep
      BY <2>2 DEF Register, tickers
    <3> QED BY <3>1, <3>2, <3>3, <3>4 DEF Becomes
  <2>3. CASE Insert(a)
    <3>1. ask'[a].pc = "wait" /\ ask'[a].prompt = ask[a].prompt
      BY <2>3, InsertEffect DEF Becomes
    <3> QED BY <2>3, <3>1 DEF Insert, Parks, tickers
  <2>4. CASE Start(a) \/ EnterGate(a) \/ LeaveGate(a) \/ Adopt(a) \/ Open(a) \/ CreateFails(a)
          \/ Receive(a) \/ GiveUp(a) \/ Forget(a)
    BY <2>4 DEF Start, EnterGate, LeaveGate, Adopt, Open, CreateFails, Receive, GiveUp, Forget,
         store, tickers
  <2>5. CASE Close(a) \/ Decide(a) \/ Finish(a)
    BY <2>5 DEF Close, Decide, Finish, Unparks, tickers
  <2> QED BY <1>1, <2>1, <2>2, <2>3, <2>4, <2>5 DEF AskerStep
<1>2. CASE SweepLists \/ SweepDenies \/ (\E i \in Ids : ClearSlot(i) \/ Lapse(i))
  BY <1>2 DEF SweepLists, SweepDenies, ClearSlot, Lapse, store, tickers
<1>3. CASE BeginTurn \/ EndTurn \/ CancelTurn \/ Restart \/ ExpireReads \/ ExpireWrites \/ Deliver
        \/ (\E i \in Ids, d \in Decisions : Answer(i, d)) \/ UNCHANGED vars
  BY <1>3 DEF BeginTurn, EndTurn, CancelTurn, Restart, ExpireReads, ExpireWrites, Deliver, Answer,
       store, tickers, vars
<1> QED BY <1>1, <1>2, <1>3 DEF Next

LEMMA PromptStep ==
  ASSUME TypeInv, TypeInv', RowInv, PromptInv, [Next]_vars
  PROVE  PromptInv'
<1>1. ASSUME NEW b \in Askers PROVE PromptAt(b)'
  <2>1. CASE AskerStep(b)
    BY <2>1, PromptMoves
  <2>2. CASE Back(b)
    BY <2>2 DEF Back, PromptAt, AtPrompt
  <2>3. CASE Told(b) \/ ask'[b] = ask[b]
    BY <2>3, PromptStays DEF Told
  <2> QED BY <2>1, <2>2, <2>3, AskEffect DEF AskMovesOn
<1>2. \A i \in Ids : row[i].status # "none" => row'[i].status # "none"
  BY RowEffect DEF RowMoves, Kept, Spent, Written, TimedOut, Answered
<1>3. slot \in 0..MaxPrompts /\ sweep \in 0..MaxPrompts /\ ShownInv /\ opened \in Nat
  <2>1. OtherType /\ opened \in 0..MaxPrompts
    BY TypeParts
  <2>2. opened \in Nat
    BY <2>1, BoundsAssumption
  <2> QED BY <2>1, <2>2 DEF OtherType, PromptInv
<1>4. /\ slot # 0 => slot \in Ids /\ row'[slot].status # "none"
      /\ sweep # 0 => sweep \in Ids /\ row'[sweep].status # "none"
  <2>1. (slot # 0 => slot \in Ids) /\ (sweep # 0 => sweep \in Ids)
    BY <1>3, BoundsAssumption DEF Ids
  <2> QED BY <1>2, <1>3, <2>1 DEF ShownInv
<1>5. slot' # 0 => row'[slot'].status # "none"
  <2>1. ASSUME NEW a \in Askers, ask'[a].pc = "wait", slot' = ask'[a].prompt
        PROVE  row'[slot'].status # "none"
    BY <1>1, <2>1 DEF PromptAt, AtPrompt
  <2> QED BY <1>4, <2>1, ShownEffect
<1>6. sweep' # 0 => row'[sweep'].status # "none"
  BY <1>4, ShownEffect
<1>7. resolver' # NoResolve => row'[resolver'.id].status # "none" /\ waiter'[resolver'.id] = None
  <2>1. CASE resolver' = resolver /\ resolver # NoResolve
    <3>1. /\ resolver.id \in Ids /\ row[resolver.id].status # "none"
          /\ waiter[resolver.id] = None
      BY <1>3, <2>1 DEF ShownInv, TypeInv, ResolverInv
    <3>2. ~Comes(resolver.id)
      <4>1. resolver.id \in Nat /\ ~(resolver.id > opened)
        <5>1. ~(resolver.id > opened)
          BY <3>1 DEF RowInv
        <5> QED BY <3>1, <5>1, BoundsAssumption DEF Ids
      <4>2. resolver.id # opened + 1
        BY <1>3, <4>1
      <4> QED BY <2>1, <4>2 DEF Comes, ResolveFree
    <3>3. waiter'[resolver.id] = None
      BY <3>1, <3>2, WaiterEffect DEF WaiterMoves, Leaves
    <3> QED BY <1>2, <2>1, <3>1, <3>3
  <2>2. ASSUME NEW i \in Ids, Taken(i)
        PROVE  row'[resolver'.id].status # "none" /\ waiter'[resolver'.id] = None
    BY <2>2 DEF Taken
  <2> QED BY <2>1, <2>2, WaiterEffect
<1> QED BY <1>1, <1>5, <1>6, <1>7 DEF PromptInv, ShownInv

-----------------------------------------------------------------------------
(* An accepted answer reaches its waiter. *)

LEMMA Counts ==
  /\ TypeInv => opened \in Nat
  /\ \A i \in Ids : i \in Nat /\ i # 0
  /\ \A i \in Nat, n \in Nat : ~(i > n) => i # n + 1
  /\ \A n : n = 0 => n <= 1 /\ n # 1
<1>1. TypeInv => opened \in 0..MaxPrompts
  BY TypeParts
<1> QED BY <1>1, BoundsAssumption DEF Ids

LEMMA DeliverTells ==
  ASSUME TypeInv, Deliver, NEW b \in Askers, resolver.live = b,
         ask[b].pc = "wait", ask[b].prompt = resolver.id
  PROVE  ask'[b].answer # ""
<1>1. ask \in [Askers -> AskType] /\ b # None /\ ResolverInv /\ resolver # NoResolve
  BY TypeParts, BoundsAssumption DEF TypeInv, Deliver, ResolveFree
<1>2. ask' = [ask EXCEPT ![b].answer = resolver.decision]
  BY <1>1 DEF Deliver
<1>3. ask'[b].answer = resolver.decision
  BY <1>1, <1>2 DEF AskType
<1> QED BY <1>1, <1>3 DEF ResolverInv, Decisions

LEMMA WaitMoves ==
  ASSUME TypeInv, RowInv, PromptInv, NEW a \in Askers, AskerStep(a)
  PROVE  WaitAt(a)'
<1>1. AskInv /\ row \in [Ids -> RowType] /\ waiter \in [Ids -> Askers \cup {None}]
  BY TypeParts DEF OtherType
<1>2. ASSUME ask'[a].pc # "wait" PROVE WaitAt(a)'
  BY <1>2 DEF WaitAt
<1>3. ASSUME ask'[a].answer # "" PROVE WaitAt(a)'
  BY <1>3 DEF WaitAt
<1>4. CASE Start(a) \/ EnterGate(a) \/ LeaveGate(a)
  BY <1>2, <1>4, StartEffect, EnterGateEffect, LeaveGateEffect DEF Becomes
<1>5. CASE CreateFails(a) \/ Receive(a) \/ GiveUp(a) \/ Forget(a) \/ Close(a)
  BY <1>2, <1>5, WaitEffects DEF Becomes
<1>6. CASE Decide(a)
  BY <1>2, <1>6, DecideEffect DEF Becomes
<1>7. CASE Finish(a)
  BY <1>2, <1>7, FinishEffect DEF NoAsk
<1>8. CASE Redeem(a)
  <2>1. \A i \in Redeemable(ask[a].call) : row[i].decision # ""
    BY DEF Redeemable, RowInv, Granting
  <2> QED BY <1>2, <1>3, <1>8, <2>1, RedeemEffect DEF Becomes
<1>9. CASE Adopt(a) \/ Open(a)
  BY <1>2, <1>9, AdoptEffect, OpenEffect DEF Becomes
<1>10. CASE Register(a)
  <2> DEFINE i == ask[a].prompt
  <2>1. i \in Ids
    BY <1>1, <1>10 DEF AskInv, Register, AtPrompt
  <2>2. CASE Becomes(a, "wait", i, row[i].decision, ask[a].by) /\ row[i].carry
    BY <1>3, <2>1, <2>2 DEF Becomes, RowInv, Granting
  <2>3. CASE /\ Becomes(a, "wait", i, ask[a].answer, ask[a].by)
             /\ row[i].status = "pending" /\ row' = row
             /\ waiter' = [waiter EXCEPT ![i] = a]
    <3>1. row'[i].decision = "" /\ waiter'[i] = a
      BY <1>1, <2>1, <2>3 DEF RowInv
    <3> QED BY <2>3, <3>1 DEF WaitAt, Becomes
  <2>4. CASE Becomes(a, "open", i, ask[a].answer, ask[a].by)
    BY <1>2, <2>4 DEF Becomes
  <2> QED BY <1>10, <2>2, <2>3, <2>4, RegisterEffect
<1>11. CASE Insert(a)
  <2> DEFINE i == ask[a].prompt
  <2>1. i \in Ids /\ waiter[i] = a
    BY <1>1, <1>11 DEF AskInv, Insert, PromptInv, PromptAt
  <2>2. /\ row' = [row EXCEPT ![i] = [NoRow EXCEPT !.status = "pending", !.call = ask[a].call]]
        /\ waiter' = waiter
    BY <1>11 DEF Insert, broker
  <2>3. row'[i] = [NoRow EXCEPT !.status = "pending", !.call = ask[a].call]
    BY <1>1, <2>1, <2>2
  <2>4. row'[i].decision = "" /\ waiter'[i] = a
    BY <2>1, <2>2, <2>3 DEF NoRow
  <2>5. ask'[a].prompt = i
    BY <1>11, InsertEffect DEF Becomes
  <2> QED BY <2>4, <2>5 DEF WaitAt
<1> QED BY <1>4, <1>5, <1>6, <1>7, <1>8, <1>9, <1>10, <1>11 DEF AskerStep

LEMMA WaitStays ==
  ASSUME TypeInv, GateInv, RowInv, PromptInv, WaitInv, [Next]_vars, NEW b \in Askers,
         ask'[b] = ask[b]
  PROVE  WaitAt(b)'
<1> DEFINE p == ask[b].prompt
<1> SUFFICES ASSUME ask[b].pc = "wait", ask[b].answer = ""
             PROVE  /\ row'[p].decision \notin {"once", "session", "deny"}
                    /\ waiter'[p] = b \/ (resolver'.live = b /\ resolver'.id = p)
  BY DEF WaitAt
<1>1. AskInv /\ b # None /\ opened \in Nat
  BY TypeParts, Counts, BoundsAssumption
<1>2. p \in Ids /\ row[p].status # "none"
  BY <1>1 DEF AskInv, PromptInv, PromptAt, AtPrompt
<1>3. /\ row[p].decision \notin {"once", "session", "deny"}
      /\ waiter[p] = b \/ (resolver.live = b /\ resolver.id = p)
  BY DEF WaitInv, WaitAt
<1>4. ~(Deliver /\ resolver.live = b /\ resolver.id = p)
  BY DeliverTells
<1>5. ~Restart
  BY Blank DEF Restart
<1>6. row'[p].decision \notin {"once", "session", "deny"}
  <2>1. ~Answered(p)
    <3>1. Answered(p) => waiter[p] = None
      BY DEF Answered, Deliver, ResolveFree, PromptInv, ShownInv
    <3> QED BY <1>1, <1>3, <1>4, <3>1 DEF Answered
  <2> QED BY <1>2, <1>3, <2>1, RowEffect DEF RowMoves, Kept, Spent, Written, TimedOut
<1>7. CASE waiter[p] = b
  <2>1. ASSUME NEW a \in Askers, ask[a].prompt = p, Forget(a) \/ (CreateFails(a) /\ ask[a].pc = "insert")
        PROVE  FALSE
    <3>1. ask[a].pc \in {"forget", "insert"}
      BY <2>1 DEF Forget
    <3>2. a = b
      BY <2>1, <3>1, OneAsker DEF AtPrompt
    <3> QED BY <3>1, <3>2
  <2>2. CASE Leaves(p)
    <3>1. Taken(p)
      BY <1>5, <2>1, <2>2 DEF Leaves
    <3> QED BY <1>6, <1>7, <3>1 DEF Taken
  <2>3. ~Comes(p)
    <3>1. ~(p > opened)
      BY <1>2 DEF RowInv
    <3>2. p \in Nat
      BY <1>2, Counts
    <3>3. p # opened + 1
      BY <1>1, <3>1, <3>2, Counts
    <3> QED BY <1>1, <1>7, <3>3 DEF Comes
  <2> QED BY <1>2, <1>6, <1>7, <2>2, <2>3, WaiterEffect DEF WaiterMoves
<1>8. CASE resolver.live = b /\ resolver.id = p
  <2>1. \A i \in Ids : ~Taken(i)
    BY <1>1, <1>8, Blank DEF Taken, ResolveFree
  <2> QED BY <1>4, <1>5, <1>6, <1>8, <2>1, WaiterEffect
<1> QED BY <1>3, <1>7, <1>8

LEMMA WaitStep ==
  ASSUME TypeInv, GateInv, RowInv, PromptInv, WaitInv, [Next]_vars
  PROVE  WaitInv'
<1>1. ASSUME NEW b \in Askers PROVE WaitAt(b)'
  <2>1. CASE AskerStep(b)
    BY <2>1, WaitMoves
  <2>2. CASE Back(b)
    BY <2>2 DEF Back, WaitAt
  <2>3. CASE Told(b)
    <3>1. ask'[b].answer # ""
      BY <2>3, DeliverTells DEF Told
    <3> QED BY <3>1 DEF WaitAt
  <2>4. CASE ask'[b] = ask[b]
    BY <2>4, WaitStays
  <2> QED BY <2>1, <2>2, <2>3, <2>4, AskEffect DEF AskMovesOn
<1> QED BY <1>1 DEF WaitInv

LEMMA InitStarts == Init => RowInv /\ PromptInv /\ WaitInv /\ GateInv
<1> SUFFICES ASSUME Init PROVE RowInv /\ PromptInv /\ WaitInv /\ GateInv
  OBVIOUS
<1>1. /\ \A a \in Askers : ask[a].pc = "idle"
      /\ \A i \in Ids : row[i] = NoRow
      /\ slot = 0 /\ sweep = 0 /\ resolver = NoResolve
  BY Blank DEF Init
<1>2. RowInv
  <2>1. NoRow.status = "none" /\ NoRow.decision = "" /\ NoRow.carry = FALSE
    BY DEF NoRow
  <2> QED BY <1>1, <2>1 DEF RowInv
<1>3. PromptInv
  BY <1>1 DEF PromptInv, PromptAt, ShownInv, AtPrompt
<1>4. WaitInv /\ GateInv
  BY <1>1 DEF WaitInv, WaitAt, GateInv, Inside
<1> QED BY <1>2, <1>3, <1>4

\* For any number of parallel calls and prompts, with restarts, cancelled turns and failed
\* writes: whoever waits is in the broker's map or its answer is on the way, so that no call
\* goes on waiting for a prompt the operator has answered (permbroker.go, resolveMu).
THEOREM AnswersArrive == Spec => []AnswersReachWaiters
<1>1. TypeInv /\ WaitInv => AnswersReachWaiters
  BY DEF WaitInv, WaitAt, AnswersReachWaiters
<1> QED BY <1>1, InitTypeInv, NextTypeInv, InitStarts, GateStep, RowInvStep, PromptStep, WaitStep,
       PTL DEF Spec

-----------------------------------------------------------------------------
(* An answer counts once. *)

LEMMA Finite ==
  \A S \in SUBSET Askers : IsFiniteSet(S) /\ Cardinality(S) \in Nat
BY AskersAssumption, FS_Subset, FS_CardinalityType

\* The ways in which a step may move the answers of a prompt: none is added; the kept one is
\* given to an asker; one more is accepted, and given to an asker or kept; an asker uses its own.
LEMMA CountMoves ==
  ASSUME NEW i \in Ids, CountAt(i), given[i] \in Nat, ran[i] \in Nat, given'[i] \in Nat,
         \/ /\ Users(i)' \subseteq Users(i) /\ (row'[i].carry => row[i].carry)
            /\ ran'[i] = ran[i] /\ given'[i] \in {given[i], given[i] + 1}
         \/ /\ \E a \in Askers : Users(i)' \subseteq Users(i) \cup {a}
            /\ row[i].carry /\ ~row'[i].carry
            /\ ran'[i] = ran[i] /\ given'[i] = given[i]
         \/ /\ \E a \in Askers : Users(i)' \subseteq Users(i) \cup {a}
            /\ row'[i].carry => row[i].carry
            /\ ran'[i] = ran[i] /\ given'[i] = given[i] + 1
         \/ /\ Users(i)' \subseteq Users(i)
            /\ ran'[i] = ran[i] /\ given'[i] = given[i] + 1
         \/ /\ \E a \in Users(i) : Users(i)' \subseteq Users(i) \ {a}
            /\ row'[i].carry => row[i].carry
            /\ ran'[i] = ran[i] + 1 /\ given'[i] = given[i]
  PROVE  CountAt(i)'
<1> DEFINE n == Cardinality(Users(i))
           m == Cardinality(Users(i)')
<1>1. Users(i) \in SUBSET Askers /\ Users(i)' \in SUBSET Askers
  BY DEF Users
<1>2. IsFiniteSet(Users(i)) /\ n \in Nat /\ m \in Nat
  BY <1>1, Finite
<1>3. Keeps(i) \in {0, 1} /\ Keeps(i)' \in {0, 1}
  BY DEF Keeps
<1>4. (row'[i].carry => row[i].carry) => Keeps(i)' <= Keeps(i)
  BY DEF Keeps
<1>5. ran[i] + n + Keeps(i) <= given[i]
  BY DEF CountAt
<1>6. Users(i)' \subseteq Users(i) => m <= n
  BY <1>2, FS_Subset
<1>7. ASSUME NEW a \in Askers, Users(i)' \subseteq Users(i) \cup {a} PROVE m <= n + 1
  <2>1. IsFiniteSet(Users(i) \cup {a}) /\ Cardinality(Users(i) \cup {a}) \in {n, n + 1}
    BY <1>2, FS_AddElement
  <2>2. m <= Cardinality(Users(i) \cup {a})
    BY <1>7, <2>1, FS_Subset
  <2> QED BY <1>2, <2>1, <2>2
<1>8. ASSUME NEW a \in Users(i), Users(i)' \subseteq Users(i) \ {a} PROVE m + 1 <= n
  <2>1. IsFiniteSet(Users(i) \ {a}) /\ Cardinality(Users(i) \ {a}) = n - 1
    BY <1>2, FS_RemoveElement
  <2>2. m <= Cardinality(Users(i) \ {a})
    BY <1>8, <2>1, FS_Subset
  <2> QED BY <1>2, <2>1, <2>2
<1> HIDE DEF n, m
<1>9. ran'[i] + m + Keeps(i)' <= given'[i]
  <2>1. CASE /\ Users(i)' \subseteq Users(i) /\ (row'[i].carry => row[i].carry)
             /\ ran'[i] = ran[i] /\ given'[i] \in {given[i], given[i] + 1}
    BY <1>2, <1>3, <1>4, <1>5, <1>6, <2>1
  <2>2. CASE /\ \E a \in Askers : Users(i)' \subseteq Users(i) \cup {a}
             /\ row[i].carry /\ ~row'[i].carry
             /\ ran'[i] = ran[i] /\ given'[i] = given[i]
    <3>1. m <= n + 1 /\ Keeps(i) = 1 /\ Keeps(i)' = 0
      BY <1>7, <2>2 DEF Keeps
    <3> QED BY <1>2, <1>5, <2>2, <3>1
  <2>3. CASE /\ \E a \in Askers : Users(i)' \subseteq Users(i) \cup {a}
             /\ row'[i].carry => row[i].carry
             /\ ran'[i] = ran[i] /\ given'[i] = given[i] + 1
    <3>1. m <= n + 1
      BY <1>7, <2>3
    <3> QED BY <1>2, <1>3, <1>4, <1>5, <2>3, <3>1
  <2>4. CASE Users(i)' \subseteq Users(i) /\ ran'[i] = ran[i] /\ given'[i] = given[i] + 1
    BY <1>2, <1>3, <1>5, <1>6, <2>4
  <2>5. CASE /\ \E a \in Users(i) : Users(i)' \subseteq Users(i) \ {a}
             /\ row'[i].carry => row[i].carry
             /\ ran'[i] = ran[i] + 1 /\ given'[i] = given[i]
    <3>1. m + 1 <= n
      BY <1>8, <2>5
    <3> QED BY <1>2, <1>3, <1>4, <1>5, <2>5, <3>1
  <2> QED BY <2>1, <2>2, <2>3, <2>4, <2>5
<1> QED BY <1>9 DEF CountAt, n, m

\* No step but the delivery of its answer makes a prompt's answer one that is kept, and
\* nobody comes to wait for a prompt that is resolved.
LEMMA AnswerFrame ==
  ASSUME TypeInv, RowInv, PromptInv, [Next]_vars, NEW i \in Ids, ~Answered(i)
  PROVE  /\ row'[i].carry => row[i].carry
         /\ Settled(i) => Settled(i)'
<1>1. RowMoves(i) /\ WaiterMoves(i)
  BY RowEffect, WaiterEffect
<1>2. Written(i) => row[i].status = "none"
  BY DEF Written, Insert, PromptInv, PromptAt
<1>3. row'[i].carry => row[i].carry
  BY <1>1 DEF RowMoves, Kept, Spent, Written, TimedOut
<1>4. row'[i].status # "resolved" => row[i].status # "resolved"
  BY <1>1, <1>2 DEF RowMoves, Kept, Spent, TimedOut
<1>5. Comes(i) => row[i].status # "resolved"
  <2>1. ASSUME i = opened + 1 PROVE row[i].status # "resolved"
    <3>1. i > opened
      BY <2>1, Counts
    <3> QED BY <3>1 DEF RowInv
  <2> QED BY <2>1 DEF Comes
<1>6. waiter'[i] # None => waiter[i] # None \/ row[i].status # "resolved"
  BY <1>1, <1>5 DEF WaiterMoves, Leaves
<1>7. ASSUME resolver'.id = i, resolver'.live # None
      PROVE  waiter[i] # None \/ (resolver.id = i /\ resolver.live # None)
  BY <1>7, WaiterEffect, Blank DEF Taken
<1> QED BY <1>3, <1>4, <1>6, <1>7 DEF Settled

LEMMA UsingMoves ==
  ASSUME TypeInv, NEW a \in Askers, AskerStep(a), ~Redeem(a), ~Register(a), NEW i, Using(a, i)'
  PROVE  Using(a, i)
<1>1. /\ ask'[a].prompt = i /\ ask'[a].answer \in Granting
      /\ \/ ask'[a].pc \in {"wait", "forget", "close", "decided"}
         \/ ask'[a].pc = "run" /\ ask'[a].by = "answer"
  BY DEF Using
<1>2. ask[a].pc \in Early \cup {"insert"} => ask[a].answer \notin Granting
  BY TypeParts DEF AskInv, Granting
<1>3. CASE Start(a) \/ EnterGate(a) \/ LeaveGate(a)
  <2>1. ask[a].pc \in Early /\ ask'[a].answer = ask[a].answer
    BY <1>3, StartEffect, EnterGateEffect, LeaveGateEffect
       DEF Start, EnterGate, LeaveGate, Early, Becomes
  <2> QED BY <1>1, <1>2, <2>1
<1>4. CASE Adopt(a) \/ Open(a) \/ Insert(a)
  <2>1. ask[a].pc \in Early \cup {"insert"} /\ ask'[a].answer = ask[a].answer
    BY <1>4, AdoptEffect, OpenEffect, InsertEffect DEF Adopt, Open, Insert, Early, Becomes
  <2> QED BY <1>1, <1>2, <2>1
<1>5. CASE CreateFails(a) \/ GiveUp(a)
  BY <1>1, <1>5, WaitEffects DEF Becomes, Granting
<1>6. CASE Receive(a) \/ Forget(a) \/ Close(a)
  <2>1. /\ ask[a].pc \in {"wait", "forget", "close"}
        /\ ask'[a].prompt = ask[a].prompt /\ ask'[a].answer = ask[a].answer
    BY <1>6, WaitEffects DEF Receive, Forget, Close, Becomes
  <2> QED BY <1>1, <2>1 DEF Using
<1>7. CASE Decide(a)
  <2>1. ask[a].pc = "decided" /\ ask'[a].prompt = ask[a].prompt /\ ask'[a].answer = ask[a].answer
    BY <1>7, DecideEffect DEF Decide, Becomes
  <2> QED BY <1>1, <2>1 DEF Using
<1>8. CASE Finish(a)
  BY <1>1, <1>8, FinishEffect DEF NoAsk
<1> QED BY <1>3, <1>4, <1>5, <1>6, <1>7, <1>8 DEF AskerStep

\* An asker redeems or adopts: it is given the answer kept for its call, or none.
LEMMA CountSpend ==
  ASSUME TypeInv, RowInv, PromptInv, CountInv, [Next]_vars, NEW a \in Askers,
         Redeem(a) \/ Register(a), UNCHANGED history
  PROVE  CountInv'
<1> SUFFICES ASSUME NEW j \in Ids PROVE CountAt(j)'
  BY DEF CountInv
<1>1. /\ CountAt(j) /\ row \in [Ids -> RowType] /\ given[j] \in Nat /\ ran[j] \in Nat
      /\ given'[j] = given[j] /\ ran'[j] = ran[j]
  BY TypeParts DEF CountInv, OtherType, history
<1>2. \A o \in Askers \ {a} : ask'[o] = ask[o]
  BY AskerAlone DEF AskerStep
<1>3. ask[a].answer = "" /\ (Register(a) => ask[a].prompt \in Ids)
  BY TypeParts DEF Redeem, Register, AskInv, Early, AtPrompt
<1>4. \/ ask'[a].answer = "" /\ row' = row
      \/ ask'[a].answer = "" /\ \A i \in Ids : row'[i].carry => row[i].carry
      \/ \E i \in Ids : row[i].carry /\ row' = [row EXCEPT ![i].carry = FALSE] /\ ask'[a].prompt = i
  <2>1. CASE Redeem(a)
    BY <1>3, <2>1, RedeemEffect DEF Becomes, Redeemable
  <2>2. CASE Register(a)
    BY <1>3, <2>2, RegisterEffect DEF Becomes
  <2> QED BY <2>1, <2>2
<1>5. CASE ask'[a].answer = "" /\ \A i \in Ids : row'[i].carry => row[i].carry
  <2>1. Users(j)' \subseteq Users(j)
    BY <1>2, <1>5 DEF Users, Using, Granting
  <2> QED BY <1>1, <1>5, <2>1, CountMoves
<1>6. ASSUME NEW i \in Ids, row[i].carry, row' = [row EXCEPT ![i].carry = FALSE], ask'[a].prompt = i
      PROVE  CountAt(j)'
  <2>1. Users(j)' \subseteq Users(j) \cup {a}
    BY <1>2 DEF Users, Using
  <2>2. CASE j = i
    <3>1. ~row'[j].carry
      <4>1. row[i] \in RowType /\ row'[i] = [row[i] EXCEPT !.carry = FALSE]
        BY <1>1, <1>6
      <4> QED BY <2>2, <4>1 DEF RowType
    <3> QED BY <1>1, <1>6, <2>1, <2>2, <3>1, CountMoves
  <2>3. CASE j # i
    <3>1. Users(j)' \subseteq Users(j)
      BY <1>2, <1>6, <2>3 DEF Users, Using
    <3>2. row'[j] = row[j]
      BY <1>1, <1>6, <2>3
    <3> QED BY <1>1, <3>1, <3>2, CountMoves
  <2> QED BY <2>2, <2>3
<1> QED BY <1>4, <1>5, <1>6

\* What the delivery of an answer does to the counts of a prompt.
LEMMA DeliverGives ==
  ASSUME TypeInv, PromptInv, Deliver, NEW j \in Ids
  PROVE  /\ resolver.id \in Ids /\ row[resolver.id].status # "none" /\ waiter[resolver.id] = None
         /\ waiter' = waiter /\ resolver' = NoResolve /\ ran' = ran
         /\ given[j] \in Nat /\ given'[j] \in {given[j], given[j] + 1}
         /\ j # resolver.id => given'[j] = given[j] /\ (j \in unsaved' <=> j \in unsaved)
         /\ j \in unsaved => j \in unsaved'
         /\ j = resolver.id /\ resolver.decision \in Granting /\ resolver.live # None =>
              given'[j] = given[j] + 1
         /\ Answered(j) /\ resolver.decision \in Granting => given'[j] = given[j] + 1
         /\ j = resolver.id /\ j \notin unsaved' =>
              /\ row[j].status = "pending" => row'[j].status = "resolved"
              /\ row[j].status # "pending" =>
                   row' = row /\ (resolver.live = None => given' = given)
<1> DEFINE i == resolver.id
           d == resolver.decision
<1>1. /\ resolver # NoResolve /\ given \in [Ids -> Nat] /\ row \in [Ids -> RowType]
      /\ waiter' = waiter /\ resolver' = NoResolve /\ ran' = ran
  BY TypeParts DEF OtherType, Deliver, ResolveFree
<1>2. i \in Ids /\ row[i].status # "none" /\ waiter[i] = None
  BY <1>1 DEF TypeInv, ResolverInv, PromptInv, ShownInv
<1>3. PICK saved \in BOOLEAN :
        /\ row' = IF saved /\ StillPending(i) THEN [row EXCEPT ![i] = Resolved(i, d, Carried(resolver.live, d))]
                                              ELSE row
        /\ given' = IF d \in Granting /\ Accepted(saved) THEN [given EXCEPT ![i] = @ + 1] ELSE given
        /\ unsaved' = IF saved THEN unsaved ELSE unsaved \cup {i}
  BY DEF Deliver
<1>4. given' = given \/ given' = [given EXCEPT ![i] = @ + 1]
  BY <1>3
<1>5. given[j] \in Nat /\ given'[j] \in {given[j], given[j] + 1} /\ (j # i => given'[j] = given[j])
  BY <1>1, <1>2, <1>4
<1>6. (j # i => (j \in unsaved' <=> j \in unsaved)) /\ (j \in unsaved => j \in unsaved')
  BY <1>3
<1>7. ASSUME j = i, d \in Granting, Accepted(saved) PROVE given'[j] = given[j] + 1
  BY <1>1, <1>3, <1>7
<1>8. j = i /\ d \in Granting /\ resolver.live # None => given'[j] = given[j] + 1
  BY <1>7 DEF Accepted
<1>9. ASSUME Answered(j), d \in Granting PROVE given'[j] = given[j] + 1
  <2>1. row'[j] # row[j] /\ j = i
    BY <1>9 DEF Answered
  <2>2. saved /\ StillPending(i)
    BY <1>3, <2>1
  <2> QED BY <1>7, <1>9, <2>1, <2>2 DEF Accepted
<1>10. ASSUME j = i, j \notin unsaved'
       PROVE  /\ row[j].status = "pending" => row'[j].status = "resolved"
              /\ row[j].status # "pending" =>
                   row' = row /\ (resolver.live = None => given' = given)
  <2>1. saved
    BY <1>3, <1>10
  <2>2. CASE row[j].status = "pending"
    <3>1. row' = [row EXCEPT ![i] = Resolved(i, d, Carried(resolver.live, d))]
      BY <1>3, <1>10, <2>1, <2>2 DEF StillPending
    <3>2. row'[i] = Resolved(i, d, Carried(resolver.live, d)) /\ row[i] \in RowType
      BY <1>1, <1>2, <3>1
    <3>3. row'[j].status = "resolved"
      BY <1>10, <3>2 DEF Resolved, RowType
    <3> QED BY <2>2, <3>3
  <2>3. CASE row[j].status # "pending"
    BY <1>3, <1>10, <2>3 DEF StillPending, Accepted
  <2> QED BY <2>2, <2>3
<1> QED BY <1>1, <1>2, <1>5, <1>6, <1>8, <1>9, <1>10

\* An answer is given to its waiter or kept, never both.
LEMMA CountDeliver ==
  ASSUME TypeInv, RowInv, PromptInv, CountInv, [Next]_vars, Deliver
  PROVE  CountInv'
<1> SUFFICES ASSUME NEW j \in Ids PROVE CountAt(j)'
  BY DEF CountInv
<1>1. /\ CountAt(j) /\ ran[j] \in Nat /\ ran'[j] = ran[j] /\ given[j] \in Nat
      /\ given'[j] \in {given[j], given[j] + 1}
  BY TypeParts, DeliverGives DEF CountInv, OtherType
<1>2. given'[j] \in Nat
  BY <1>1
<1>3. \A b \in Users(j)' : b \in Users(j) \/ (Told(b) /\ j = resolver.id)
  <2>1. ASSUME NEW b \in Askers, Using(b, j)', Told(b) PROVE j = resolver.id
    BY <2>1 DEF Told, Using
  <2>2. ASSUME NEW b \in Askers, Using(b, j)', ask'[b] = ask[b] PROVE Using(b, j)
    BY <2>2 DEF Using
  <2> QED BY <2>1, <2>2, DeliverEffect DEF Users
<1>4. CASE Users(j)' \subseteq Users(j)
  <2>1. CASE row'[j].carry => row[j].carry
    BY <1>1, <1>2, <1>4, <2>1, CountMoves
  <2>2. CASE row'[j].carry /\ ~row[j].carry
    <3>1. Answered(j)
      BY <2>2, AnswerFrame
    <3>2. given'[j] = given[j] + 1
      BY <2>2, <3>1, DeliverGives DEF Answered
    <3> QED BY <1>1, <1>2, <1>4, <3>2, CountMoves
  <2> QED BY <2>1, <2>2
<1>5. ASSUME NEW a \in Users(j)', a \notin Users(j) PROVE CountAt(j)'
  <2>1. a \in Askers /\ Told(a) /\ j = resolver.id
    BY <1>3, <1>5 DEF Users
  <2>2. resolver.live = a /\ a # None /\ resolver.decision \in Granting
    BY <1>5, <2>1, BoundsAssumption DEF Told, Users, Using
  <2>3. Users(j)' \subseteq Users(j) \cup {a}
    BY <1>3, <2>2 DEF Told
  <2>4. given'[j] = given[j] + 1
    BY <2>1, <2>2, DeliverGives
  <2>5. row'[j].carry => row[j].carry
    BY <2>2, AnswerFrame DEF Answered
  <2> QED BY <1>1, <1>2, <2>1, <2>3, <2>4, <2>5, CountMoves
<1> QED BY <1>4, <1>5

LEMMA CountFinish ==
  ASSUME TypeInv, RowInv, PromptInv, CountInv, [Next]_vars, NEW a \in Askers, Finish(a)
  PROVE  CountInv'
<1> SUFFICES ASSUME NEW j \in Ids PROVE CountAt(j)'
  BY DEF CountInv
<1>1. /\ CountAt(j) /\ ran \in [Ids -> Nat] /\ ran[j] \in Nat /\ given[j] \in Nat
      /\ given'[j] = given[j] /\ row' = row
  BY TypeParts DEF CountInv, OtherType, Finish
<1>2. Users(j)' \subseteq Users(j) \ {a}
  <2>1. ask'[a].pc = "done" /\ \A b \in Askers \ {a} : ask'[b] = ask[b]
    BY FinishEffect DEF NoAsk
  <2> QED BY <2>1 DEF Users, Using
<1>3. CASE ran'[j] = ran[j]
  BY <1>1, <1>2, <1>3, CountMoves
<1>4. CASE ran'[j] # ran[j]
  <2>1. ask[a].pc = "run" /\ ask[a].by = "answer" /\ ask[a].prompt = j /\ ran'[j] = ran[j] + 1
    BY <1>1, <1>4 DEF Finish
  <2>2. a \in Users(j)
    BY <2>1, TypeParts DEF Users, Using, AskInv
  <2> QED BY <1>1, <1>2, <2>1, <2>2, CountMoves
<1> QED BY <1>3, <1>4

LEMMA HistoryEffect ==
  ASSUME [Next]_vars, ~Deliver, \A a \in Askers : ~Finish(a)
  PROVE  UNCHANGED history
<1>1. ASSUME NEW a \in Askers, AskerStep(a) PROVE UNCHANGED history
  <2>1. CASE Start(a) \/ EnterGate(a) \/ LeaveGate(a) \/ Redeem(a) \/ Adopt(a) \/ Register(a)
          \/ Open(a) \/ Insert(a)
    BY <2>1 DEF Start, EnterGate, LeaveGate, Redeem, Adopt, Register, Open, Insert
  <2>2. CASE CreateFails(a) \/ Receive(a) \/ GiveUp(a) \/ Forget(a) \/ Close(a) \/ Decide(a)
    BY <2>2 DEF CreateFails, Receive, GiveUp, Forget, Close, Decide
  <2> QED BY <1>1, <2>1, <2>2 DEF AskerStep
<1>2. CASE BeginTurn \/ EndTurn \/ CancelTurn \/ Restart \/ SweepLists \/ SweepDenies \/ ExpireReads
        \/ ExpireWrites \/ (\E i \in Ids, d \in Decisions : Answer(i, d))
        \/ (\E i \in Ids : ClearSlot(i) \/ Lapse(i)) \/ UNCHANGED vars
  BY <1>2 DEF BeginTurn, EndTurn, CancelTurn, Restart, SweepLists, SweepDenies, ExpireReads,
       ExpireWrites, Answer, ClearSlot, Lapse, vars
<1> QED BY <1>1, <1>2 DEF Next

LEMMA CountStep ==
  ASSUME TypeInv, RowInv, PromptInv, CountInv, [Next]_vars
  PROVE  CountInv'
<1>1. CASE Deliver
  BY <1>1, CountDeliver
<1>2. CASE \E a \in Askers : Finish(a)
  BY <1>2, CountFinish
<1>3. CASE ~Deliver /\ \E a \in Askers : ~Finish(a) /\ (Redeem(a) \/ Register(a))
  <2>1. PICK a \in Askers : Redeem(a) \/ Register(a)
    BY <1>3
  <2>2. UNCHANGED history
    BY <2>1 DEF Redeem, Register
  <2> QED BY <2>1, <2>2, CountSpend
<1>4. ASSUME ~Deliver, \A a \in Askers : ~Finish(a) /\ ~Redeem(a) /\ ~Register(a) PROVE CountInv'
  <2> SUFFICES ASSUME NEW j \in Ids PROVE CountAt(j)'
    BY DEF CountInv
  <2>1. UNCHANGED history
    BY <1>4, HistoryEffect
  <2>2. /\ CountAt(j) /\ given[j] \in Nat /\ ran[j] \in Nat
        /\ given'[j] = given[j] /\ ran'[j] = ran[j]
    BY <2>1, TypeParts DEF CountInv, OtherType, history
  <2>3. ASSUME NEW b \in Askers, Using(b, j)' PROVE Using(b, j)
    <3>1. CASE AskerStep(b)
      BY <1>4, <2>3, <3>1, UsingMoves
    <3>2. CASE ask'[b] = ask[b]
      BY <2>3, <3>2 DEF Using
    <3>3. ~Back(b) /\ ~Told(b)
      BY <1>4, <2>3 DEF Back, Told, Using
    <3> QED BY <3>1, <3>2, <3>3, AskEffect DEF AskMovesOn
  <2>4. Users(j)' \subseteq Users(j)
    BY <2>3 DEF Users
  <2>5. row'[j].carry => row[j].carry
    BY <1>4, AnswerFrame DEF Answered
  <2> QED BY <2>2, <2>4, <2>5, CountMoves
<1> QED BY <1>1, <1>2, <1>3, <1>4

\* A prompt that has taken its answer, in a row that was written, takes no other one.
LEMMA OnceStep ==
  ASSUME TypeInv, RowInv, PromptInv, OnceInv, [Next]_vars
  PROVE  OnceInv'
<1> SUFFICES ASSUME NEW j \in Ids, given'[j] # 0, j \notin unsaved'
             PROVE  given'[j] = 1 /\ Settled(j)'
  BY DEF OnceInv
<1>1. given[j] # 0 /\ j \notin unsaved => given[j] = 1 /\ Settled(j)
  BY DEF OnceInv
<1>2. CASE ~Deliver
  <2>1. given' = given /\ unsaved' = unsaved
    <3>1. CASE \E a \in Askers : Finish(a)
      BY <3>1 DEF Finish
    <3> QED BY <1>2, <3>1, HistoryEffect DEF history
  <2> QED BY <1>1, <1>2, <2>1, AnswerFrame DEF Answered
<1>3. CASE Deliver /\ j # resolver.id
  <2>1. given'[j] = given[j] /\ j \notin unsaved
    BY <1>3, DeliverGives
  <2> QED BY <1>1, <1>3, <2>1, AnswerFrame DEF Answered
<1>4. CASE Deliver /\ j = resolver.id
  <2>1. j \notin unsaved /\ given[j] \in Nat /\ given'[j] \in {given[j], given[j] + 1}
    BY <1>4, DeliverGives
  <2>2. CASE given[j] = 0
    <3>1. given'[j] = 1
      BY <2>1, <2>2
    <3>2. row'[j].status = "resolved"
      <4>1. row[j].status \in {"none", "pending", "resolved"} /\ row[j].status # "none"
        BY <1>4, DeliverGives, TypeParts DEF OtherType, RowType
      <4> QED BY <1>4, <4>1, DeliverGives
    <3>3. waiter'[j] = None /\ resolver'.live = None
      BY <1>4, DeliverGives, Blank
    <3> QED BY <3>1, <3>2, <3>3 DEF Settled
  <2>3. CASE given[j] # 0
    <3>1. given[j] = 1 /\ Settled(j)
      BY <1>1, <2>1, <2>3
    <3>2. row[j].status # "pending" /\ resolver.live = None
      BY <1>4, <3>1 DEF Settled
    <3>3. given'[j] = given[j]
      BY <1>4, <3>2, DeliverGives
    <3>4. Settled(j)'
      BY <3>1, <3>2, AnswerFrame DEF Answered
    <3> QED BY <3>1, <3>3, <3>4
  <2> QED BY <2>2, <2>3
<1> QED BY <1>2, <1>3, <1>4

\* For any number of parallel calls and prompts, with restarts, cancelled turns and failed
\* writes: no two calls run on one accepted answer, whether it was given to a waiter or kept
\* for a later turn (D-118), and a prompt accepts one answer, unless the row its answer was to
\* be saved in could not be written.
THEOREM OneUse == Spec => []AnswersCountOnce
<1>1. Init => CountInv /\ OnceInv
  <2> SUFFICES ASSUME Init, NEW i \in Ids PROVE CountAt(i) /\ given[i] = 0
    BY DEF CountInv, OnceInv
  <2>1. /\ row[i] = NoRow /\ ran[i] = 0 /\ given[i] = 0
        /\ \A a \in Askers : ask[a].pc = "idle"
    BY Blank DEF Init
  <2>2. Keeps(i) = 0
    <3>1. NoRow.carry = FALSE
      BY DEF NoRow
    <3> QED BY <2>1, <3>1 DEF Keeps
  <2>3. Users(i) = {}
    BY <2>1 DEF Users, Using
  <2>4. Cardinality(Users(i)) = 0
    BY <2>3, FS_EmptySet
  <2> QED BY <2>1, <2>2, <2>4 DEF CountAt
<1>2. TypeInv /\ CountInv /\ OnceInv => AnswersCountOnce
  <2> SUFFICES ASSUME TypeInv, CountInv, OnceInv, NEW i \in Ids
               PROVE  ran[i] <= given[i] /\ (i \notin unsaved => given[i] <= 1)
    BY DEF AnswersCountOnce
  <2>1. ran[i] \in Nat /\ given[i] \in Nat /\ Cardinality(Users(i)) \in Nat
    BY TypeParts, Finite DEF OtherType, Users
  <2>2. Keeps(i) \in {0, 1} /\ ran[i] + Cardinality(Users(i)) + Keeps(i) <= given[i]
    BY DEF Keeps, CountInv, CountAt
  <2>3. i \notin unsaved => given[i] = 0 \/ given[i] = 1
    BY DEF OnceInv
  <2> QED BY <2>1, <2>2, <2>3
<1> QED BY <1>1, <1>2, InitTypeInv, NextTypeInv, InitStarts, RowInvStep, PromptStep, CountStep,
       OnceStep, PTL DEF Spec

-----------------------------------------------------------------------------
(* No turn is stuck. *)

\* A gate is held by a call that is at work behind it, on that gate's subject: no call
\* leaves with the gate.
HeldAt(s) == gate[s] # None => ask[gate[s]].pc \in Inside /\ SubjectOf(gate[s]) = s

\* A turn has given each of its askers a call or nothing to do.
TurnAt(a) == IF turn = "none" THEN ask[a].pc = "idle" ELSE ask[a].pc # "idle"

HeldInv == (\A s \in Subjects : HeldAt(s)) /\ \A a \in Askers : TurnAt(a)

\* Where a step of an asker starts and ends.
LEMMA AskerMoves ==
  ASSUME TypeInv, NEW a \in Askers, AskerStep(a)
  PROVE  /\ ask[a].pc \notin {"idle", "done"} /\ ask'[a].pc # "idle"
         /\ turn' = turn
         /\ ~EnterGate(a) /\ ~Decide(a) => UNCHANGED gate
         /\ ask[a].pc \in Inside /\ ~Decide(a) => ask'[a].pc \in Inside
<1>1. CASE Start(a) \/ EnterGate(a) \/ LeaveGate(a)
  <2>1. ask'[a].pc \in {"run", "denied", "gate", "redeem"}
    BY <1>1, StartEffect, EnterGateEffect, LeaveGateEffect DEF Becomes
  <2> QED BY <1>1, <2>1 DEF Start, EnterGate, LeaveGate, Inside, broker
<1>2. CASE Redeem(a) \/ Adopt(a) \/ Register(a) \/ Open(a) \/ Insert(a)
  <2>1. ask'[a].pc \in {"adopt", "wait", "open", "register", "insert"}
    BY <1>2, RedeemEffect, AdoptEffect, RegisterEffect, OpenEffect, InsertEffect DEF Becomes
  <2> QED BY <1>2, <2>1 DEF Redeem, Adopt, Register, Open, Insert, Inside, broker
<1>3. CASE CreateFails(a) \/ Receive(a) \/ GiveUp(a) \/ Forget(a) \/ Close(a)
  <2>1. ask'[a].pc \in {"decided", "forget", "close"}
    BY <1>3, WaitEffects DEF Becomes
  <2> QED BY <1>3, <2>1 DEF CreateFails, Receive, GiveUp, Forget, Close, Inside, broker
<1>4. CASE Decide(a)
  <2>1. ask'[a].pc \in {"run", "denied"}
    BY <1>4, DecideEffect DEF Becomes
  <2> QED BY <1>4, <2>1 DEF Decide
<1>5. CASE Finish(a)
  <2>1. ask'[a].pc = "done"
    BY <1>5, FinishEffect DEF NoAsk
  <2> QED BY <1>5, <2>1 DEF Finish, Inside, broker
<1> QED BY <1>1, <1>2, <1>3, <1>4, <1>5 DEF AskerStep

LEMMA HeldMoves ==
  ASSUME TypeInv, HeldInv, NEW a \in Askers, AskerStep(a)
  PROVE  HeldInv'
<1>1. /\ gate \in [Subjects -> Askers \cup {None}] /\ None \notin Askers
      /\ ask \in [Askers -> AskType] /\ AskInv
  BY TypeParts, BoundsAssumption DEF OtherType
<1>2. /\ \A b \in Askers \ {a} : ask'[b] = ask[b]
      /\ ask'[a].pc # "done" => ask'[a].call = ask[a].call
      /\ ask[a].pc \notin {"idle", "done"} /\ ask'[a].pc # "idle" /\ turn' = turn
  BY AskerAlone, AskerMoves
<1>3. \A b \in Askers : TurnAt(b)'
  BY <1>2 DEF HeldInv, TurnAt
<1>4. ASSUME NEW s \in Subjects, gate'[s] = gate[s], gate[s] # a PROVE HeldAt(s)'
  BY <1>1, <1>2, <1>4 DEF HeldInv, HeldAt, SubjectOf
<1>5. ASSUME NEW s \in Subjects, gate'[s] = a, ask'[a].pc \in Inside, SubjectOf(a) = s
      PROVE  HeldAt(s)'
  BY <1>2, <1>5 DEF HeldAt, SubjectOf, Inside
<1>6. SubjectOf(a) \in Subjects
  BY <1>1, <1>2, HasSubject
<1>7. CASE EnterGate(a) /\ gate' # gate
  <2>1. gate' = [gate EXCEPT ![SubjectOf(a)] = a] /\ ask'[a].pc = "redeem" /\ ask[a].pc = "gate"
    <3>1. gate' = [gate EXCEPT ![SubjectOf(a)] = a] /\ Goto(a, "redeem")
      BY <1>7 DEF EnterGate
    <3> QED BY <1>1, <1>7, <3>1 DEF EnterGate, Goto, AskType
  <2>2. ASSUME NEW s \in Subjects PROVE HeldAt(s)'
    <3>1. CASE s = SubjectOf(a)
      BY <1>1, <1>5, <1>6, <2>1, <3>1 DEF Inside
    <3>2. CASE s # SubjectOf(a)
      BY <1>1, <1>4, <2>1, <3>2 DEF HeldInv, HeldAt
    <3> QED BY <3>1, <3>2
  <2> QED BY <1>3, <2>2 DEF HeldInv
<1>8. CASE Decide(a)
  <2>1. gate' = [gate EXCEPT ![SubjectOf(a)] = None]
    BY <1>8 DEF Decide
  <2>2. ASSUME NEW s \in Subjects PROVE HeldAt(s)'
    <3>1. CASE s = SubjectOf(a)
      BY <1>1, <2>1, <3>1 DEF HeldAt
    <3>2. CASE s # SubjectOf(a)
      <4>1. gate'[s] = gate[s]
        BY <1>1, <2>1, <3>2
      <4>2. gate[s] # a
        BY <1>1, <3>2 DEF HeldInv, HeldAt
      <4> QED BY <1>4, <4>1, <4>2
    <3> QED BY <3>1, <3>2
  <2> QED BY <1>3, <2>2 DEF HeldInv
<1>9. CASE UNCHANGED gate /\ ~Decide(a)
  <2>1. ask[a].pc \in Inside => ask'[a].pc \in Inside
    BY <1>9, AskerMoves
  <2>2. ASSUME NEW s \in Subjects PROVE HeldAt(s)'
    <3>1. CASE gate[s] = a
      BY <1>1, <1>5, <1>9, <2>1, <3>1 DEF HeldInv, HeldAt
    <3>2. CASE gate[s] # a
      BY <1>4, <1>9, <3>2
    <3> QED BY <3>1, <3>2
  <2> QED BY <1>3, <2>2 DEF HeldInv
<1> QED BY <1>7, <1>8, <1>9, AskerMoves

LEMMA HeldStep ==
  ASSUME TypeInv, HeldInv, [Next]_vars
  PROVE  HeldInv'
<1>1. /\ gate \in [Subjects -> Askers \cup {None}] /\ None \notin Askers
      /\ ask \in [Askers -> AskType]
  BY TypeParts, BoundsAssumption DEF OtherType
<1>2. CASE \E a \in Askers : AskerStep(a)
  BY <1>2, HeldMoves
<1>3. ASSUME \A s \in Subjects : gate[s] # None => ask[gate[s]].pc \notin Inside
      PROVE  \A s \in Subjects : gate[s] = None
  BY <1>3 DEF HeldInv, HeldAt
<1>4. CASE BeginTurn
  <2>1. \A a \in Askers : ask'[a].pc # "idle" /\ ask[a].pc = "idle"
    BY <1>4, BeginEffect DEF BeginTurn, HeldInv, TurnAt
  <2>2. \A s \in Subjects : gate'[s] = None
    BY <1>1, <1>3, <1>4, <2>1 DEF BeginTurn, broker, Inside
  <2>3. turn' # "none"
    BY <1>4 DEF BeginTurn
  <2> QED BY <2>1, <2>2, <2>3 DEF HeldInv, HeldAt, TurnAt
<1>5. CASE EndTurn \/ Restart
  <2>1. ask' = [a \in Askers |-> NoAsk] /\ turn' = "none"
    BY <1>5 DEF EndTurn, Restart
  <2>2. \A a \in Askers : ask'[a].pc = "idle"
    BY <2>1, Blank
  <2>3. \A s \in Subjects : gate'[s] = None
    <3>1. CASE EndTurn
      BY <1>1, <1>3, <3>1 DEF EndTurn, broker, Inside
    <3>2. CASE Restart
      BY <3>2 DEF Restart
    <3> QED BY <1>5, <3>1, <3>2
  <2> QED BY <2>1, <2>2, <2>3 DEF HeldInv, HeldAt, TurnAt
<1>6. ASSUME UNCHANGED gate, turn' = "none" <=> turn = "none",
             \A a \in Askers : ask'[a].pc = ask[a].pc /\ ask'[a].call = ask[a].call
      PROVE  HeldInv'
  BY <1>1, <1>6 DEF HeldInv, HeldAt, TurnAt, SubjectOf
<1>7. CASE Deliver
  <2>1. \A a \in Askers : ask'[a].pc = ask[a].pc /\ ask'[a].call = ask[a].call
    BY <1>7, DeliverEffect DEF Told
  <2> QED BY <1>6, <1>7, <2>1 DEF Deliver
<1>8. CASE CancelTurn
  BY <1>6, <1>8 DEF CancelTurn, broker
<1>9. CASE SweepLists \/ SweepDenies \/ ExpireReads \/ ExpireWrites
            \/ (\E i \in Ids, d \in Decisions : Answer(i, d))
            \/ (\E i \in Ids : ClearSlot(i) \/ Lapse(i)) \/ UNCHANGED vars
  BY <1>6, <1>9 DEF SweepLists, SweepDenies, ExpireReads, ExpireWrites, Answer,
       ClearSlot, Lapse, broker, vars
<1> QED BY <1>2, <1>4, <1>5, <1>7, <1>8, <1>9 DEF Next

\* Behind the gate a call goes on, or the operator can answer it.
LEMMA InsideMoves ==
  ASSUME TypeInv, PromptInv, WaitInv, ResolveFree, NEW a \in Askers, ask[a].pc \in Inside
  PROVE  Ready(a) \/ Answerable(a)
<1>1. CASE ask[a].pc = "wait" /\ ask[a].answer = "" /\ ~WaitEnds(a)
  <2>1. waiter[ask[a].prompt] = a
    <3>1. a # None /\ resolver.live = None
      BY Blank, BoundsAssumption DEF ResolveFree
    <3> QED BY <1>1, <3>1 DEF WaitInv, WaitAt
  <2>2. row[ask[a].prompt].status # "none"
    BY <1>1 DEF PromptInv, PromptAt, AtPrompt
  <2> QED BY <1>1, <2>1, <2>2 DEF Answerable, WaitEnds
<1>2. CASE ~(ask[a].pc = "wait" /\ ask[a].answer = "" /\ ~WaitEnds(a))
  BY <1>2 DEF Inside, Ready, AdoptFree
<1> QED BY <1>1, <1>2

\* For any number of parallel calls, prompts, restarts and failed writes, and every kind of
\* session: gate, broker and waiters never block one another. Whoever queues for a gate
\* queues behind a call at work (askGate), and that call goes on, or waits in the broker
\* with a prompt the operator can answer; in a chat its timer ends the wait.
THEOREM NoTurnStuck == Spec => []TurnNeverStuck
<1>1. Init => HeldInv
  <2> SUFFICES ASSUME Init PROVE HeldInv
    OBVIOUS
  <2>1. \A a \in Askers : ask[a].pc = "idle"
    BY Blank DEF Init
  <2> QED BY <2>1 DEF Init, HeldInv, HeldAt, TurnAt
<1>2. TypeInv /\ PromptInv /\ WaitInv /\ HeldInv => TurnNeverStuck
  <2> SUFFICES ASSUME TypeInv, PromptInv, WaitInv, HeldInv, turn # "none", ResolveFree,
                      NEW a \in Askers, ask[a].pc # "done"
               PROVE  \E b \in Askers : Ready(b) \/ Answerable(b)
    BY DEF TurnNeverStuck
  <2>1. ask[a].pc # "idle"
    BY DEF HeldInv, TurnAt
  <2>2. CASE ask[a].pc \in Inside
    BY <2>2, InsideMoves
  <2>3. CASE ask[a].pc = "gate"
    <3>1. SubjectOf(a) \in Subjects
      BY <2>3, HasSubject DEF TypeInv
    <3>2. CASE gate[SubjectOf(a)] = None
      BY <2>3, <3>2 DEF Ready, GateFree
    <3>3. CASE gate[SubjectOf(a)] # None
      <4>1. gate[SubjectOf(a)] \in Askers
        BY <3>1, <3>3, TypeParts DEF OtherType
      <4>2. ask[gate[SubjectOf(a)]].pc \in Inside
        BY <3>1, <3>3 DEF HeldInv, HeldAt
      <4> QED BY <4>1, <4>2, InsideMoves
    <3> QED BY <3>2, <3>3
  <2>4. CASE ask[a].pc \notin Inside \cup {"gate"}
    BY <2>1, <2>4 DEF Ready, Inside
  <2> QED BY <2>2, <2>3, <2>4
<1> QED BY <1>1, <1>2, InitTypeInv, NextTypeInv, InitStarts, GateStep, RowInvStep, PromptStep,
       WaitStep, HeldStep, PTL DEF Spec

\* How far a call has come; Stage ends at 13.
Stage == [p \in Pcs |->
  CASE p = "idle" -> 0 [] p = "start" -> 1 [] p = "gate" -> 2 [] p = "redeem" -> 3
    [] p = "adopt" -> 4 [] p = "register" -> 5 [] p = "open" -> 6 [] p = "insert" -> 7
    [] p = "wait" -> 8 [] p = "forget" -> 9 [] p = "close" -> 10 [] p = "decided" -> 11
    [] p \in {"run", "denied"} -> 12 [] OTHER -> 13]

LEMMA StageRises ==
  ASSUME TypeInv, NEW a \in Askers, AskerStep(a)
  PROVE  Stage[ask[a].pc] < Stage[ask'[a].pc]
<1>2. CASE Start(a) \/ EnterGate(a) \/ LeaveGate(a)
  <2>1. \/ ask[a].pc = "start" /\ ask'[a].pc \in {"run", "denied", "gate"}
        \/ ask[a].pc = "gate" /\ ask'[a].pc \in {"run", "denied", "redeem"}
    BY <1>2, StartEffect, EnterGateEffect, LeaveGateEffect DEF Start, EnterGate, LeaveGate, Becomes
  <2> QED BY <2>1 DEF Stage, Pcs
<1>3. CASE Redeem(a) \/ Adopt(a) \/ Register(a) \/ Open(a) \/ Insert(a)
  <2>1. \/ ask[a].pc = "redeem" /\ ask'[a].pc \in {"adopt", "wait"}
        \/ ask[a].pc = "adopt" /\ ask'[a].pc \in {"open", "register"}
        \/ ask[a].pc = "register" /\ ask'[a].pc \in {"wait", "open"}
        \/ ask[a].pc = "open" /\ ask'[a].pc = "insert"
        \/ ask[a].pc = "insert" /\ ask'[a].pc = "wait"
    BY <1>3, RedeemEffect, AdoptEffect, RegisterEffect, OpenEffect, InsertEffect
       DEF Redeem, Adopt, Register, Open, Insert, Becomes
  <2> QED BY <2>1 DEF Stage, Pcs
<1>4. CASE CreateFails(a) \/ Receive(a) \/ GiveUp(a) \/ Forget(a) \/ Close(a)
  <2>1. \/ ask[a].pc \in {"redeem", "adopt", "register", "insert"} /\ ask'[a].pc = "decided"
        \/ ask[a].pc = "wait" /\ ask'[a].pc = "forget"
        \/ ask[a].pc = "forget" /\ ask'[a].pc = "close"
        \/ ask[a].pc = "close" /\ ask'[a].pc = "decided"
    BY <1>4, WaitEffects DEF CreateFails, Receive, GiveUp, Forget, Close, Becomes
  <2> QED BY <2>1 DEF Stage, Pcs
<1>5. CASE Decide(a) \/ Finish(a)
  <2>1. \/ ask[a].pc = "decided" /\ ask'[a].pc \in {"run", "denied"}
        \/ ask[a].pc \in {"run", "denied"} /\ ask'[a].pc = "done"
    BY <1>5, DecideEffect, FinishEffect DEF Decide, Finish, Becomes, NoAsk
  <2> QED BY <2>1 DEF Stage, Pcs
<1> QED BY <1>2, <1>3, <1>4, <1>5 DEF AskerStep

\* While its turn lasts a call only moves forward: a lost race for a prompt or a failed write
\* sends it on, never back (PermBroker.Create, adopt). So it takes at most 13 steps, and
\* with NoTurnStuck the turn of a chat comes to its end.
THEOREM CallsGoOn == Spec =>
  [][\A a \in Askers : turn # "none" /\ turn' # "none" =>
       ask'[a].pc = ask[a].pc \/ Stage[ask[a].pc] < Stage[ask'[a].pc]]_vars
<1> DEFINE On == \A a \in Askers : turn # "none" /\ turn' # "none" =>
                   ask'[a].pc = ask[a].pc \/ Stage[ask[a].pc] < Stage[ask'[a].pc]
<1>1. TypeInv /\ [Next]_vars => [On]_vars
  <2> SUFFICES ASSUME TypeInv, [Next]_vars, NEW a \in Askers, turn # "none", turn' # "none",
                      ask'[a].pc # ask[a].pc
               PROVE  Stage[ask[a].pc] < Stage[ask'[a].pc]
    OBVIOUS
  <2>1. CASE AskerStep(a)
    BY <2>1, StageRises
  <2>2. CASE BeginTurn \/ EndTurn \/ Restart
    BY <2>2 DEF BeginTurn, EndTurn, Restart
  <2>3. CASE \E b \in Askers \ {a} : AskerStep(b)
    BY <2>3, AskerAlone
  <2>4. CASE Deliver
    BY <2>4, DeliverEffect DEF Told
  <2>5. CASE CancelTurn \/ SweepLists \/ SweepDenies \/ ExpireReads \/ ExpireWrites
          \/ (\E i \in Ids, d \in Decisions : Answer(i, d))
          \/ (\E i \in Ids : ClearSlot(i) \/ Lapse(i)) \/ UNCHANGED vars
    BY <2>5 DEF CancelTurn, SweepLists, SweepDenies, ExpireReads, ExpireWrites, Answer, ClearSlot,
         Lapse, vars
  <2> QED BY <2>1, <2>2, <2>3, <2>4, <2>5 DEF Next
<1> QED BY <1>1, InitTypeInv, NextTypeInv, PTL DEF Spec

=============================================================================
