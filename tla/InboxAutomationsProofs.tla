----------------------- MODULE InboxAutomationsProofs -----------------------
(* Proofs about the two ends of the events table: EventsInbox, which drains   *)
(* it and is shown to implement Outbox, and Automations, whose dispatcher     *)
(* turns its events into runs. They hold for every set of keys and instances, *)
(* every batch size, limit and attempt cap, and any number of events, lost    *)
(* sessions, slow consumers and disturbances.                                 *)
EXTENDS EventsInbox, Automations, SequenceTheorems, FiniteSetTheorems, WellFoundedInduction,
        TLAPS

(***************************************************************************)
(*                               EventsInbox                               *)
(***************************************************************************)

Verdicts == {"processed", "dead", "pending"}

\* What is left of Consumers as they run.
Lefts ==
  {Consumers, <<"notify", "automations">>, <<"automations">>, <<>>}

\* A drain: an event is at hand while it delivers or a consumer is still to run,
\* and none is left when it commits.
DrainType ==
  {d \in [pc : {"idle", "deliver", "commit", "lost"}, batch : Seq(Keys), todo : Lefts,
          failed : BOOLEAN, idle : Nat, marks : UNION {[S -> Verdicts] : S \in SUBSET Keys},
          writes : SUBSET Keys] :
     /\ d.pc = "deliver" \/ d.todo # <<>> => d.batch # <<>>
     /\ d.pc = "commit" => d.batch = <<>>}

RowType ==
  {row \in [state : {"absent", "pending", "processed", "dead"}, id : Nat, attempts : Nat] :
     row.state = "absent" => row.attempts = 0}

\* The types, in full for the drains.
TypeInv ==
  /\ table \in [Keys -> RowType]
  /\ lastId \in Nat
  /\ lock \in Instances \cup {NoOne}
  /\ drains \in [Instances -> DrainType]
  /\ txEffects \in [Keys -> Nat]
  /\ handled \in [Keys -> SUBSET External]
  /\ losses \in 0..MaxLosses
  /\ slow \in 0..MaxSlow

\* Only the owner of the advisory lock has a transaction, so there is at most one.
LockInv == \A i \in Instances : Live(i) => lock = i

\* The rows a transaction has claimed stay pending until it commits; the ones
\* still to deliver are distinct and not marked yet.
Claimed(d) ==
  /\ \A k \in Range(d.batch) \cup DOMAIN d.marks : table[k].state = "pending"
  /\ Range(d.batch) \cap DOMAIN d.marks = {}
  /\ \A p, q \in DOMAIN d.batch : d.batch[p] = d.batch[q] => p = q

ClaimInv == \A i \in Instances : Live(i) => Claimed(drains[i])

\* What the transaction will commit: writes exactly for what it marks as processed,
\* a verdict that agrees with the attempts, and processed only after both outside
\* consumers. The savepoint's own writes are those of the event at hand.
MarkedWell(d) ==
  \A k \in DOMAIN d.marks :
    /\ d.marks[k] = "processed" <=> k \in d.writes
    /\ d.marks[k] = "processed" => handled[k] = External
    /\ d.marks[k] = "dead" => table[k].attempts + 1 >= MaxAttempts
    /\ d.marks[k] = "pending" => table[k].attempts + 1 < MaxAttempts

InHand(d) ==
  /\ d.pc = "deliver" =>
       /\ ~d.failed => External \subseteq handled[Head(d.batch)] \cup Range(d.todo)
       /\ d.writes \ DOMAIN d.marks = IF d.todo = <<>> THEN {Head(d.batch)} ELSE {}
  /\ d.pc = "commit" => d.writes \subseteq DOMAIN d.marks

MarkInv == \A i \in Instances : Live(i) => MarkedWell(drains[i]) /\ InHand(drains[i])

IInv == TypeInv /\ LockInv /\ ClaimInv /\ MarkInv
-----------------------------------------------------------------------------
(* Sequences *)

\* What remains of Consumers when the next one has run.
LEMMA LeftsTail ==
  ASSUME NEW todo \in Lefts, todo # <<>>
  PROVE  /\ Tail(todo) \in Lefts
         /\ Range(todo) = {Head(todo)} \cup Range(Tail(todo))
         /\ Head(todo) \in External <=> Tail(todo) # <<>>
         /\ Head(todo) \in External => "automations" \in Range(Tail(todo))
<1>1. CASE todo = Consumers
  BY <1>1 DEF Lefts, Consumers, Range, External
<1>2. CASE todo = <<"notify", "automations">>
  BY <1>2 DEF Lefts, Consumers, Range, External
<1>3. CASE todo = <<"automations">>
  BY <1>3 DEF Lefts, Consumers, Range, External
<1> QED
  BY <1>1, <1>2, <1>3 DEF Lefts

\* The head of a batch without repetitions is not in its rest.
LEMMA BatchTail ==
  ASSUME NEW S, NEW b \in Seq(S), b # <<>>,
         \A p, q \in DOMAIN b : b[p] = b[q] => p = q
  PROVE  /\ Head(b) \in S /\ Tail(b) \in Seq(S)
         /\ Range(b) = {Head(b)} \cup Range(Tail(b))
         /\ Head(b) \notin Range(Tail(b))
         /\ \A p, q \in DOMAIN Tail(b) : Tail(b)[p] = Tail(b)[q] => p = q
<1>1. /\ Head(b) \in S /\ Tail(b) \in Seq(S) /\ Len(Tail(b)) = Len(b) - 1
      /\ \A i \in 1..Len(Tail(b)) : Tail(b)[i] = b[i + 1]
  BY HeadTailProperties
<1>2. Len(b) \in Nat \ {0} /\ DOMAIN b = 1..Len(b) /\ DOMAIN Tail(b) = 1..Len(Tail(b))
      /\ Head(b) = b[1]
  BY <1>1, EmptySeq, LenProperties
<1>3. Range(b) = {Head(b)} \cup Range(Tail(b))
  <2>1. ASSUME NEW p \in DOMAIN b PROVE b[p] \in {Head(b)} \cup Range(Tail(b))
    <3>1. CASE p = 1
      BY <3>1, <1>2
    <3>2. CASE p # 1
      <4>1. p - 1 \in DOMAIN Tail(b) /\ Tail(b)[p - 1] = b[p]
        BY <3>2, <1>1, <1>2
      <4> QED
        BY <4>1 DEF Range
    <3> QED
      BY <3>1, <3>2
  <2>2. ASSUME NEW p \in DOMAIN Tail(b) PROVE Tail(b)[p] \in Range(b)
    <3>1. p + 1 \in DOMAIN b /\ Tail(b)[p] = b[p + 1]
      BY <1>1, <1>2
    <3> QED
      BY <3>1 DEF Range
  <2>3. Head(b) \in Range(b)
    BY <1>2 DEF Range
  <2> QED
    BY <2>1, <2>2, <2>3 DEF Range
<1>4. Head(b) \notin Range(Tail(b))
  BY <1>1, <1>2 DEF Range
<1>5. \A p, q \in DOMAIN Tail(b) : Tail(b)[p] = Tail(b)[q] => p = q
  BY <1>1, <1>2
<1> QED
  BY <1>1, <1>3, <1>4, <1>5

\* A batch is a nonempty sequence of distinct claimable keys.
LEMMA BatchClaimed ==
  ASSUME TypeInv, NEW b \in Batches
  PROVE  /\ b \in Seq(Keys) /\ b # <<>>
         /\ Range(b) \subseteq Claimable
         /\ \A p, q \in DOMAIN b : b[p] = b[q] => p = q
<1>1. PICK n \in 1..BatchSize : b \in [1..n -> Claimable]
  BY DEF Batches
<1>2. n \in Nat \ {0} /\ Claimable \subseteq Keys
  BY <1>1, InboxAssumption DEF Claimable
<1>3. b \in Seq(Keys) /\ b # <<>>
  BY <1>1, <1>2
<1>4. Range(b) \subseteq Claimable
  BY <1>1 DEF Range
<1>5. \A p, q \in DOMAIN b : b[p] = b[q] => p = q
  <2> SUFFICES ASSUME NEW p \in 1..n, NEW q \in 1..n, b[p] = b[q], p < q PROVE FALSE
    BY <1>1, <1>2
  <2>1. table[b[p]].id < table[b[q]].id
    BY <1>1 DEF Batches
  <2>2. table[b[p]].id \in Nat
    BY <1>1, <1>2 DEF TypeInv, RowType
  <2> QED
    BY <2>1, <2>2
<1> QED
  BY <1>3, <1>4, <1>5
-----------------------------------------------------------------------------
(* The steps preserve the invariant, one part after the other. *)

\* The types imply the checked type invariant.
LEMMA TypesCorrect == TypeInv => TypeOK
<1> SUFFICES ASSUME TypeInv PROVE TypeOK
  OBVIOUS
<1>1. ASSUME NEW i \in Instances
      PROVE  /\ drains[i].pc \in {"idle", "deliver", "commit", "lost"}
             /\ Range(drains[i].batch) \subseteq Keys
             /\ drains[i].failed \in BOOLEAN
             /\ DOMAIN drains[i].marks \subseteq Keys
             /\ drains[i].writes \subseteq Keys
  BY DEF TypeInv, DrainType, Range
<1>2. table \in [Keys -> [state : {"absent", "pending", "processed", "dead"},
                          id : Nat, attempts : Nat]]
  BY DEF TypeInv, RowType
<1> QED
  BY <1>1, <1>2 DEF TypeInv, TypeOK

\* Every step keeps the types.
LEMMA TypeStep == TypeInv /\ [Next]_vars => TypeInv'
<1> SUFFICES ASSUME TypeInv, [Next]_vars PROVE TypeInv'
  OBVIOUS
<1> USE InboxAssumption
<1>0. NoDrain \in DrainType
  <2>1. [k \in {} |-> "processed"] \in UNION {[S -> Verdicts] : S \in SUBSET Keys}
    <3>1. [k \in {} |-> "processed"] \in [{} -> Verdicts] /\ {} \in SUBSET Keys
      OBVIOUS
    <3> QED
      BY <3>1
  <2>2. <<>> \in Seq(Keys) /\ <<>> \in Lefts
    BY EmptySeq DEF Lefts
  <2> QED
    BY <2>1, <2>2 DEF NoDrain, DrainType
<1>1. ASSUME NEW k \in Keys, Insert(k) PROVE TypeInv'
  BY <1>1 DEF Insert, TypeInv, RowType, External
<1>2. CASE Sweep
  <2>1. Absent \in RowType
    BY DEF Absent, RowType
  <2> QED
    BY <1>2, <2>1 DEF Sweep, TypeInv
<1>3. ASSUME NEW i \in Instances, Drain(i) PROVE TypeInv'
  <2>1. PICK b \in Batches : drains' = [drains EXCEPT ![i] = [NoDrain EXCEPT
          !.pc = "deliver", !.batch = b, !.todo = Consumers]]
    BY <1>3 DEF Drain
  <2>2. b \in Seq(Keys) /\ b # <<>>
    BY BatchClaimed
  <2>3. [NoDrain EXCEPT !.pc = "deliver", !.batch = b, !.todo = Consumers] \in DrainType
    BY <1>0, <2>2 DEF DrainType, Lefts, NoDrain
  <2> QED
    BY <1>3, <2>1, <2>3 DEF Drain, TypeInv
<1>4. ASSUME NEW i \in Instances, Handle(i) PROVE TypeInv'
  <2> DEFINE d == drains[i]
             k == Head(d.batch)
             c == Head(d.todo)
  <2>1. d \in DrainType /\ d.todo # <<>> /\ d.pc \in {"deliver", "lost"}
    BY <1>4 DEF Handle, TypeInv
  <2>2. d.batch # <<>> /\ k \in Keys /\ Tail(d.todo) \in Lefts
    BY <2>1, LeftsTail, HeadTailProperties DEF DrainType
  <2>3. PICK ok \in BOOLEAN, late \in (IF slow < MaxSlow THEN BOOLEAN ELSE {FALSE}) :
          LET idle == d.idle + (IF late THEN ConsumerTimeout ELSE 0)
              killed == c \in External /\ d.pc = "deliver" /\ idle > IdleTimeout
          IN  /\ c \notin External => ~late /\ ~(ok /\ d.pc = "lost")
              /\ slow' = IF late THEN slow + 1 ELSE slow
              /\ handled' = IF c \in External /\ ok
                            THEN [handled EXCEPT ![k] = @ \cup {c}] ELSE handled
              /\ lock' = IF killed THEN NoOne ELSE lock
              /\ drains' = [drains EXCEPT
                   ![i].pc = IF killed THEN "lost" ELSE @,
                   ![i].todo = Tail(@),
                   ![i].failed = Failed(d, ok),
                   ![i].idle = IF c \in External THEN idle ELSE 0,
                   ![i].writes = IF c \in External THEN @ ELSE @ \cup {k}]
    BY <1>4 DEF Handle
  <2> DEFINE idle == d.idle + (IF late THEN ConsumerTimeout ELSE 0)
             killed == c \in External /\ d.pc = "deliver" /\ idle > IdleTimeout
             e == [d EXCEPT !.pc = IF killed THEN "lost" ELSE @,
                            !.todo = Tail(@),
                            !.failed = Failed(d, ok),
                            !.idle = IF c \in External THEN idle ELSE 0,
                            !.writes = IF c \in External THEN @ ELSE @ \cup {k}]
  <2>4. idle \in Nat /\ Failed(d, ok) \in BOOLEAN
    BY <2>1 DEF DrainType, Failed
  <2>5. e \in DrainType
    BY <2>1, <2>2, <2>4 DEF DrainType
  <2>6. drains' = [drains EXCEPT ![i] = e]
    BY <2>3
  <2>7. handled' \in [Keys -> SUBSET External] /\ slow' \in 0..MaxSlow
    <3>1. handled' \in [Keys -> SUBSET External]
      BY <2>2, <2>3 DEF TypeInv
    <3>2. slow \in 0..MaxSlow /\ MaxSlow \in Nat /\ (late => slow < MaxSlow)
      BY <2>3 DEF TypeInv
    <3>3. slow' = slow \/ (late /\ slow' = slow + 1)
      <4>1. slow' = IF late THEN slow + 1 ELSE slow
        BY <2>3
      <4>2. CASE late
        BY <4>1, <4>2
      <4>3. CASE ~late
        BY <4>1, <4>3
      <4> QED
        BY <4>2, <4>3
    <3>4. slow' \in 0..MaxSlow
      BY <3>2, <3>3
    <3> QED
      BY <3>1, <3>4
  <2>8. lock' \in Instances \cup {NoOne}
    BY <2>3 DEF TypeInv
  <2> QED
    BY <1>4, <2>5, <2>6, <2>7, <2>8 DEF Handle, TypeInv
<1>5. ASSUME NEW i \in Instances, Record(i) PROVE TypeInv'
  <2> DEFINE d == drains[i]
             k == Head(d.batch)
             rest == Tail(d.batch)
             marks == [x \in DOMAIN d.marks \cup {k} |->
                        IF x = k THEN Outcome(table[k].attempts, d.failed) ELSE d.marks[x]]
  <2>1. d \in DrainType /\ d.batch # <<>>
    BY <1>5 DEF Record, TypeInv, DrainType
  <2>2. k \in Keys /\ rest \in Seq(Keys)
    BY <2>1, HeadTailProperties DEF DrainType
  <2>3. marks \in [DOMAIN d.marks \cup {k} -> Verdicts] /\ DOMAIN d.marks \cup {k} \in SUBSET Keys
    BY <2>1, <2>2 DEF DrainType, Outcome, Verdicts
  <2>4. RolledBack(d) \in SUBSET Keys
    BY <2>1 DEF DrainType, RolledBack
  <2>5. [pc |-> IF rest = <<>> THEN "commit" ELSE "deliver", batch |-> rest,
         todo |-> IF rest = <<>> THEN <<>> ELSE Consumers, failed |-> FALSE, idle |-> 0,
         marks |-> marks, writes |-> RolledBack(d)] \in DrainType
    BY <2>2, <2>3, <2>4 DEF DrainType, Lefts
  <2> QED
    BY <1>5, <2>5 DEF Record, TypeInv
<1>6. ASSUME NEW i \in Instances, Commit(i) PROVE TypeInv'
  <2> DEFINE d == drains[i]
  <2>1. d \in DrainType
    BY DEF TypeInv
  <2>2. \A k \in DOMAIN d.marks \cap Keys : Marked(table[k], d.marks[k]) \in RowType
    <3> SUFFICES ASSUME NEW k \in DOMAIN d.marks \cap Keys
                 PROVE  Marked(table[k], d.marks[k]) \in RowType
      OBVIOUS
    <3>1. table[k] \in RowType /\ d.marks[k] \in Verdicts
      BY <2>1 DEF TypeInv, DrainType
    <3>2. PICK mark \in Verdicts : mark = d.marks[k]
      BY <3>1
    <3>3. PICK row \in RowType : row = table[k]
      BY <3>1
    <3>4. [state |-> mark, id |-> row.id, attempts |-> row.attempts + 1] \in RowType
      BY DEF RowType, Verdicts
    <3> QED
      BY <3>2, <3>3, <3>4 DEF Marked
  <2>3. table' \in [Keys -> RowType]
    BY <1>6, <2>2 DEF Commit, TypeInv
  <2> QED
    BY <1>0, <1>6, <2>3 DEF Commit, TypeInv
<1>7. ASSUME NEW i \in Instances, SessionLost(i) PROVE TypeInv'
  <2>1. [drains[i] EXCEPT !.pc = "lost"] \in DrainType
    <3>1. drains[i] \in DrainType
      BY <1>7 DEF TypeInv
    <3>2. \A d \in DrainType : [d EXCEPT !.pc = "lost"] \in DrainType
      BY DEF DrainType
    <3> QED BY <3>1, <3>2
  <2> QED
    BY <1>7, <2>1 DEF SessionLost, TypeInv
<1>8. ASSUME NEW i \in Instances, Abandon(i) PROVE TypeInv'
  BY <1>0, <1>8 DEF Abandon, TypeInv
<1>9. CASE UNCHANGED vars
  BY <1>9 DEF vars, TypeInv
<1> QED
  BY <1>1, <1>2, <1>3, <1>4, <1>5, <1>6, <1>7, <1>8, <1>9 DEF Next, DrainStep
\* One drain at a time has a transaction.
LEMMA OneLive ==
  ASSUME LockInv, NEW i \in Instances, NEW j \in Instances, Live(i), Live(j)
  PROVE  i = j
BY DEF LockInv

\* A consumer returning changes only what its drain has left to do and has
\* written, and may cost it the session.
LEMMA HandleFrame ==
  ASSUME TypeInv, NEW i \in Instances, Handle(i)
  PROVE  LET d == drains[i]
         IN  /\ drains' = [drains EXCEPT ![i] = drains'[i]]
             /\ drains'[i].batch = d.batch /\ drains'[i].marks = d.marks
             /\ drains'[i].todo = Tail(d.todo) /\ d.todo # <<>>
             /\ drains'[i].pc \in {d.pc, "lost"} /\ d.pc \in {"deliver", "lost"}
             /\ drains'[i].pc = "deliver" => lock' = lock
             /\ lock' # lock => lock' = NoOne /\ d.pc = "deliver"
             /\ \A k \in Keys : handled[k] \subseteq handled'[k]
             /\ UNCHANGED table
             /\ Head(d.todo) \in External =>
                  /\ drains'[i].writes = d.writes
                  /\ ~drains'[i].failed =>
                       ~d.failed /\ Head(d.todo) \in handled'[Head(d.batch)]
             /\ Head(d.todo) \notin External =>
                  /\ drains'[i].writes = d.writes \cup {Head(d.batch)}
                  /\ ~drains'[i].failed => ~d.failed
<1> DEFINE d == drains[i]
           k == Head(d.batch)
           c == Head(d.todo)
<1>1. d \in DrainType /\ d.todo # <<>> /\ d.pc \in {"deliver", "lost"} /\ UNCHANGED table
  BY DEF Handle, TypeInv
<1>2. k \in Keys
  BY <1>1, HeadTailProperties DEF DrainType
<1>3. PICK ok \in BOOLEAN, late \in (IF slow < MaxSlow THEN BOOLEAN ELSE {FALSE}) :
        LET idle == d.idle + (IF late THEN ConsumerTimeout ELSE 0)
            killed == c \in External /\ d.pc = "deliver" /\ idle > IdleTimeout
        IN  /\ c \notin External => ~late /\ ~(ok /\ d.pc = "lost")
            /\ slow' = IF late THEN slow + 1 ELSE slow
            /\ handled' = IF c \in External /\ ok
                          THEN [handled EXCEPT ![k] = @ \cup {c}] ELSE handled
            /\ lock' = IF killed THEN NoOne ELSE lock
            /\ drains' = [drains EXCEPT
                 ![i].pc = IF killed THEN "lost" ELSE @,
                 ![i].todo = Tail(@),
                 ![i].failed = Failed(d, ok),
                 ![i].idle = IF c \in External THEN idle ELSE 0,
                 ![i].writes = IF c \in External THEN @ ELSE @ \cup {k}]
  BY DEF Handle
<1> DEFINE idle == d.idle + (IF late THEN ConsumerTimeout ELSE 0)
           killed == c \in External /\ d.pc = "deliver" /\ idle > IdleTimeout
           e == [d EXCEPT !.pc = IF killed THEN "lost" ELSE @,
                          !.todo = Tail(@),
                          !.failed = Failed(d, ok),
                          !.idle = IF c \in External THEN idle ELSE 0,
                          !.writes = IF c \in External THEN @ ELSE @ \cup {k}]
<1>4. drains' = [drains EXCEPT ![i] = e] /\ drains'[i] = e
  BY <1>3 DEF TypeInv
<1>5. lock' = (IF killed THEN NoOne ELSE lock) /\ (killed => d.pc = "deliver")
  BY <1>3
<1>6. /\ e.batch = d.batch /\ e.marks = d.marks /\ e.todo = Tail(d.todo)
      /\ e.pc = (IF killed THEN "lost" ELSE d.pc)
      /\ e.failed = Failed(d, ok)
      /\ e.writes = (IF c \in External THEN d.writes ELSE d.writes \cup {k})
  <2> HIDE DEF killed, idle
  <2> QED
    BY <1>1 DEF DrainType
<1>7. handled' = IF c \in External /\ ok THEN [handled EXCEPT ![k] = @ \cup {c}] ELSE handled
  BY <1>3
<1>8. (\A x \in Keys : handled[x] \subseteq handled'[x])
      /\ (c \in External /\ ok => c \in handled'[k])
  BY <1>2, <1>7 DEF TypeInv
<1>9. ~e.failed => ~d.failed /\ ok
  BY <1>1, <1>6 DEF Failed, DrainType
<1> HIDE DEF e, killed
<1> QED
  BY <1>1, <1>4, <1>5, <1>6, <1>8, <1>9

\* Only the owner of the lock has a transaction.
LEMMA LockStep == TypeInv /\ LockInv /\ [Next]_vars => LockInv'
<1> SUFFICES ASSUME TypeInv, LockInv, [Next]_vars PROVE LockInv'
  OBVIOUS
<1> USE InboxAssumption
<1>1. ASSUME NEW k \in Keys, Insert(k) PROVE LockInv'
  BY <1>1 DEF Insert, LockInv, Live
<1>2. CASE Sweep
  BY <1>2 DEF Sweep, LockInv, Live
<1>3. ASSUME NEW i \in Instances, Drain(i) PROVE LockInv'
  BY <1>3 DEF Drain, LockInv, Live, TypeInv
<1>4. ASSUME NEW i \in Instances, Handle(i) PROVE LockInv'
  BY <1>4, HandleFrame DEF LockInv, Live, TypeInv
<1>5. ASSUME NEW i \in Instances, Record(i) PROVE LockInv'
  BY <1>5 DEF Record, LockInv, Live, TypeInv
<1>6. ASSUME NEW i \in Instances, Commit(i) PROVE LockInv'
  BY <1>6 DEF Commit, LockInv, Live, TypeInv, NoDrain
<1>7. ASSUME NEW i \in Instances, SessionLost(i) PROVE LockInv'
  BY <1>7 DEF SessionLost, LockInv, Live, TypeInv
<1>8. ASSUME NEW i \in Instances, Abandon(i) PROVE LockInv'
  BY <1>8 DEF Abandon, LockInv, Live, TypeInv, NoDrain
<1>9. CASE UNCHANGED vars
  BY <1>9 DEF vars, LockInv, Live
<1> QED
  BY <1>1, <1>2, <1>3, <1>4, <1>5, <1>6, <1>7, <1>8, <1>9 DEF Next, DrainStep
\* The rows of a transaction stay claimed.
LEMMA ClaimStep == TypeInv /\ LockInv /\ ClaimInv /\ [Next]_vars => ClaimInv'
<1> SUFFICES ASSUME TypeInv, LockInv, ClaimInv, [Next]_vars PROVE ClaimInv'
  OBVIOUS
<1> USE InboxAssumption
<1>0. \A i \in Instances : drains[i] \in DrainType
  BY DEF TypeInv
<1>1. ASSUME NEW k \in Keys, Insert(k) PROVE ClaimInv'
  <2>1. \A x \in Keys : table[x].state = "pending" => table'[x].state = "pending"
    BY <1>1 DEF Insert, TypeInv
  <2> QED
    BY <1>0, <1>1, <2>1 DEF Insert, ClaimInv, Claimed, Live, DrainType, Range
<1>2. CASE Sweep
  <2>1. \A x \in Keys : table[x].state = "pending" => table'[x].state = "pending"
    BY <1>2 DEF Sweep, Swept
  <2> QED
    BY <1>0, <1>2, <2>1 DEF Sweep, ClaimInv, Claimed, Live, DrainType, Range
<1>3. ASSUME NEW i \in Instances, Drain(i) PROVE ClaimInv'
  <2>1. PICK b \in Batches : drains' = [drains EXCEPT ![i] = [NoDrain EXCEPT
          !.pc = "deliver", !.batch = b, !.todo = Consumers]]
    BY <1>3 DEF Drain
  <2>2. /\ Range(b) \subseteq Claimable
        /\ \A p, q \in DOMAIN b : b[p] = b[q] => p = q
    BY BatchClaimed
  <2>3. /\ drains'[i].batch = b /\ DOMAIN drains'[i].marks = {}
        /\ \A j \in Instances \ {i} : drains'[j] = drains[j]
    BY <2>1 DEF NoDrain, TypeInv
  <2>4. Claimed(drains[i])'
    BY <1>3, <2>2, <2>3 DEF Claimed, Claimable, Drain
  <2>5. \A j \in Instances \ {i} : ~Live(j)'
    BY <1>3, <2>3 DEF Drain, LockInv, Live
  <2> QED
    BY <2>4, <2>5 DEF ClaimInv
<1>4. ASSUME NEW i \in Instances, Handle(i) PROVE ClaimInv'
  BY <1>4, HandleFrame DEF ClaimInv, Claimed, Live, TypeInv
<1>5. ASSUME NEW i \in Instances, Record(i) PROVE ClaimInv'
  <2> DEFINE d == drains[i]
  <2>1. d \in DrainType /\ d.batch # <<>> /\ Claimed(d) /\ Live(i)
    BY <1>0, <1>5 DEF Record, DrainType, ClaimInv, Live
  <2>2. /\ drains'[i].batch = Tail(d.batch)
        /\ DOMAIN drains'[i].marks = DOMAIN d.marks \cup {Head(d.batch)}
        /\ \A j \in Instances \ {i} : drains'[j] = drains[j]
        /\ UNCHANGED table
    BY <1>5 DEF Record, TypeInv
  <2>3. /\ Range(d.batch) = {Head(d.batch)} \cup Range(Tail(d.batch))
        /\ Head(d.batch) \notin Range(Tail(d.batch))
        /\ \A p, q \in DOMAIN Tail(d.batch) : Tail(d.batch)[p] = Tail(d.batch)[q] => p = q
    BY <2>1, BatchTail DEF DrainType, Claimed
  <2>4. Claimed(drains[i])'
    BY <2>1, <2>2, <2>3 DEF Claimed
  <2>5. \A j \in Instances \ {i} : ~Live(j)'
    BY <2>1, <2>2, OneLive DEF Live
  <2> QED
    BY <2>4, <2>5 DEF ClaimInv
<1>6. ASSUME NEW i \in Instances, Commit(i) PROVE ClaimInv'
  <2>1. \A j \in Instances : ~Live(j)'
    BY <1>6, OneLive DEF Commit, Live, TypeInv, NoDrain
  <2> QED
    BY <2>1 DEF ClaimInv
<1>7. ASSUME NEW i \in Instances, SessionLost(i) PROVE ClaimInv'
  BY <1>7 DEF SessionLost, ClaimInv, Claimed, Live, TypeInv
<1>8. ASSUME NEW i \in Instances, Abandon(i) PROVE ClaimInv'
  BY <1>8 DEF Abandon, ClaimInv, Claimed, Live, TypeInv, NoDrain
<1>9. CASE UNCHANGED vars
  BY <1>9 DEF vars, ClaimInv, Claimed, Live
<1> QED
  BY <1>1, <1>2, <1>3, <1>4, <1>5, <1>6, <1>7, <1>8, <1>9 DEF Next, DrainStep
\* What a transaction will commit stays what its consumers have done.
LEMMA MarkStep == TypeInv /\ LockInv /\ ClaimInv /\ MarkInv /\ [Next]_vars => MarkInv'
<1> SUFFICES ASSUME TypeInv, LockInv, ClaimInv, MarkInv, [Next]_vars PROVE MarkInv'
  OBVIOUS
<1> USE InboxAssumption
<1>0. \A i \in Instances : drains[i] \in DrainType
  BY DEF TypeInv
<1>1. ASSUME NEW k \in Keys, Insert(k) PROVE MarkInv'
  <2>1. \A x \in Keys : table[x].state = "pending" =>
          table'[x] = table[x] /\ handled'[x] = handled[x]
    BY <1>1 DEF Insert, TypeInv
  <2> SUFFICES ASSUME NEW i \in Instances, Live(i)
               PROVE  MarkedWell(drains[i])' /\ InHand(drains[i])'
    BY <1>1 DEF Insert, MarkInv, Live
  <2>2. drains' = drains /\ Claimed(drains[i]) /\ MarkedWell(drains[i]) /\ InHand(drains[i])
    BY <1>1 DEF Insert, ClaimInv, MarkInv
  <2>3. DOMAIN drains[i].marks \subseteq Keys
    BY <1>0 DEF DrainType
  <2>4. MarkedWell(drains[i])'
    BY <2>1, <2>2, <2>3 DEF MarkedWell, Claimed
  <2>5. drains[i].pc = "deliver" =>
          Head(drains[i].batch) \in Keys /\ Head(drains[i].batch) \in Range(drains[i].batch)
    BY <1>0, <2>2, BatchTail DEF DrainType, Claimed
  <2>6. InHand(drains[i])'
    BY <2>1, <2>2, <2>5 DEF InHand, Claimed
  <2> QED
    BY <2>4, <2>6
<1>2. CASE Sweep
  <2>1. \A x \in Keys : table[x].state = "pending" => table'[x] = table[x]
    BY <1>2 DEF Sweep, Swept
  <2> QED
    BY <1>0, <1>2, <2>1 DEF Sweep, ClaimInv, Claimed, MarkInv, MarkedWell, InHand, Live, DrainType
<1>3. ASSUME NEW i \in Instances, Drain(i) PROVE MarkInv'
  <2>1. PICK b \in Batches : drains' = [drains EXCEPT ![i] = [NoDrain EXCEPT
          !.pc = "deliver", !.batch = b, !.todo = Consumers]]
    BY <1>3 DEF Drain
  <2>2. /\ DOMAIN drains'[i].marks = {} /\ drains'[i].todo = Consumers
        /\ drains'[i].pc = "deliver" /\ drains'[i].writes = {}
        /\ \A j \in Instances \ {i} : drains'[j] = drains[j]
    BY <2>1 DEF NoDrain, TypeInv
  <2>3. External \subseteq Range(Consumers) /\ Consumers # <<>>
    BY DEF External, Consumers, Range
  <2>4. MarkedWell(drains[i])' /\ InHand(drains[i])'
    BY <2>2, <2>3 DEF MarkedWell, InHand
  <2>5. \A j \in Instances \ {i} : ~Live(j)'
    BY <1>3, <2>2 DEF Drain, LockInv, Live
  <2> QED
    BY <2>4, <2>5 DEF MarkInv
<1>4. ASSUME NEW i \in Instances, Handle(i) PROVE MarkInv'
  <2> SUFFICES ASSUME NEW j \in Instances, Live(j)'
               PROVE  MarkedWell(drains[j])' /\ InHand(drains[j])'
    BY DEF MarkInv
  <2> DEFINE d == drains[j]
             e == drains'[j]
             k == Head(d.batch)
  <2>1. /\ UNCHANGED table
        /\ \A x \in Keys : handled[x] \subseteq handled'[x] /\ handled'[x] \subseteq External
    BY <1>4, HandleFrame, TypeStep DEF TypeInv
  <2>2. Live(j) /\ e.marks = d.marks /\ e.batch = d.batch
    BY <1>4, HandleFrame DEF Live, TypeInv
  <2>3. d \in DrainType /\ MarkedWell(d) /\ InHand(d) /\ Claimed(d)
    BY <1>0, <2>2 DEF MarkInv, ClaimInv
  <2>6. \A x \in DOMAIN d.marks : handled[x] = External => handled'[x] = External
    <3>1. DOMAIN d.marks \subseteq Keys
      BY <2>3 DEF DrainType
    <3> QED
      BY <2>1, <3>1
  <2>4. CASE j # i
    <3>1. e = d
      BY <1>4, <2>4, HandleFrame DEF TypeInv
    <3>2. d.pc = "deliver" => k \in Keys
      BY <2>3, HeadTailProperties DEF DrainType
    <3>3. MarkedWell(drains[j])'
      BY <2>1, <2>3, <2>6, <3>1 DEF MarkedWell
    <3>4. InHand(drains[j])'
      BY <2>1, <2>3, <3>1, <3>2 DEF InHand
    <3> QED
      BY <3>3, <3>4
  <2>5. CASE j = i
    <3>1. /\ d.pc = "deliver" /\ e.pc = "deliver" /\ e.todo = Tail(d.todo) /\ d.todo # <<>>
          /\ Head(d.todo) \in External =>
               /\ e.writes = d.writes
               /\ ~e.failed => ~d.failed /\ Head(d.todo) \in handled'[k]
          /\ Head(d.todo) \notin External =>
               /\ e.writes = d.writes \cup {k}
               /\ ~e.failed => ~d.failed
      BY <1>4, <2>2, <2>5, HandleFrame DEF Live
    <3>2. k \in Keys /\ k \notin DOMAIN d.marks
      BY <2>3, <3>1, BatchTail DEF DrainType, Claimed
    <3>3. MarkedWell(drains[j])'
      <4>1. \A x \in DOMAIN d.marks : x \in e.writes <=> x \in d.writes
        BY <3>1, <3>2
      <4> QED
        BY <2>1, <2>2, <2>3, <2>6, <4>1 DEF MarkedWell
    <3>4. /\ Range(d.todo) = {Head(d.todo)} \cup Range(Tail(d.todo))
          /\ Head(d.todo) \in External <=> Tail(d.todo) # <<>>
      BY <2>3, <3>1, LeftsTail DEF DrainType
    <3>5. ~e.failed => External \subseteq handled'[k] \cup Range(e.todo)
      BY <2>1, <2>3, <3>1, <3>2, <3>4 DEF InHand
    <3>6. e.writes \ DOMAIN e.marks = IF e.todo = <<>> THEN {k} ELSE {}
      BY <2>2, <2>3, <3>1, <3>2, <3>4 DEF InHand
    <3>7. InHand(drains[j])'
      BY <2>2, <3>1, <3>5, <3>6 DEF InHand
    <3> QED
      BY <3>3, <3>7
  <2> QED
    BY <2>4, <2>5
<1>5. ASSUME NEW i \in Instances, Record(i) PROVE MarkInv'
  <2> DEFINE d == drains[i]
             e == drains'[i]
             k == Head(d.batch)
  <2>1. d \in DrainType /\ d.pc = "deliver" /\ d.todo = <<>> /\ Live(i)
    BY <1>0, <1>5 DEF Record, Live
  <2>2. Claimed(d) /\ MarkedWell(d) /\ InHand(d)
    BY <2>1 DEF ClaimInv, MarkInv
  <2>3. /\ e.pc = (IF Tail(d.batch) = <<>> THEN "commit" ELSE "deliver")
        /\ e.todo = (IF Tail(d.batch) = <<>> THEN <<>> ELSE Consumers)
        /\ DOMAIN e.marks = DOMAIN d.marks \cup {k}
        /\ e.marks[k] = Outcome(table[k].attempts, d.failed)
        /\ \A x \in DOMAIN d.marks \ {k} : e.marks[x] = d.marks[x]
        /\ e.writes = RolledBack(d)
        /\ \A j \in Instances \ {i} : drains'[j] = drains[j]
        /\ UNCHANGED <<table, handled>>
    BY <1>5 DEF Record, TypeInv
  <2>4. k \in Keys /\ k \notin DOMAIN d.marks
    BY <2>1, <2>2, BatchTail DEF DrainType, Claimed
  <2>5. d.writes \ DOMAIN d.marks = {k}
    BY <2>1, <2>2 DEF InHand
  <2>6. ~d.failed => handled[k] = External
    <3>1. Range(<<>>) = {}
      BY DEF Range
    <3> QED
      BY <2>1, <2>2, <2>4, <3>1 DEF InHand, TypeInv
  <2>7. MarkedWell(drains[i])'
    <3>1. ASSUME NEW x \in DOMAIN d.marks PROVE x \in e.writes <=> x \in d.writes
      BY <2>3, <2>4 DEF RolledBack
    <3>2. k \in e.writes <=> ~d.failed
      BY <2>3, <2>5 DEF RolledBack
    <3>3. table[k].attempts \in Nat /\ MaxAttempts \in Nat /\ d.failed \in BOOLEAN
      BY <2>1, <2>4 DEF TypeInv, RowType, DrainType
    <3>4. /\ e.marks[k] = "processed" <=> ~d.failed
          /\ e.marks[k] = "dead" => table[k].attempts + 1 >= MaxAttempts
          /\ e.marks[k] = "pending" => table[k].attempts + 1 < MaxAttempts
      <4>1. CASE d.failed
        <5>1. CASE table[k].attempts + 1 >= MaxAttempts
          BY <2>3, <4>1, <5>1 DEF Outcome
        <5>2. CASE ~(table[k].attempts + 1 >= MaxAttempts)
          <6>1. e.marks[k] = "pending"
            BY <2>3, <4>1, <5>2 DEF Outcome
          <6>2. table[k].attempts + 1 < MaxAttempts
            BY <3>3, <5>2
          <6> QED
            BY <4>1, <6>1, <6>2
        <5> QED
          BY <5>1, <5>2
      <4>2. CASE ~d.failed
        BY <2>3, <4>2 DEF Outcome
      <4> QED
        BY <4>1, <4>2
    <3> QED
      BY <2>2, <2>3, <2>4, <2>6, <3>1, <3>2, <3>4 DEF MarkedWell
  <2>8. InHand(drains[i])'
    <3>1. External \subseteq Range(Consumers) /\ Consumers # <<>>
      BY DEF External, Consumers, Range
    <3>2. e.writes \subseteq DOMAIN e.marks
      BY <2>3, <2>5 DEF RolledBack
    <3> QED
      BY <2>3, <3>1, <3>2 DEF InHand
  <2>9. \A j \in Instances \ {i} : ~Live(j)'
    BY <2>1, <2>3, OneLive DEF Live
  <2> QED
    BY <2>7, <2>8, <2>9 DEF MarkInv
<1>6. ASSUME NEW i \in Instances, Commit(i) PROVE MarkInv'
  <2>1. \A j \in Instances : ~Live(j)'
    BY <1>6, OneLive DEF Commit, Live, TypeInv, NoDrain
  <2> QED
    BY <2>1 DEF MarkInv
<1>7. ASSUME NEW i \in Instances, SessionLost(i) PROVE MarkInv'
  BY <1>7 DEF SessionLost, MarkInv, MarkedWell, InHand, Live, TypeInv
<1>8. ASSUME NEW i \in Instances, Abandon(i) PROVE MarkInv'
  BY <1>8 DEF Abandon, MarkInv, MarkedWell, InHand, Live, TypeInv, NoDrain
<1>9. CASE UNCHANGED vars
  BY <1>9 DEF vars, MarkInv, MarkedWell, InHand, Live
<1> QED
  BY <1>1, <1>2, <1>3, <1>4, <1>5, <1>6, <1>7, <1>8, <1>9 DEF Next, DrainStep
-----------------------------------------------------------------------------
(* The theorems *)

\* The invariant holds of every reachable state.
THEOREM Invariant == Spec => []IInv
<1>1. Init => IInv
  <2> SUFFICES ASSUME Init PROVE IInv
    OBVIOUS
  <2> USE InboxAssumption
  <2>1. Absent \in RowType
    BY DEF Absent, RowType
  <2>2. [k \in {} |-> "processed"] \in UNION {[S -> Verdicts] : S \in SUBSET Keys}
    <3>1. [k \in {} |-> "processed"] \in [{} -> Verdicts] /\ {} \in SUBSET Keys
      OBVIOUS
    <3> QED
      BY <3>1
  <2>3. <<>> \in Seq(Keys) /\ <<>> \in Lefts
    BY EmptySeq DEF Lefts
  <2>4. NoDrain \in DrainType
    BY <2>2, <2>3 DEF NoDrain, DrainType
  <2>5. TypeInv
    BY <2>1, <2>4 DEF Init, TypeInv
  <2>6. \A i \in Instances : ~Live(i)
    BY DEF Init, Live, NoDrain
  <2> QED
    BY <2>5, <2>6 DEF IInv, LockInv, ClaimInv, MarkInv
<1>2. IInv /\ [Next]_vars => IInv'
  BY TypeStep, LockStep, ClaimStep, MarkStep DEF IInv
<1> QED
  BY <1>1, <1>2, PTL DEF Spec

\* Every variable has its type.
THEOREM TypeCorrect == Spec => []TypeOK
<1>1. IInv => TypeOK
  BY TypesCorrect DEF IInv
<1> QED
  BY <1>1, Invariant, PTL

\* A commit settles the rows its transaction has claimed: processed with their
\* effects and after both outside consumers, or failed with an attempt more.
LEMMA CommitSettles ==
  ASSUME IInv, NEW i \in Instances, Commit(i)
  PROVE  Promise!Next
<1> DEFINE d == drains[i]
           ok == {k \in DOMAIN d.marks : d.marks[k] = "processed"}
           failed == DOMAIN d.marks \ ok
<1>1. d \in DrainType /\ Live(i) /\ d.pc = "commit"
  BY DEF IInv, TypeInv, Commit, Live
<1>2. Claimed(d) /\ MarkedWell(d) /\ d.writes \subseteq DOMAIN d.marks
  BY <1>1 DEF IInv, ClaimInv, MarkInv, InHand
<1>3. /\ DOMAIN d.marks \subseteq Keys
      /\ \A k \in DOMAIN d.marks : d.marks[k] \in Verdicts
  BY <1>1 DEF DrainType
<1>4. /\ table' = [k \in Keys |-> IF k \in DOMAIN d.marks
                                  THEN Marked(table[k], d.marks[k]) ELSE table[k]]
      /\ txEffects' = [k \in Keys |-> IF k \in d.writes THEN txEffects[k] + 1 ELSE txEffects[k]]
      /\ handled' = handled
  BY DEF Commit
<1>5. d.writes = ok
  BY <1>2 DEF MarkedWell
<1>6. ASSUME NEW k \in Keys
      PROVE  /\ table'[k].state = (IF k \in ok THEN "processed"
                                   ELSE IF k \in failed /\ table[k].attempts + 1 >= MaxAttempts
                                        THEN "dead" ELSE table[k].state)
             /\ table'[k].attempts = (IF k \in ok \cup failed THEN table[k].attempts + 1
                                      ELSE table[k].attempts)
  <2>1. CASE k \in ok
    BY <1>4, <2>1 DEF Marked
  <2>2. CASE k \in failed
    <3>1. d.marks[k] \in {"dead", "pending"} /\ table[k].state = "pending"
      BY <1>2, <1>3, <2>2 DEF Verdicts, Claimed
    <3>2. /\ d.marks[k] = "dead" => table[k].attempts + 1 >= MaxAttempts
          /\ d.marks[k] = "pending" => ~(table[k].attempts + 1 >= MaxAttempts)
      <4>1. table[k].attempts \in Nat /\ MaxAttempts \in Nat
        BY InboxAssumption DEF IInv, TypeInv, RowType
      <4>2. /\ d.marks[k] = "dead" => table[k].attempts + 1 >= MaxAttempts
            /\ d.marks[k] = "pending" => table[k].attempts + 1 < MaxAttempts
        BY <1>2, <2>2 DEF MarkedWell
      <4> QED
        BY <4>1, <4>2
    <3>3. table'[k].state = d.marks[k] /\ table'[k].attempts = table[k].attempts + 1
      BY <1>4, <2>2 DEF Marked
    <3> QED
      BY <2>2, <3>1, <3>2, <3>3
  <2>3. CASE k \notin DOMAIN d.marks
    BY <1>4, <2>3
  <2> QED
    BY <2>1, <2>2, <2>3
<1>7. Promise!Settle(ok, failed)
  <2>1. ok \cap failed = {} /\ ok \cup failed = DOMAIN d.marks
    OBVIOUS
  <2>2. \A k \in ok : handled[k] = External
    BY <1>2 DEF MarkedWell
  <2>3. \A k \in ok \cup failed : table[k].state = "pending"
    BY <1>2, <2>1 DEF Claimed
  <2>4. [k \in Keys |-> table[k].state]' =
          [k \in Keys |-> IF k \in ok THEN "processed"
             ELSE IF k \in failed /\ table[k].attempts + 1 >= MaxAttempts THEN "dead"
             ELSE table[k].state]
    BY <1>6
  <2>5. [k \in Keys |-> table[k].attempts]' =
          [k \in Keys |-> IF k \in ok \cup failed THEN table[k].attempts + 1
             ELSE table[k].attempts]
    BY <1>6
  <2>6. txEffects' = [k \in Keys |-> IF k \in ok THEN txEffects[k] + 1 ELSE txEffects[k]]
    BY <1>4, <1>5
  <2> HIDE DEF ok, failed
  <2> QED
    BY <1>3, <1>4, <2>1, <2>2, <2>3, <2>4, <2>5, <2>6 DEF Promise!Settle
<1>8. ok \in SUBSET Keys /\ failed \in SUBSET Keys
  BY <1>3
<1> HIDE DEF ok, failed
<1> QED
  BY <1>7, <1>8, Zenon DEF Promise!Next, Promise!Settle
\* A step that leaves the rows' states and attempts, the effects and what has been
\* handled alone is invisible.
LEMMA Invisible ==
  ASSUME UNCHANGED <<table, txEffects, handled>>
  PROVE  UNCHANGED Promise!vars
BY DEF Promise!vars

\* An outside consumer may be the last one the event waited for; no other step
\* inside a drain shows.
LEMMA HandleReaches ==
  ASSUME IInv, NEW i \in Instances, Handle(i)
  PROVE  [Promise!Next]_(Promise!vars)
<1> DEFINE d == drains[i]
           k == Head(d.batch)
           before == [x \in Keys |-> handled[x] = External]
           after == [x \in Keys |-> handled'[x] = External]
<1>1. k \in Keys
  BY HeadTailProperties DEF IInv, TypeInv, DrainType, Handle
<1>2. UNCHANGED <<table, txEffects>> /\ \A x \in Keys \ {k} : handled'[x] = handled[x]
  BY <1>1 DEF Handle, IInv, TypeInv
<1>3. handled[k] \subseteq handled'[k] /\ handled'[k] \subseteq External
  BY <1>1, HandleFrame, TypeStep DEF IInv, TypeInv, Next, DrainStep
<1>4. CASE (handled'[k] = External) <=> (handled[k] = External)
  <2>1. after = before
    BY <1>2, <1>4
  <2>2. UNCHANGED Promise!vars
    BY <1>2, <2>1 DEF Promise!vars
  <2> QED
    BY <2>2
<1>5. CASE handled'[k] = External /\ handled[k] # External
  <2>1. after = [before EXCEPT ![k] = TRUE]
    BY <1>1, <1>2, <1>5
  <2>2. Promise!Reach(k)
    BY <1>2, <2>1 DEF Promise!Reach
  <2> QED
    BY <1>1, <2>2, Zenon DEF Promise!Next, Promise!Reach
<1> QED
  BY <1>3, <1>4, <1>5

\* The inbox implements the outbox: every behaviour of the tables, locks, batches and lost
\* sessions is one of the promise, through the mapping that forgets them.
THEOREM Implements == Spec => ImplementsOutbox
<1>1. Init => Promise!Init
  <2> SUFFICES ASSUME Init PROVE Promise!Init
    OBVIOUS
  <2>1. External # {}
    BY DEF External
  <2> QED
    BY <2>1 DEF Init, Absent, Promise!Init
<1>2. IInv /\ [Next]_vars => [Promise!Next]_(Promise!vars)
  <2> SUFFICES ASSUME IInv, [Next]_vars PROVE [Promise!Next]_(Promise!vars)
    OBVIOUS
  <2>1. ASSUME NEW k \in Keys, Insert(k) PROVE [Promise!Next]_(Promise!vars)
    <3>1. table[k].state = "absent" /\ table[k].attempts = 0
      BY <2>1 DEF Insert, IInv, TypeInv, RowType
    <3>2. /\ \A x \in Keys \ {k} : table'[x] = table[x] /\ handled'[x] = handled[x]
          /\ table'[k].state = "pending" /\ table'[k].attempts = 0 /\ handled'[k] = {}
          /\ UNCHANGED txEffects
      BY <2>1 DEF Insert, IInv, TypeInv
    <3>3. External # {}
      BY DEF External
    <3>4. [x \in Keys |-> table'[x].state] = [[x \in Keys |-> table[x].state] EXCEPT ![k] = "pending"]
      BY <3>2
    <3>5. [x \in Keys |-> table'[x].attempts] = [x \in Keys |-> table[x].attempts]
      BY <3>1, <3>2
    <3>6. [x \in Keys |-> handled'[x] = External] =
            [[x \in Keys |-> handled[x] = External] EXCEPT ![k] = FALSE]
      BY <3>2, <3>3
    <3>7. Promise!Enqueue(k)
      BY <3>1, <3>2, <3>4, <3>5, <3>6 DEF Promise!Enqueue
    <3> QED
      BY <3>7 DEF Promise!Next
  <2>2. CASE Sweep
    <3>1. PICK S \in (SUBSET Swept) \ {{}} :
            table' = [k \in Keys |-> IF k \in S THEN Absent ELSE table[k]]
      BY <2>2 DEF Sweep
    <3>2. S \in SUBSET Keys /\ \A k \in S : table[k].state \in {"processed", "dead"}
      BY <3>1 DEF Swept
    <3>3. [x \in Keys |-> table'[x].state] =
            [x \in Keys |-> IF x \in S THEN "absent" ELSE table[x].state]
      BY <3>1 DEF Absent
    <3>4. [x \in Keys |-> table'[x].attempts] =
            [x \in Keys |-> IF x \in S THEN 0 ELSE table[x].attempts]
      BY <3>1 DEF Absent
    <3>5. Promise!Purge(S)
      BY <2>2, <3>2, <3>3, <3>4 DEF Sweep, Promise!Purge
    <3> QED
      BY <3>2, <3>5 DEF Promise!Next
  <2>3. ASSUME NEW i \in Instances, Drain(i) PROVE [Promise!Next]_(Promise!vars)
    BY <2>3, Invisible DEF Drain
  <2>4. ASSUME NEW i \in Instances, Handle(i) PROVE [Promise!Next]_(Promise!vars)
    BY <2>4, HandleReaches
  <2>5. ASSUME NEW i \in Instances, Record(i) PROVE [Promise!Next]_(Promise!vars)
    BY <2>5, Invisible DEF Record
  <2>6. ASSUME NEW i \in Instances, Commit(i) PROVE [Promise!Next]_(Promise!vars)
    BY <2>6, CommitSettles
  <2>7. ASSUME NEW i \in Instances, SessionLost(i) PROVE [Promise!Next]_(Promise!vars)
    BY <2>7, Invisible DEF SessionLost
  <2>8. ASSUME NEW i \in Instances, Abandon(i) PROVE [Promise!Next]_(Promise!vars)
    BY <2>8, Invisible DEF Abandon
  <2>9. CASE UNCHANGED vars
    BY <2>9, Invisible DEF vars
  <2> QED
    BY <2>1, <2>2, <2>3, <2>4, <2>5, <2>6, <2>7, <2>8, <2>9 DEF Next, DrainStep
<1> QED
  BY <1>1, <1>2, Invariant, PTL DEF Spec, ImplementsOutbox, Promise!Spec

(***************************************************************************)
(*                               Automations                               *)
(***************************************************************************)

Run == [key : EventKeys, status : Statuses, attempts : 0..(MaxStartAttempts - 1)]

Mission == [run : {0} \cup RunIds, phase : {"live", "done", "failed", "told"}]

\* The starter works for a run that is starting and, until it has inserted one, has no mission.
StarterInv ==
  /\ starter.made => starter.run # 0
  /\ starter.run # 0 =>
       /\ runs[starter.run].status = "starting"
       /\ ~starter.made => MissionsOf(starter.run) = {}

\* A mission whose end is still to be told has its run.
MissionInv == \A m \in DOMAIN missions : missions[m].phase # "told" => missions[m].run # 0

\* The breaker leaves no queue behind, and nothing joins it while the automation is off.
OffInv == ~interfered /\ ~enabled => Queued(runs) = {}

AutomationInv ==
  AutomationTypeOK /\ StarterInv /\ MissionInv /\ OffInv /\ SlotsAgree /\ OneMissionPerRun
-----------------------------------------------------------------------------
(* The operators on runs *)

\* The statuses among which a set of runs is counted.
LEMMA RunsType ==
  ASSUME NEW rs \in Seq(Run)
  PROVE  /\ Len(rs) \in Nat /\ DOMAIN rs = 1..Len(rs)
         /\ \A i \in DOMAIN rs : rs[i] \in Run /\ rs[i].status \in Statuses
         /\ \A S : InStatus(rs, S) \in SUBSET (1..Len(rs))
<1>1. Len(rs) \in Nat /\ DOMAIN rs = 1..Len(rs) /\ \A i \in DOMAIN rs : rs[i] \in Run
  OBVIOUS
<1>2. \A r \in Run : r.status \in Statuses
  BY DEF Run
<1>3. \A S : InStatus(rs, S) \in SUBSET (1..Len(rs))
  BY <1>1 DEF InStatus
<1> QED BY <1>1, <1>2, <1>3

\* Runs counted by their status are finitely many.
LEMMA FiniteRuns ==
  ASSUME NEW rs \in Seq(Run), NEW S
  PROVE  IsFiniteSet(InStatus(rs, S)) /\ Cardinality(InStatus(rs, S)) \in Nat
<1>1. Len(rs) \in Nat /\ InStatus(rs, S) \in SUBSET (1..Len(rs))
  BY RunsType
<1>2. 1 \in Int /\ Len(rs) \in Int
  BY <1>1
<1>3. IsFiniteSet(1..Len(rs))
  BY <1>2, FS_Interval
<1> QED BY <1>1, <1>3, FS_Subset, FS_CardinalityType

\* A run that holds a slot does not wait, and both kinds are finitely many.
LEMMA FiniteQueue ==
  ASSUME NEW rs \in Seq(Run)
  PROVE  /\ IsFiniteSet(Active(rs)) /\ Cardinality(Active(rs)) \in Nat
         /\ IsFiniteSet(Queued(rs)) /\ Cardinality(Queued(rs)) \in Nat
         /\ Active(rs) \in SUBSET (1..Len(rs)) /\ Queued(rs) \in SUBSET (1..Len(rs))
         /\ Active(rs) \cap Queued(rs) = {}
<1>1. Active(rs) \cap Queued(rs) = {}
  BY DEF Active, Queued, InStatus
<1> QED BY <1>1, FiniteRuns, RunsType DEF Active, Queued

\* One more of a finite set, and fewer of it.
LEMMA Counting ==
  /\ \A A, B : IsFiniteSet(B) /\ A \subseteq B =>
       IsFiniteSet(A) /\ Cardinality(A) \in Nat /\ Cardinality(B) \in Nat
       /\ Cardinality(A) <= Cardinality(B)
  /\ \A A, x : IsFiniteSet(A) =>
       /\ IsFiniteSet(A \cup {x}) /\ Cardinality(A) \in Nat /\ Cardinality(A \cup {x}) \in Nat
       /\ Cardinality(A \cup {x}) <= Cardinality(A) + 1
  /\ \A x : Cardinality({x}) = 1
  /\ Cardinality({}) = 0
<1>1. ASSUME NEW A, NEW B, IsFiniteSet(B), A \subseteq B
      PROVE  IsFiniteSet(A) /\ Cardinality(A) \in Nat /\ Cardinality(B) \in Nat
             /\ Cardinality(A) <= Cardinality(B)
  BY <1>1, FS_Subset, FS_CardinalityType
<1>2. ASSUME NEW A, NEW x, IsFiniteSet(A)
      PROVE  /\ IsFiniteSet(A \cup {x}) /\ Cardinality(A) \in Nat /\ Cardinality(A \cup {x}) \in Nat
             /\ Cardinality(A \cup {x}) <= Cardinality(A) + 1
  <2>1. IsFiniteSet(A \cup {x}) /\ Cardinality(A \cup {x}) \in {Cardinality(A), Cardinality(A) + 1}
    BY <1>2, FS_AddElement
  <2>2. Cardinality(A) \in Nat
    BY <1>2, FS_CardinalityType
  <2> QED BY <2>1, <2>2
<1> QED BY <1>1, <1>2, FS_EmptySet, FS_Singleton

\* The newest of a set of runs.
LEMMA NewestRun ==
  ASSUME NEW n \in Nat, NEW S \in SUBSET (1..n), S # {}
  PROVE  Max(S) \in S
<1> DEFINE T == {n - x : x \in S}
<1>1. T \subseteq Nat /\ T # {}
  <2>1. \A x \in S : n - x \in Nat
    OBVIOUS
  <2> QED BY <2>1
<1>2. PICK t \in T : \A y \in T : ~(<<y, t>> \in OpToRel(<, Nat))
  BY <1>1, NatLessThanWellFounded, WFMin
<1>3. PICK x \in S : t = n - x
  OBVIOUS
<1>4. ASSUME NEW y \in S PROVE x >= y
  <2>1. n - y \in T /\ n - y \in Nat /\ t \in Nat
    BY <1>1
  <2>2. ~(n - y < t)
    BY <1>2, <2>1 DEF OpToRel
  <2> QED BY <1>3, <2>2
<1> QED BY <1>4 DEF Max

\* The queue is given up.
LEMMA SkippedRuns ==
  ASSUME NEW rs \in Seq(Run)
  PROVE  LET ns == Skipped(rs, Queued(rs)) IN
         /\ ns \in Seq(Run) /\ Len(ns) = Len(rs) /\ DOMAIN ns = DOMAIN rs
         /\ Active(ns) = Active(rs) /\ Queued(ns) = {}
         /\ \A j \in DOMAIN rs : ns[j].key = rs[j].key
         /\ \A j \in DOMAIN rs : rs[j].status # "queued" => ns[j] = rs[j]
<1> DEFINE ns == Skipped(rs, Queued(rs))
<1>1. /\ Len(rs) \in Nat /\ DOMAIN rs = 1..Len(rs)
      /\ \A i \in DOMAIN rs : rs[i] \in Run /\ rs[i].status \in Statuses
  BY RunsType
<1>2. ns = [i \in 1..Len(rs) |->
              IF rs[i].status = "queued" THEN [rs[i] EXCEPT !.status = "skipped"] ELSE rs[i]]
  BY <1>1 DEF Skipped, Queued, InStatus
<1> HIDE DEF ns
<1>3. ASSUME NEW i \in 1..Len(rs)
      PROVE  /\ ns[i] \in Run /\ ns[i].key = rs[i].key
             /\ rs[i].status # "queued" => ns[i] = rs[i]
             /\ rs[i].status = "queued" => ns[i].status = "skipped"
  <2>1. rs[i] \in Run
    BY <1>1
  <2>2. [rs[i] EXCEPT !.status = "skipped"] \in Run
        /\ [rs[i] EXCEPT !.status = "skipped"].key = rs[i].key
        /\ [rs[i] EXCEPT !.status = "skipped"].status = "skipped"
    BY <2>1 DEF Run, Statuses
  <2>3. CASE rs[i].status = "queued"
    BY <1>2, <2>2, <2>3
  <2>4. CASE rs[i].status # "queued"
    BY <1>2, <2>1, <2>4
  <2> QED BY <2>3, <2>4
<1>4. DOMAIN ns = 1..Len(rs)
  BY <1>2
<1>5. ns \in Seq(Run) /\ Len(ns) = Len(rs)
  <2>1. ns \in [1..Len(rs) -> Run]
    BY <1>2, <1>3
  <2> QED BY <1>1, <2>1
<1>6. Active(ns) = Active(rs) /\ Queued(ns) = {}
  BY <1>1, <1>3, <1>4 DEF Active, Queued, InStatus
<1>7. /\ ns \in Seq(Run) /\ Len(ns) = Len(rs) /\ DOMAIN ns = DOMAIN rs
      /\ Active(ns) = Active(rs) /\ Queued(ns) = {}
      /\ \A j \in DOMAIN rs : ns[j].key = rs[j].key
      /\ \A j \in DOMAIN rs : rs[j].status # "queued" => ns[j] = rs[j]
  BY <1>1, <1>3, <1>4, <1>5, <1>6
<1> QED BY <1>7 DEF ns

\* The newest queued run takes a free slot, and the others give up.
LEMMA PromotedRuns ==
  ASSUME NEW rs \in Seq(Run)
  PROVE  LET ns == Promoted(rs) IN
         /\ ns \in Seq(Run) /\ Len(ns) = Len(rs) /\ DOMAIN ns = DOMAIN rs
         /\ \A j \in DOMAIN rs : ns[j].key = rs[j].key
         /\ \A j \in DOMAIN rs : rs[j].status # "queued" => ns[j] = rs[j]
         /\ \A j \in DOMAIN rs : ns[j].status = "running" => rs[j].status = "running"
         /\ \/ ns = rs /\ (Queued(rs) = {} \/ Cardinality(Active(rs)) >= Limit)
            \/ /\ Cardinality(Active(rs)) < Limit /\ Queued(ns) = {}
               /\ \E q \in Queued(rs) : Active(ns) = Active(rs) \cup {q}
<1> DEFINE ns == Promoted(rs)
           ss == Skipped(rs, Queued(rs))
           q == Max(Queued(rs))
<1>1. CASE Queued(rs) = {} \/ Cardinality(Active(rs)) >= Limit
  <2>1. ns = rs
    BY <1>1 DEF Promoted
  <2> HIDE DEF ns
  <2>2. /\ ns \in Seq(Run) /\ Len(ns) = Len(rs) /\ DOMAIN ns = DOMAIN rs
        /\ \A j \in DOMAIN rs : ns[j].key = rs[j].key
        /\ \A j \in DOMAIN rs : rs[j].status # "queued" => ns[j] = rs[j]
        /\ \A j \in DOMAIN rs : ns[j].status = "running" => rs[j].status = "running"
        /\ ns = rs /\ (Queued(rs) = {} \/ Cardinality(Active(rs)) >= Limit)
    BY <1>1, <2>1
  <2> QED BY <2>2 DEF ns
<1>2. CASE ~(Queued(rs) = {} \/ Cardinality(Active(rs)) >= Limit)
  <2>1. ns = [ss EXCEPT ![q].status = "starting"]
    BY <1>2 DEF Promoted
  <2>2. /\ ss \in Seq(Run) /\ Len(ss) = Len(rs) /\ DOMAIN ss = DOMAIN rs
        /\ Active(ss) = Active(rs) /\ Queued(ss) = {}
        /\ \A j \in DOMAIN rs : ss[j].key = rs[j].key
        /\ \A j \in DOMAIN rs : rs[j].status # "queued" => ss[j] = rs[j]
    BY SkippedRuns
  <2>3. q \in Queued(rs)
    <3>1. Queued(rs) \in SUBSET (1..Len(rs)) /\ Len(rs) \in Nat
      BY FiniteQueue, RunsType
    <3> QED BY <1>2, <3>1, NewestRun
  <2>4. q \in DOMAIN rs /\ rs[q].status = "queued"
    BY <2>3 DEF Queued, InStatus
  <2>5. Cardinality(Active(rs)) < Limit
    <3>1. Cardinality(Active(rs)) \in Nat /\ Limit \in Nat
      BY FiniteQueue, LimitsAssumption DEF Limit
    <3> QED BY <1>2, <3>1
  <2> HIDE DEF ns, ss, q
  <2>6. ss[q] \in Run /\ Len(ss) \in Nat /\ DOMAIN ss = 1..Len(ss)
        /\ \A j \in DOMAIN ss : ss[j] \in Run
    BY <2>2, <2>4
  <2>7. /\ [ss[q] EXCEPT !.status = "starting"] \in Run
        /\ [ss[q] EXCEPT !.status = "starting"].status = "starting"
        /\ [ss[q] EXCEPT !.status = "starting"].key = ss[q].key
    BY <2>6 DEF Run, Statuses, Counted
  <2>8. /\ ns = [ss EXCEPT ![q] = [ss[q] EXCEPT !.status = "starting"]]
    BY <2>1
  <2>9. /\ DOMAIN ns = 1..Len(ss) /\ ns[q] = [ss[q] EXCEPT !.status = "starting"]
        /\ \A j \in DOMAIN ss : j # q => ns[j] = ss[j]
    BY <2>2, <2>4, <2>6, <2>8
  <2>10. ns \in Seq(Run) /\ Len(ns) = Len(ss)
    <3>1. \A j \in 1..Len(ss) : ns[j] \in Run
      BY <2>6, <2>7, <2>9
    <3>2. ns \in [1..Len(ss) -> Run]
      BY <2>2, <2>6, <2>7, <2>8
    <3> QED BY <2>6, <3>2
  <2>11. Active(ns) = Active(ss) \cup {q} /\ Queued(ns) = {}
    <3>1. ns[q].status = "starting"
      BY <2>7, <2>9
    <3>2. DOMAIN ns = DOMAIN ss /\ q \in DOMAIN ss
      BY <2>2, <2>4, <2>6, <2>9
    <3>3. \A j \in DOMAIN ss : ss[j].status # "queued"
      BY <2>2 DEF Queued, InStatus
    <3> QED BY <2>9, <3>1, <3>2, <3>3 DEF Active, Queued, InStatus
  <2>12. /\ ns \in Seq(Run) /\ Len(ns) = Len(rs) /\ DOMAIN ns = DOMAIN rs
         /\ \A j \in DOMAIN rs : ns[j].key = rs[j].key
    BY <2>2, <2>4, <2>6, <2>7, <2>9, <2>10
  <2>13. \A j \in DOMAIN rs : rs[j].status # "queued" => ns[j] = rs[j]
    BY <2>2, <2>4, <2>9
  <2>14. \E x \in Queued(rs) : Active(ns) = Active(rs) \cup {x}
    BY <2>2, <2>3, <2>11
  <2>15. ASSUME NEW j \in DOMAIN rs, ns[j].status = "running" PROVE rs[j].status = "running"
    <3>1. j # q /\ ns[j] = ss[j]
      BY <2>2, <2>7, <2>9, <2>15
    <3>2. j \in Active(rs)
      BY <2>2, <2>15, <3>1 DEF Active, InStatus
    <3> QED BY <2>2, <2>15, <3>1, <3>2 DEF Active, InStatus
  <2> QED BY <2>5, <2>11, <2>12, <2>13, <2>14, <2>15 DEF ns
<1> QED BY <1>1, <1>2

\* The counts when one run changes its record.
LEMMA OneRun ==
  ASSUME NEW rs \in Seq(Run), NEW i \in DOMAIN rs, NEW ns,
         DOMAIN ns = DOMAIN rs, \A j \in DOMAIN rs : j # i => ns[j] = rs[j]
  PROVE  /\ ns[i].status \in {"starting", "running"} => Active(ns) = Active(rs) \cup {i}
         /\ ns[i].status \notin {"starting", "running"} => Active(ns) = Active(rs) \ {i}
         /\ ns[i].status # "queued" => Queued(ns) = Queued(rs) \ {i}
BY DEF Active, Queued, InStatus

\* The slots of the automation, as a set of runs shows them.
Slots(rs) == Cardinality(Active(rs)) <= Limit /\ Cardinality(Queued(rs)) <= 1

\* What becomes of the runs when run i gives back its slot: tripped, the breaker gives up the queue.
Freed(rs, tripped) == IF tripped THEN Skipped(rs, Queued(rs)) ELSE PromotedIfOn(rs)

\* Every concurrency policy leaves room for one run.
LEMMA LimitPositive == Limit \in Nat /\ Limit >= 1
BY LimitsAssumption DEF Limit

\* A slot given back goes to the one that waits; the breaker leaves nobody waiting.
LEMMA FreedRuns ==
  ASSUME NEW rs \in Seq(Run), Slots(rs), NEW tripped \in BOOLEAN,
         NEW ns, ns = Freed(rs, tripped)
  PROVE  /\ ns \in Seq(Run) /\ Len(ns) = Len(rs) /\ DOMAIN ns = DOMAIN rs
         /\ \A j \in DOMAIN rs : ns[j].key = rs[j].key
         /\ \A j \in DOMAIN rs : rs[j].status # "queued" => ns[j] = rs[j]
         /\ \A j \in DOMAIN rs : ns[j].status = "running" => rs[j].status = "running"
         /\ Slots(ns) /\ Queued(ns) \subseteq Queued(rs)
         /\ Queued(ns) # {} /\ enabled => Active(ns) # {}
         /\ tripped => Queued(ns) = {}
         /\ ~enabled /\ ~tripped => ns = rs
<1>0. /\ IsFiniteSet(Active(rs)) /\ Cardinality(Active(rs)) \in Nat
      /\ IsFiniteSet(Queued(rs)) /\ Cardinality(Queued(rs)) \in Nat
  BY FiniteQueue
<1>1. CASE tripped
  <2>1. ns = Skipped(rs, Queued(rs))
    BY <1>1 DEF Freed
  <2>2. /\ ns \in Seq(Run) /\ Len(ns) = Len(rs) /\ DOMAIN ns = DOMAIN rs
        /\ Active(ns) = Active(rs) /\ Queued(ns) = {}
        /\ \A j \in DOMAIN rs : ns[j].key = rs[j].key
        /\ \A j \in DOMAIN rs : rs[j].status # "queued" => ns[j] = rs[j]
    BY <2>1, SkippedRuns
  <2>3. Slots(ns)
    BY <2>2, Counting DEF Slots
  <2>4. ASSUME NEW j \in DOMAIN rs, ns[j].status = "running" PROVE rs[j].status = "running"
    <3>1. j \in Active(rs)
      BY <2>2, <2>4 DEF Active, InStatus
    <3> QED BY <2>2, <2>4, <3>1 DEF Active, InStatus
  <2> QED BY <1>1, <2>2, <2>3, <2>4
<1>2. CASE ~tripped /\ ~enabled
  <2>1. ns = rs
    BY <1>2 DEF Freed, PromotedIfOn
  <2> QED BY <1>2, <2>1
<1>3. CASE ~tripped /\ enabled
  <2>1. ns = Promoted(rs)
    BY <1>3 DEF Freed, PromotedIfOn
  <2>2. /\ ns \in Seq(Run) /\ Len(ns) = Len(rs) /\ DOMAIN ns = DOMAIN rs
        /\ \A j \in DOMAIN rs : ns[j].key = rs[j].key
        /\ \A j \in DOMAIN rs : rs[j].status # "queued" => ns[j] = rs[j]
        /\ \A j \in DOMAIN rs : ns[j].status = "running" => rs[j].status = "running"
        /\ \/ ns = rs /\ (Queued(rs) = {} \/ Cardinality(Active(rs)) >= Limit)
           \/ /\ Cardinality(Active(rs)) < Limit /\ Queued(ns) = {}
              /\ \E q \in Queued(rs) : Active(ns) = Active(rs) \cup {q}
    BY <2>1, PromotedRuns
  <2>3. CASE ns = rs /\ (Queued(rs) = {} \/ Cardinality(Active(rs)) >= Limit)
    <3>1. Queued(ns) # {} => Active(ns) # {}
      BY <1>0, <2>3, LimitPositive, Counting
    <3> QED BY <1>3, <2>2, <2>3, <3>1
  <2>4. CASE /\ Cardinality(Active(rs)) < Limit /\ Queued(ns) = {}
             /\ \E q \in Queued(rs) : Active(ns) = Active(rs) \cup {q}
    <3>1. PICK q \in Queued(rs) : Active(ns) = Active(rs) \cup {q}
      BY <2>4
    <3>2. Cardinality(Active(ns)) \in Nat /\ Cardinality(Active(ns)) <= Cardinality(Active(rs)) + 1
      BY <1>0, <3>1, Counting
    <3>3. Slots(ns)
      BY <1>0, <2>4, <3>2, LimitPositive, Counting DEF Slots
    <3> QED BY <1>3, <2>2, <2>4, <3>1, <3>3
  <2> QED BY <2>2, <2>3, <2>4
<1> QED BY <1>1, <1>2, <1>3

-----------------------------------------------------------------------------
(* What a step does to the runs *)

\* Run i gives back its slot; the breaker may trip.
Ends(i) ==
  \E r \in Run, tripped \in BOOLEAN :
    /\ r.status \in {"done", "failed", "skipped"}
    /\ tripped => enabled
    /\ runs' = Freed([runs EXCEPT ![i] = r], tripped)
    /\ enabled' = (enabled /\ ~tripped)

\* Run i, which is starting, is started or tried again.
Starts(i) ==
  /\ runs[i].status = "starting" /\ enabled' = enabled
  /\ \E r \in Run : r.status \in {"starting", "running"} /\ runs' = [runs EXCEPT ![i] = r]

\* The type invariant, with the domains the steps need.
LEMMA TypeFacts ==
  ASSUME AutomationTypeOK
  PROVE  /\ runs \in Seq(Run) /\ missions \in Seq(Mission)
         /\ Len(runs) \in Nat /\ RunIds = 1..Len(runs)
         /\ Len(missions) \in Nat /\ DOMAIN missions = 1..Len(missions)
         /\ \A i \in RunIds : runs[i] \in Run
         /\ \A m \in DOMAIN missions : missions[m] \in Mission
         /\ starter \in [run : {0} \cup RunIds, made : BOOLEAN]
<1>1. runs \in Seq(Run) /\ RunIds = DOMAIN runs
  BY DEF AutomationTypeOK, Run, RunIds
<1>2. missions \in Seq(Mission)
  BY DEF AutomationTypeOK, Mission
<1>3. starter \in [run : {0} \cup RunIds, made : BOOLEAN]
  BY DEF AutomationTypeOK
<1> QED BY <1>1, <1>2, <1>3

\* A run's record with another status.
LEMMA RecordTypes ==
  ASSUME NEW r \in Run
  PROVE  /\ \A s \in Statuses : /\ [r EXCEPT !.status = s] \in Run
                                /\ [r EXCEPT !.status = s].status = s
                                /\ [r EXCEPT !.status = s, !.attempts = 0] \in Run
                                /\ [r EXCEPT !.status = s, !.attempts = 0].status = s
         /\ r.attempts + 1 < MaxStartAttempts =>
              /\ [r EXCEPT !.attempts = @ + 1] \in Run
              /\ [r EXCEPT !.attempts = @ + 1].status = r.status
<1>1. MaxStartAttempts \in Nat /\ 0 \in 0..(MaxStartAttempts - 1)
  BY LimitsAssumption
<1>2. r.attempts \in 0..(MaxStartAttempts - 1)
  BY DEF Run
<1>3. r.attempts + 1 < MaxStartAttempts => r.attempts + 1 \in 0..(MaxStartAttempts - 1)
  BY <1>1, <1>2
<1> QED BY <1>1, <1>3 DEF Run

\* decide: who starts finds a slot, who waits finds none, and nobody does either while it is off.
LEMMA Decided ==
  ASSUME NEW on \in BOOLEAN
  PROVE  /\ Decision(on) \in {"skipped", "starting", "queued"}
         /\ Decision(on) = "starting" => on /\ Cardinality(Active(runs)) < Limit
         /\ Decision(on) = "queued" => on /\ ~(Cardinality(Active(runs)) < Limit)
BY DEF Decision

\* finalizeRun ends its run and may trip the breaker.
LEMMA FinalizeEnds ==
  ASSUME AutomationTypeOK, NEW i \in RunIds, NEW failed \in BOOLEAN, FinalizeRun(runs, i, failed)
  PROVE  Ends(i) /\ failures' \in Nat /\ UNCHANGED <<concurrency, trigger>>
<1> DEFINE r == [runs[i] EXCEPT !.status = IF failed THEN "failed" ELSE "done", !.attempts = 0]
           count == IF failed THEN failures + 1 ELSE 0
           trips == enabled /\ count >= BreakerFailures
           after == [runs EXCEPT ![i] = r]
<1>1. r \in Run /\ r.status \in {"done", "failed"}
  <2>1. runs[i] \in Run /\ "done" \in Statuses /\ "failed" \in Statuses
    BY TypeFacts DEF Statuses, Counted
  <2>2. CASE failed
    <3>1. r = [runs[i] EXCEPT !.status = "failed", !.attempts = 0]
      BY <2>2
    <3> HIDE DEF r
    <3> QED BY <2>1, <3>1, RecordTypes
  <2>3. CASE ~failed
    <3>1. r = [runs[i] EXCEPT !.status = "done", !.attempts = 0]
      BY <2>3
    <3> HIDE DEF r
    <3> QED BY <2>1, <3>1, RecordTypes
  <2> QED BY <2>2, <2>3
<1>2. after = [runs EXCEPT ![i] = [@ EXCEPT !.status = IF failed THEN "failed" ELSE "done", !.attempts = 0]]
  BY TypeFacts
<1>3. /\ failures' = count /\ enabled' = (enabled /\ ~trips)
      /\ runs' = IF trips THEN Skipped(after, Queued(after)) ELSE PromotedIfOn(after)
      /\ UNCHANGED <<concurrency, trigger>>
  BY <1>2 DEF FinalizeRun
<1>4. count \in Nat /\ enabled \in BOOLEAN
  BY DEF AutomationTypeOK
<1>5. trips \in BOOLEAN /\ (trips => enabled)
  BY <1>4
<1>6. runs' = Freed(after, trips)
  BY <1>3 DEF Freed
<1> HIDE DEF r, trips, count
<1> QED BY <1>1, <1>3, <1>4, <1>5, <1>6 DEF Ends

\* skipRun ends its run and leaves the breaker alone.
LEMMA SkipEnds ==
  ASSUME AutomationTypeOK, NEW i \in RunIds, UNCHANGED enabled,
         runs' = PromotedIfOn([runs EXCEPT ![i].status = "skipped"])
  PROVE  Ends(i)
<1> DEFINE r == [runs[i] EXCEPT !.status = "skipped"]
<1>1. r \in Run /\ r.status = "skipped"
  BY TypeFacts, RecordTypes DEF Statuses
<1>2. [runs EXCEPT ![i].status = "skipped"] = [runs EXCEPT ![i] = r]
  BY TypeFacts
<1>3. runs' = Freed([runs EXCEPT ![i] = r], FALSE)
  BY <1>2 DEF Freed
<1>4. enabled' = (enabled /\ ~FALSE)
  BY DEF AutomationTypeOK
<1> HIDE DEF r
<1> QED BY <1>1, <1>3, <1>4 DEF Ends

\* Adopting, committing and putting off a start keep the slot of the run.
LEMMA RunStarts ==
  ASSUME AutomationTypeOK, NEW i \in RunIds, runs[i].status = "starting", UNCHANGED enabled,
         \/ runs' = [runs EXCEPT ![i].status = "running"]
         \/ runs' = [runs EXCEPT ![i] = [@ EXCEPT !.status = "running", !.attempts = 0]]
         \/ runs[i].attempts + 1 < MaxStartAttempts /\ runs' = [runs EXCEPT ![i].attempts = @ + 1]
  PROVE  Starts(i)
<1>0. runs[i] \in Run /\ "running" \in Statuses
  BY TypeFacts DEF Statuses, Counted
<1>1. CASE runs' = [runs EXCEPT ![i].status = "running"]
  <2>1. runs' = [runs EXCEPT ![i] = [runs[i] EXCEPT !.status = "running"]]
    BY <1>1
  <2> QED BY <1>0, <2>1, RecordTypes DEF Starts
<1>2. CASE runs' = [runs EXCEPT ![i] = [@ EXCEPT !.status = "running", !.attempts = 0]]
  <2>1. runs' = [runs EXCEPT ![i] = [runs[i] EXCEPT !.status = "running", !.attempts = 0]]
    BY <1>2
  <2> QED BY <1>0, <2>1, RecordTypes DEF Starts
<1>3. CASE runs[i].attempts + 1 < MaxStartAttempts /\ runs' = [runs EXCEPT ![i].attempts = @ + 1]
  <2>1. runs' = [runs EXCEPT ![i] = [runs[i] EXCEPT !.attempts = @ + 1]]
    BY <1>3
  <2> QED BY <1>0, <1>3, <2>1, RecordTypes DEF Starts
<1> QED BY <1>1, <1>2, <1>3

\* A run ends or starts only while the starter has not claimed it, or as the starter lets go.
Frees(i) == starter' = Idle \/ (starter' = starter /\ starter.run # i)

\* Every step that changes the runs fires an event, ends one run or starts one, and the
\* end or the start of the run the starter holds is its own.
LEMMA RunsMove ==
  ASSUME AutomationInv, [AutomationNext]_automationVars
  PROVE  \/ runs' = runs
         \/ \E k \in EventKeys : Fire(k)
         \/ \E i \in RunIds : (Ends(i) \/ Starts(i)) /\ Frees(i)
<1> USE DEF automation, bounds
<1>0. /\ AutomationTypeOK /\ StarterInv /\ MissionInv
      /\ starter \in [run : {0} \cup RunIds, made : BOOLEAN]
      /\ \A m \in DOMAIN missions : missions[m] \in Mission
  BY TypeFacts DEF AutomationInv
<1>1. ASSUME NEW m \in DOMAIN missions, FinalizeMission(m)
      PROVE  runs' = runs \/ \E i \in RunIds : (Ends(i) \/ Starts(i)) /\ Frees(i)
  <2> DEFINE i == missions[m].run
  <2>1. i \in RunIds
    BY <1>0, <1>1 DEF FinalizeMission, MissionInv, Mission
  <2>2. starter' = starter /\ starter.run # i
    BY <1>1 DEF FinalizeMission
  <2>3. runs' = runs \/ FinalizeRun(runs, i, missions[m].phase = "failed")
    BY <1>1 DEF FinalizeMission
  <2> HIDE DEF i
  <2> QED BY <1>0, <2>1, <2>2, <2>3, FinalizeEnds DEF Frees
<1>2. CASE SkipRun
  <2>1. starter.run \in RunIds /\ starter' = Idle
    BY <1>0, <1>2 DEF SkipRun
  <2> QED BY <1>0, <1>2, <2>1, SkipEnds DEF SkipRun, Frees
<1>3. CASE CreateFails
  <2>1. starter.run \in RunIds /\ starter' = Idle /\ FinalizeRun(runs, starter.run, TRUE)
    BY <1>0, <1>3 DEF CreateFails
  <2> QED BY <1>0, <2>1, FinalizeEnds DEF Frees
<1>4. CASE RouteUnusable \/ Started
  <2>1. starter.run # 0 /\ starter' = Idle
    BY <1>0, <1>4 DEF RouteUnusable, Started, StarterInv
  <2>2. starter.run \in RunIds /\ runs[starter.run].status = "starting"
    BY <1>0, <2>1 DEF StarterInv
  <2> QED BY <1>0, <1>4, <2>1, <2>2, RunStarts DEF RouteUnusable, Started, Frees
<1>5. ASSUME NEW i \in RunIds, Adopt(i) \/ Claim(i)
      PROVE  runs' = runs \/ \E j \in RunIds : (Ends(j) \/ Starts(j)) /\ Frees(j)
  <2>1. CASE Adopt(i)
    <3>1. starter = Idle /\ starter' = starter /\ runs[i].status = "starting" /\ UNCHANGED enabled
          /\ runs' = [runs EXCEPT ![i].status = "running"]
      BY <2>1 DEF Adopt, Startable
    <3> QED BY <1>0, <3>1, RunStarts DEF Frees
  <2> QED BY <1>5, <2>1 DEF Claim
<1>6. ASSUME NEW m \in DOMAIN missions, MissionEnds(m) \/ DeleteMission(m)
      PROVE  runs' = runs
  BY <1>6 DEF MissionEnds, DeleteMission
<1>7. CASE HourPasses \/ InsertMission \/ StartLost \/ Patch \/ UNCHANGED automationVars
  BY <1>7 DEF HourPasses, InsertMission, StartLost, Patch, automationVars
<1> QED BY <1>1, <1>2, <1>3, <1>4, <1>5, <1>6, <1>7 DEF AutomationNext

\* Ending: who held a slot gives it back.
LEMMA EndsEffect ==
  ASSUME AutomationTypeOK, SlotsAgree, NEW i \in RunIds, Ends(i)
  PROVE  /\ runs' \in Seq(Run) /\ Len(runs') = Len(runs)
         /\ \A j \in RunIds : j # i /\ runs[j].status # "queued" => runs'[j] = runs[j]
         /\ \A j \in RunIds : runs'[j].status = "running" => runs[j].status = "running"
         /\ Slots(runs') /\ Queued(runs') \subseteq Queued(runs)
         /\ Queued(runs') # {} /\ enabled => Active(runs') # {}
         /\ ~enabled => Active(runs') \subseteq Active(runs)
         /\ enabled' # enabled => Queued(runs') = {}
         /\ enabled' => enabled
<1>1. PICK r \in Run, tripped \in BOOLEAN :
        /\ r.status \in {"done", "failed", "skipped"}
        /\ tripped => enabled
        /\ runs' = Freed([runs EXCEPT ![i] = r], tripped)
        /\ enabled' = (enabled /\ ~tripped)
  BY DEF Ends
<1> DEFINE rs == [runs EXCEPT ![i] = r]
<1>2. runs \in Seq(Run) /\ RunIds = DOMAIN runs
  BY TypeFacts DEF RunIds
<1>3. /\ rs \in Seq(Run) /\ Len(rs) = Len(runs) /\ DOMAIN rs = DOMAIN runs
      /\ \A j \in DOMAIN runs : j # i => rs[j] = runs[j]
      /\ rs[i] = r
      /\ Active(rs) = Active(runs) \ {i} /\ Queued(rs) = Queued(runs) \ {i}
  <2>1. /\ i \in DOMAIN runs /\ rs \in Seq(Run) /\ Len(rs) = Len(runs) /\ DOMAIN rs = DOMAIN runs
        /\ rs[i] = r /\ \A j \in DOMAIN runs : j # i => rs[j] = runs[j]
    BY <1>2
  <2>2. r.status \notin {"starting", "running"} /\ r.status # "queued"
    BY <1>1
  <2> HIDE DEF rs
  <2>3. rs[i].status \notin {"starting", "running"} /\ rs[i].status # "queued"
    BY <2>1, <2>2
  <2>4. Active(rs) = Active(runs) \ {i} /\ Queued(rs) = Queued(runs) \ {i}
    BY <1>2, <2>1, <2>3, OneRun
  <2> QED BY <2>1, <2>4
<1> HIDE DEF rs
<1>4. Slots(rs)
  <2>1. /\ Active(rs) \subseteq Active(runs) /\ Queued(rs) \subseteq Queued(runs)
        /\ IsFiniteSet(Active(runs)) /\ IsFiniteSet(Queued(runs))
    BY <1>2, <1>3, FiniteQueue
  <2>2. /\ Cardinality(Active(rs)) \in Nat /\ Cardinality(Active(runs)) \in Nat
        /\ Cardinality(Active(rs)) <= Cardinality(Active(runs))
    BY <2>1, Counting
  <2>3. /\ Cardinality(Queued(rs)) \in Nat /\ Cardinality(Queued(runs)) \in Nat
        /\ Cardinality(Queued(rs)) <= Cardinality(Queued(runs))
    BY <2>1, Counting
  <2> QED BY <2>2, <2>3, LimitPositive DEF Slots, SlotsAgree, ActiveWithinLimit, QueueBehindActive
<1>5. /\ runs' \in Seq(Run) /\ Len(runs') = Len(rs) /\ DOMAIN runs' = DOMAIN rs
      /\ \A j \in DOMAIN rs : rs[j].status # "queued" => runs'[j] = rs[j]
      /\ \A j \in DOMAIN rs : runs'[j].status = "running" => rs[j].status = "running"
      /\ Slots(runs') /\ Queued(runs') \subseteq Queued(rs)
      /\ Queued(runs') # {} /\ enabled => Active(runs') # {}
      /\ tripped => Queued(runs') = {}
      /\ ~enabled /\ ~tripped => runs' = rs
  <2>1. runs' = Freed(rs, tripped)
    BY <1>1 DEF rs
  <2> QED BY <1>3, <1>4, <2>1, FreedRuns
<1>6. /\ \A j \in RunIds : j # i /\ runs[j].status # "queued" => runs'[j] = runs[j]
      /\ Queued(runs') \subseteq Queued(runs)
  BY <1>2, <1>3, <1>5
<1>7. ~enabled => Active(runs') \subseteq Active(runs)
  BY <1>1, <1>3, <1>5
<1>8. /\ enabled' # enabled => Queued(runs') = {}
      /\ enabled' => enabled
  <2>1. enabled \in BOOLEAN
    BY DEF AutomationTypeOK
  <2>2. enabled' # enabled => tripped
    BY <1>1, <2>1
  <2> QED BY <1>1, <1>5, <2>2
<1>9. ASSUME NEW j \in RunIds, runs'[j].status = "running" PROVE runs[j].status = "running"
  BY <1>1, <1>2, <1>3, <1>5, <1>9
<1> QED BY <1>3, <1>5, <1>6, <1>7, <1>8, <1>9

\* Starting: the slot was taken already.
LEMMA StartsEffect ==
  ASSUME AutomationTypeOK, NEW i \in RunIds, Starts(i)
  PROVE  /\ runs' \in Seq(Run) /\ Len(runs') = Len(runs)
         /\ \A j \in RunIds : j # i => runs'[j] = runs[j]
         /\ Active(runs') = Active(runs) /\ Queued(runs') = Queued(runs) /\ enabled' = enabled
<1>1. PICK r \in Run : r.status \in {"starting", "running"} /\ runs' = [runs EXCEPT ![i] = r]
  BY DEF Starts
<1>2. runs \in Seq(Run) /\ RunIds = DOMAIN runs
  BY TypeFacts DEF RunIds
<1>3. /\ runs' \in Seq(Run) /\ Len(runs') = Len(runs)
      /\ \A j \in DOMAIN runs : j # i => runs'[j] = runs[j]
      /\ Active(runs') = Active(runs) \cup {i} /\ Queued(runs') = Queued(runs) \ {i}
  <2>1. /\ i \in DOMAIN runs /\ runs' \in Seq(Run) /\ Len(runs') = Len(runs)
        /\ DOMAIN runs' = DOMAIN runs
        /\ runs'[i] = r /\ \A j \in DOMAIN runs : j # i => runs'[j] = runs[j]
    BY <1>1, <1>2
  <2>2. runs'[i].status \in {"starting", "running"} /\ runs'[i].status # "queued"
    BY <1>1, <2>1
  <2> QED BY <1>2, <2>1, <2>2, OneRun
<1>4. i \in Active(runs) /\ i \notin Queued(runs) /\ enabled' = enabled
  BY <1>2 DEF Starts, Active, Queued, InStatus
<1> QED BY <1>2, <1>3, <1>4

\* The counts when a run is added.
LEMMA OneMoreRun ==
  ASSUME NEW rs, NEW ns, NEW n, n \notin DOMAIN rs, DOMAIN ns = DOMAIN rs \cup {n},
         \A j \in DOMAIN rs : ns[j] = rs[j]
  PROVE  /\ ns[n].status \in {"starting", "running"} => Active(ns) = Active(rs) \cup {n}
         /\ ns[n].status \notin {"starting", "running"} => Active(ns) = Active(rs)
         /\ ns[n].status = "queued" => Queued(ns) = Queued(rs) \cup {n}
         /\ ns[n].status # "queued" => Queued(ns) = Queued(rs)
BY DEF Active, Queued, InStatus

\* Appending, as its domain and values show it.
LEMMA Appended ==
  ASSUME NEW T, NEW s \in Seq(T), NEW e \in T
  PROVE  /\ Append(s, e) \in Seq(T) /\ Len(Append(s, e)) = Len(s) + 1
         /\ Len(s) + 1 \notin DOMAIN s /\ DOMAIN Append(s, e) = DOMAIN s \cup {Len(s) + 1}
         /\ Append(s, e)[Len(s) + 1] = e /\ \A j \in DOMAIN s : Append(s, e)[j] = s[j]
<1>1. Len(s) \in Nat /\ DOMAIN s = 1..Len(s)
  OBVIOUS
<1>2. 1..(Len(s) + 1) = (1..Len(s)) \cup {Len(s) + 1} /\ Len(s) + 1 \notin 1..Len(s)
  BY <1>1
<1>3. /\ Append(s, e) \in Seq(T) /\ Len(Append(s, e)) = Len(s) + 1
      /\ DOMAIN Append(s, e) = 1..(Len(s) + 1)
      /\ Append(s, e)[Len(s) + 1] = e /\ \A j \in DOMAIN s : Append(s, e)[j] = s[j]
  OBVIOUS
<1> QED BY ONLY <1>1, <1>2, <1>3, Zenon

\* An event's run starts in a free slot, waits alone behind full ones, or is skipped.
LEMMA FireEffect ==
  ASSUME AutomationTypeOK, NEW k \in EventKeys, Fire(k), NEW n, n = Len(runs) + 1
  PROVE  /\ runs' \in Seq(Run) /\ Len(runs') = n
         /\ \A j \in RunIds : runs[j].status # "queued" => runs'[j] = runs[j]
         /\ RunIds' = RunIds \cup {n} /\ runs'[n].status # "running"
         /\ \/ /\ enabled /\ Cardinality(Active(runs)) < Limit
               /\ Active(runs') = Active(runs) \cup {n} /\ Queued(runs') = Queued(runs)
            \/ /\ enabled /\ Active(runs) # {}
               /\ Active(runs') = Active(runs) /\ Queued(runs') = {n}
            \/ Active(runs') = Active(runs) /\ Queued(runs') = Queued(runs)
<1> DEFINE on == enabled /\ (k \in Manual \/ trigger = "on")
           status == Decision(on)
           kept == IF status = "queued" THEN Skipped(runs, Queued(runs)) ELSE runs
           r == NewRun(k, status)
<1>1. runs' = Append(kept, r)
  BY DEF Fire
<1>2. runs \in Seq(Run) /\ RunIds = DOMAIN runs /\ on \in BOOLEAN /\ (on => enabled)
  BY TypeFacts DEF RunIds, AutomationTypeOK
<1>3. /\ status \in {"skipped", "starting", "queued"}
      /\ status = "starting" => on /\ Cardinality(Active(runs)) < Limit
      /\ status = "queued" => on /\ ~(Cardinality(Active(runs)) < Limit)
  BY <1>2, Decided
<1> HIDE DEF on, status
<1>4. r \in Run /\ r.status = status
  <2>1. 0 \in 0..(MaxStartAttempts - 1)
    BY LimitsAssumption
  <2>2. status \in Statuses
    BY <1>3 DEF Statuses, Counted
  <2> QED BY <2>1, <2>2 DEF NewRun, Run
<1>5. CASE status = "queued"
  <2>1. kept = Skipped(runs, Queued(runs))
    BY <1>5
  <2>2. /\ kept \in Seq(Run) /\ Len(kept) = Len(runs) /\ DOMAIN kept = DOMAIN runs
        /\ Active(kept) = Active(runs) /\ Queued(kept) = {}
        /\ \A j \in DOMAIN runs : runs[j].status # "queued" => kept[j] = runs[j]
    BY <1>2, <2>1, SkippedRuns
  <2>3. Active(runs) # {}
    <3>1. Active(runs) = {} => Cardinality(Active(runs)) = 0
      BY Counting
    <3>2. 0 < Limit
      BY LimitPositive
    <3> QED BY <1>3, <1>5, <3>1, <3>2
  <2> HIDE DEF kept, r
  <2>4. /\ runs' \in Seq(Run) /\ Len(runs') = n /\ n \notin DOMAIN kept
        /\ DOMAIN runs' = DOMAIN kept \cup {n} /\ runs'[n] = r
        /\ \A j \in DOMAIN kept : runs'[j] = kept[j]
    BY <1>1, <1>4, <2>2, Appended
  <2>5. /\ runs' \in Seq(Run) /\ Len(runs') = n
        /\ \A j \in DOMAIN kept : runs'[j] = kept[j]
        /\ Active(runs') = Active(kept) /\ Queued(runs') = Queued(kept) \cup {n}
        /\ RunIds' = RunIds \cup {n} /\ runs'[n].status # "running"
    <3>1. runs'[n].status = "queued"
      BY <1>4, <1>5, <2>4
    <3>2. n \notin DOMAIN kept /\ DOMAIN runs' = DOMAIN kept \cup {n} /\ \A j \in DOMAIN kept : runs'[j] = kept[j]
      BY <2>4
    <3>3. Active(runs') = Active(kept) /\ Queued(runs') = Queued(kept) \cup {n}
      BY <3>1, <3>2, OneMoreRun
    <3>4. RunIds' = RunIds \cup {n}
      BY <2>2, <3>2 DEF RunIds
    <3> QED BY <2>4, <3>1, <3>3, <3>4
  <2>6. \A j \in RunIds : runs[j].status # "queued" => runs'[j] = runs[j]
    BY <1>2, <2>2, <2>5
  <2> QED BY <1>2, <1>3, <1>5, <2>2, <2>3, <2>5, <2>6
<1>6. CASE status # "queued"
  <2>1. kept = runs
    BY <1>6
  <2> HIDE DEF kept, r
  <2>3. /\ runs' \in Seq(Run) /\ Len(runs') = n /\ n \notin DOMAIN runs
        /\ DOMAIN runs' = DOMAIN runs \cup {n} /\ runs'[n] = r
        /\ \A j \in DOMAIN runs : runs'[j] = runs[j]
    BY <1>1, <1>2, <1>4, <2>1, Appended
  <2>2. /\ runs' \in Seq(Run) /\ Len(runs') = n
        /\ \A j \in DOMAIN runs : runs'[j] = runs[j]
        /\ status = "starting" => Active(runs') = Active(runs) \cup {n}
        /\ status # "starting" => Active(runs') = Active(runs)
        /\ Queued(runs') = Queued(runs)
        /\ RunIds' = RunIds \cup {n} /\ runs'[n].status # "running"
    <3>1. runs'[n].status = status
      BY <1>4, <2>3
    <3>2. n \notin DOMAIN runs /\ DOMAIN runs' = DOMAIN runs \cup {n} /\ \A j \in DOMAIN runs : runs'[j] = runs[j]
      BY <2>3
    <3>3. /\ status = "starting" => Active(runs') = Active(runs) \cup {n}
          /\ status \notin {"starting", "running"} => Active(runs') = Active(runs)
          /\ Queued(runs') = Queued(runs)
      BY <1>6, <3>1, <3>2, OneMoreRun
    <3>4. RunIds' = RunIds \cup {n}
      BY <3>2 DEF RunIds
    <3> QED BY <1>3, <2>3, <3>1, <3>3, <3>4
  <2> QED BY <1>2, <1>3, <2>2
<1> QED BY <1>5, <1>6

-----------------------------------------------------------------------------
(* The steps *)

\* Runs are only added, and the one the starter holds stays as it was.
LEMMA RunsKept ==
  ASSUME AutomationInv, [AutomationNext]_automationVars
  PROVE  /\ runs' \in Seq(Run) /\ RunIds \subseteq RunIds' /\ Len(runs) <= Len(runs')
         /\ starter' = starter /\ starter.run # 0 => runs'[starter.run] = runs[starter.run]
<1>0. /\ AutomationTypeOK /\ SlotsAgree /\ StarterInv /\ runs \in Seq(Run) /\ RunIds = DOMAIN runs
      /\ RunIds' = DOMAIN runs'
      /\ starter.run # 0 => starter.run \in RunIds /\ runs[starter.run].status = "starting"
  BY TypeFacts DEF AutomationInv, RunIds, StarterInv
<1>1. CASE runs' = runs
  BY <1>0, <1>1
<1>2. ASSUME NEW k \in EventKeys, Fire(k)
      PROVE  /\ runs' \in Seq(Run) /\ Len(runs') = Len(runs) + 1
             /\ starter.run # 0 => runs'[starter.run] = runs[starter.run]
  <2>1. /\ runs' \in Seq(Run) /\ Len(runs') = Len(runs) + 1
        /\ \A j \in RunIds : runs[j].status # "queued" => runs'[j] = runs[j]
    BY <1>0, <1>2, FireEffect
  <2> QED BY <1>0, <2>1
<1>3. ASSUME NEW i \in RunIds, Ends(i) \/ Starts(i), Frees(i)
      PROVE  /\ runs' \in Seq(Run) /\ Len(runs') = Len(runs)
             /\ starter' = starter /\ starter.run # 0 => runs'[starter.run] = runs[starter.run]
  <2>1. /\ runs' \in Seq(Run) /\ Len(runs') = Len(runs)
        /\ \A j \in RunIds : j # i /\ runs[j].status # "queued" => runs'[j] = runs[j]
    BY <1>0, <1>3, EndsEffect, StartsEffect
  <2>2. starter' = starter /\ starter.run # 0 => starter.run # i
    BY <1>3 DEF Frees, Idle
  <2> QED BY <1>0, <2>1, <2>2
<1> QED BY <1>0, <1>1, <1>2, <1>3, RunsMove

\* What the operator does shows, and only the breaker switches the automation off by itself.
LEMMA FlagsMove ==
  ASSUME AutomationInv, [AutomationNext]_automationVars
  PROVE  /\ concurrency' = concurrency
         /\ ~interfered' => ~interfered /\ (enabled' = enabled \/ \E i \in RunIds : Ends(i))
<1> USE DEF automation, bounds
<1>0. /\ AutomationTypeOK /\ StarterInv /\ MissionInv
      /\ starter \in [run : {0} \cup RunIds, made : BOOLEAN]
      /\ \A m \in DOMAIN missions : missions[m] \in Mission
  BY TypeFacts DEF AutomationInv
<1>1. ASSUME NEW i \in RunIds, NEW failed \in BOOLEAN, FinalizeRun(runs, i, failed)
      PROVE  concurrency' = concurrency /\ Ends(i)
  BY <1>0, <1>1, FinalizeEnds
<1>2. ASSUME NEW m \in DOMAIN missions, FinalizeMission(m)
      PROVE  /\ concurrency' = concurrency /\ interfered' = interfered
             /\ enabled' = enabled \/ \E i \in RunIds : Ends(i)
  <2>1. missions[m].run \in RunIds
    BY <1>0, <1>2 DEF FinalizeMission, MissionInv, Mission
  <2>2. (missions[m].phase = "failed") \in BOOLEAN
    OBVIOUS
  <2> QED BY <1>1, <1>2, <2>1, <2>2 DEF FinalizeMission
<1>3. CASE CreateFails
  <2>1. starter.run \in RunIds
    BY <1>0, <1>3 DEF CreateFails
  <2> QED BY <1>1, <1>3, <2>1 DEF CreateFails
<1>4. ASSUME NEW m \in DOMAIN missions, MissionEnds(m) \/ DeleteMission(m)
      PROVE  /\ concurrency' = concurrency /\ enabled' = enabled
  BY <1>4 DEF MissionEnds, DeleteMission, Disturb
<1>5. ASSUME NEW i \in RunIds, Adopt(i) \/ Claim(i)
      PROVE  concurrency' = concurrency /\ enabled' = enabled /\ interfered' = interfered
  BY <1>5 DEF Adopt, Claim
<1>6. ASSUME NEW k \in EventKeys, Fire(k)
      PROVE  concurrency' = concurrency /\ enabled' = enabled /\ interfered' = interfered
  BY <1>6 DEF Fire
<1>7. CASE StartLost
  BY <1>7 DEF StartLost, Disturb
<1>8. CASE Patch
  BY <1>8 DEF Patch, Disturb
<1>9. CASE HourPasses \/ SkipRun \/ RouteUnusable \/ InsertMission \/ Started \/ UNCHANGED automationVars
  BY <1>9 DEF HourPasses, SkipRun, RouteUnusable, InsertMission, Started, automationVars
<1>10. ASSUME NEW m \in DOMAIN missions, MissionEnds(m) \/ DeleteMission(m)
       PROVE  ~interfered' => ~interfered
  BY <1>10 DEF MissionEnds, DeleteMission, Disturb
<1> QED BY <1>2, <1>3, <1>4, <1>5, <1>6, <1>7, <1>8, <1>9, <1>10 DEF AutomationNext

\* Missions are inserted by the starter, and otherwise only lose their run.
LEMMA MissionsMove ==
  ASSUME AutomationInv, [AutomationNext]_automationVars
  PROVE  \/ InsertMission
         \/ /\ missions' \in Seq(Mission) /\ DOMAIN missions' = DOMAIN missions
            /\ \A m \in DOMAIN missions :
                 /\ missions'[m].run \in {0, missions[m].run}
                 /\ missions'[m].phase # "told" => missions'[m].run # 0
<1>0. /\ MissionInv /\ missions \in Seq(Mission) /\ DOMAIN missions = 1..Len(missions)
      /\ Len(missions) \in Nat
      /\ \A m \in DOMAIN missions : missions[m] \in Mission
  BY TypeFacts DEF AutomationInv
<1> DEFINE Goal ==
      /\ missions' \in Seq(Mission) /\ DOMAIN missions' = DOMAIN missions
      /\ \A m \in DOMAIN missions :
           /\ missions'[m].run \in {0, missions[m].run}
           /\ missions'[m].phase # "told" => missions'[m].run # 0
<1>1. ASSUME NEW m \in DOMAIN missions, NEW r \in Mission, missions' = [missions EXCEPT ![m] = r],
             r.run \in {0, missions[m].run}, r.phase # "told" => r.run # 0
      PROVE  Goal
  <2>1. missions' \in Seq(Mission) /\ DOMAIN missions' = DOMAIN missions
    BY <1>0, <1>1
  <2>2. missions'[m] = r /\ \A x \in DOMAIN missions : x # m => missions'[x] = missions[x]
    BY <1>1
  <2> QED BY <1>0, <1>1, <2>1, <2>2 DEF MissionInv
<1>2. ASSUME NEW m \in DOMAIN missions, NEW phase \in {"live", "done", "failed", "told"},
             missions' = [missions EXCEPT ![m].phase = phase], missions[m].run # 0 \/ phase = "told"
      PROVE  Goal
  <2> DEFINE r == [missions[m] EXCEPT !.phase = phase]
  <2>1. r \in Mission /\ r.run = missions[m].run /\ r.phase = phase
    BY <1>0 DEF Mission
  <2>2. missions' = [missions EXCEPT ![m] = r]
    BY <1>2
  <2> HIDE DEF r
  <2> QED BY <1>1, <1>2, <2>1, <2>2
<1>3. ASSUME NEW m \in DOMAIN missions, FinalizeMission(m) PROVE Goal
  BY <1>2, <1>3 DEF FinalizeMission
<1>4. ASSUME NEW m \in DOMAIN missions, MissionEnds(m) PROVE Goal
  <2>1. missions[m].run # 0
    BY <1>0, <1>4 DEF MissionEnds, MissionInv
  <2>2. PICK phase \in {"done", "failed"} : missions' = [missions EXCEPT ![m].phase = phase]
    BY <1>4 DEF MissionEnds
  <2> QED BY <1>2, <2>1, <2>2
<1>5. ASSUME NEW m \in DOMAIN missions, DeleteMission(m) PROVE Goal
  <2>1. [run |-> 0, phase |-> "told"] \in Mission
    BY DEF Mission
  <2>2. missions' = [missions EXCEPT ![m] = [run |-> 0, phase |-> "told"]]
    BY <1>5 DEF DeleteMission
  <2> QED BY <1>1, <2>1, <2>2
<1>6. CASE missions' = missions
  BY <1>0, <1>6 DEF MissionInv
<1>7. ASSUME NEW i \in RunIds, Adopt(i) \/ Claim(i) PROVE missions' = missions
  BY <1>7 DEF Adopt, Claim
<1>8. ASSUME NEW k \in EventKeys, Fire(k) PROVE missions' = missions
  BY <1>8 DEF Fire
<1>9. CASE \/ HourPasses \/ SkipRun \/ RouteUnusable \/ CreateFails \/ Started \/ StartLost
           \/ Patch \/ UNCHANGED automationVars
  BY <1>6, <1>9 DEF HourPasses, SkipRun, RouteUnusable, CreateFails, Started, StartLost, Patch,
       automationVars
<1> QED BY <1>3, <1>4, <1>5, <1>6, <1>7, <1>8, <1>9 DEF AutomationNext

\* The starter claims a run, inserts its mission, or lets go.
LEMMA StarterMoves ==
  ASSUME [AutomationNext]_automationVars
  PROVE  \/ starter' = Idle
         \/ starter' = starter /\ ~InsertMission
         \/ InsertMission
         \/ \E i \in RunIds : Claim(i)
BY DEF AutomationNext, automationVars, automation, bounds, Fire, FinalizeMission, MissionEnds, DeleteMission,
  Adopt, HourPasses, SkipRun, RouteUnusable, CreateFails, Started, StartLost, Patch

\* The mission the starter inserts is the first of its run.
LEMMA InsertEffect ==
  ASSUME AutomationInv, InsertMission, NEW n, n = Len(missions) + 1
  PROVE  /\ runs' = runs /\ starter.run \in RunIds /\ starter' = [run |-> starter.run, made |-> TRUE]
         /\ missions' \in Seq(Mission) /\ DOMAIN missions' = DOMAIN missions \cup {n}
         /\ n \notin DOMAIN missions /\ missions'[n].run = starter.run
         /\ \A m \in DOMAIN missions : missions'[m] = missions[m]
         /\ MissionsOf(starter.run) = {}
<1>1. /\ StarterInv /\ missions \in Seq(Mission) /\ Len(missions) \in Nat
      /\ DOMAIN missions = 1..Len(missions)
      /\ starter \in [run : {0} \cup RunIds, made : BOOLEAN]
  BY TypeFacts DEF AutomationInv
<1>2. /\ starter.run # 0 /\ ~starter.made /\ runs' = runs
      /\ missions' = Append(missions, [run |-> starter.run, phase |-> "live"])
      /\ starter' = [starter EXCEPT !.made = TRUE]
  BY DEF InsertMission
<1>3. starter.run \in RunIds /\ starter' = [run |-> starter.run, made |-> TRUE]
  BY <1>1, <1>2
<1>4. [run |-> starter.run, phase |-> "live"] \in Mission
  BY <1>3 DEF Mission
<1>5. /\ missions' \in Seq(Mission) /\ DOMAIN missions' = DOMAIN missions \cup {n}
      /\ n \notin DOMAIN missions /\ missions'[n] = [run |-> starter.run, phase |-> "live"]
      /\ \A m \in DOMAIN missions : missions'[m] = missions[m]
  BY <1>1, <1>2, <1>4, Appended
<1>6. missions'[n].run = starter.run
  BY <1>5
<1>7. MissionsOf(starter.run) = {}
  BY <1>1, <1>2, Zenon DEF StarterInv
<1> QED BY <1>2, <1>3, <1>5, <1>6, <1>7, Zenon

\* Every step leaves the slots in agreement.
LEMMA SlotsStep ==
  ASSUME AutomationInv, [AutomationNext]_automationVars
  PROVE  OffInv' /\ SlotsAgree'
<1> DEFINE Behind(rs) == Queued(rs) # {} /\ ~interfered' => Active(rs) # {}
<1>0. /\ AutomationTypeOK /\ OffInv /\ SlotsAgree /\ Slots(runs) /\ runs \in Seq(Run)
      /\ enabled \in BOOLEAN /\ interfered \in BOOLEAN
  BY TypeFacts DEF AutomationInv, SlotsAgree, ActiveWithinLimit, QueueBehindActive, Slots,
    AutomationTypeOK
<1>1. Limit' = Limit
  BY FlagsMove DEF Limit
<1>2. /\ ~interfered' => ~interfered
      /\ ~interfered' => enabled' = enabled \/ \E i \in RunIds : Ends(i)
  BY FlagsMove
<1>3. SUFFICES /\ Slots(runs') /\ Behind(runs')
               /\ ~interfered' /\ ~enabled' => Queued(runs') = {}
  BY <1>1 DEF SlotsAgree, ActiveWithinLimit, QueueBehindActive, Slots, OffInv, Active, Queued, InStatus
<1>4. ~interfered' /\ Queued(runs) # {} => enabled /\ Active(runs) # {}
  BY <1>0, <1>2 DEF OffInv, SlotsAgree, QueueBehindActive
<1>5. ASSUME NEW i \in RunIds, Ends(i)
      PROVE  /\ Slots(runs') /\ Behind(runs')
             /\ ~interfered' /\ ~enabled' => Queued(runs') = {}
  <2>1. /\ Slots(runs') /\ Queued(runs') \subseteq Queued(runs)
        /\ Queued(runs') # {} /\ enabled => Active(runs') # {}
        /\ enabled' # enabled => Queued(runs') = {}
    BY <1>0, <1>5, EndsEffect
  <2>2. Behind(runs')
    BY <1>4, <2>1
  <2>3. ~interfered' /\ ~enabled' => Queued(runs') = {}
    BY <1>4, <2>1
  <2> QED BY <2>1, <2>2, <2>3
<1>6. CASE \A i \in RunIds : ~Ends(i)
  <2>0. ~interfered' => enabled' = enabled
    BY <1>2, <1>6
  <2>1. CASE runs' = runs
    <3>1. Slots(runs') /\ Behind(runs')
      BY <1>0, <1>4, <2>1
    <3>2. ~interfered' /\ ~enabled' => Queued(runs') = {}
      BY <1>4, <2>0, <2>1
    <3> QED BY <3>1, <3>2
  <2>2. ASSUME NEW i \in RunIds, Starts(i)
        PROVE  /\ Slots(runs') /\ Behind(runs')
               /\ ~interfered' /\ ~enabled' => Queued(runs') = {}
    <3>1. Active(runs') = Active(runs) /\ Queued(runs') = Queued(runs)
      BY <1>0, <2>2, StartsEffect
    <3>2. Slots(runs')
      BY <1>0, <3>1 DEF Slots
    <3> QED BY <1>4, <2>0, <3>1, <3>2
  <2>3. ASSUME NEW k \in EventKeys, Fire(k)
        PROVE  /\ Slots(runs') /\ Behind(runs')
               /\ ~interfered' /\ ~enabled' => Queued(runs') = {}
    <3> DEFINE n == Len(runs) + 1
    <3>0. /\ IsFiniteSet(Active(runs)) /\ Cardinality(Active(runs)) \in Nat
          /\ Cardinality(Active(runs)) <= Limit /\ Cardinality(Queued(runs)) <= 1
      BY <1>0, FiniteQueue DEF Slots
    <3>1. \/ /\ enabled /\ Cardinality(Active(runs)) < Limit
             /\ Active(runs') = Active(runs) \cup {n} /\ Queued(runs') = Queued(runs)
          \/ /\ enabled /\ Active(runs) # {}
             /\ Active(runs') = Active(runs) /\ Queued(runs') = {n}
          \/ Active(runs') = Active(runs) /\ Queued(runs') = Queued(runs)
      BY <1>0, <2>3, FireEffect
    <3> HIDE DEF n
    <3>2. CASE /\ enabled /\ Cardinality(Active(runs)) < Limit
               /\ Active(runs') = Active(runs) \cup {n} /\ Queued(runs') = Queued(runs)
      <4>1. /\ Cardinality(Active(runs')) \in Nat
            /\ Cardinality(Active(runs')) <= Cardinality(Active(runs)) + 1
        BY <3>0, <3>2, Counting
      <4>2. Slots(runs')
        BY <3>0, <3>2, <4>1, LimitPositive DEF Slots
      <4> QED BY <2>0, <3>2, <4>2
    <3>3. CASE /\ enabled /\ Active(runs) # {}
               /\ Active(runs') = Active(runs) /\ Queued(runs') = {n}
      <4>1. Slots(runs')
        BY <3>0, <3>3, Counting DEF Slots
      <4> QED BY <2>0, <3>3, <4>1
    <3>4. CASE Active(runs') = Active(runs) /\ Queued(runs') = Queued(runs)
      <4>1. Slots(runs')
        BY <1>0, <3>4 DEF Slots
      <4> QED BY <1>4, <2>0, <3>4, <4>1
    <3> QED BY <3>1, <3>2, <3>3, <3>4
  <2> QED BY <1>6, <2>1, <2>2, <2>3, RunsMove
<1> QED BY <1>5, <1>6

\* The run the starter holds stays starting, and without a mission until it inserts one.
LEMMA StarterHeld ==
  ASSUME AutomationInv, [AutomationNext]_automationVars
  PROVE  StarterInv'
<1>0. StarterInv /\ starter \in [run : {0} \cup RunIds, made : BOOLEAN]
  BY TypeFacts DEF AutomationInv
<1>1. CASE starter' = Idle
  BY <1>1 DEF StarterInv, Idle
<1>2. CASE InsertMission
  <2> DEFINE n == Len(missions) + 1
  <2>1. /\ runs' = runs /\ starter' = [run |-> starter.run, made |-> TRUE]
    BY <1>2, InsertEffect
  <2>2. starter.run # 0
    BY <1>2 DEF InsertMission
  <2>3. starter'.run = starter.run /\ starter'.made
    BY <2>1
  <2> QED BY <1>0, <2>1, <2>2, <2>3 DEF StarterInv
<1>3. CASE starter' = starter /\ ~InsertMission /\ starter.run # 0
  <2>1. runs'[starter.run] = runs[starter.run]
    BY <1>3, RunsKept
  <2>2. /\ DOMAIN missions' = DOMAIN missions
        /\ \A m \in DOMAIN missions : missions'[m].run \in {0, missions[m].run}
    BY <1>3, MissionsMove
  <2>3. ~starter.made => \A m \in DOMAIN missions : missions[m].run # starter.run
    BY <1>0, <1>3 DEF StarterInv, MissionsOf
  <2>4. ~starter.made => \A m \in DOMAIN missions' : missions'[m].run # starter'.run
    BY <1>3, <2>2, <2>3
  <2>5. ~starter'.made => MissionsOf(starter.run)' = {}
    BY <1>3, <2>4 DEF MissionsOf
  <2> QED BY <1>0, <1>3, <2>1, <2>5 DEF StarterInv
<1>4. CASE starter' = starter /\ starter.run = 0
  BY <1>0, <1>4 DEF StarterInv
<1>5. ASSUME NEW i \in RunIds, Claim(i) PROVE StarterInv'
  <2>1. /\ runs[i].status = "starting" /\ MissionsOf(i) = {}
        /\ starter' = [run |-> i, made |-> FALSE] /\ runs' = runs /\ missions' = missions
    BY <1>5 DEF Claim, Startable, HasMission, Idle
  <2>2. starter'.run = i /\ ~starter'.made /\ i # 0
    <3>1. 0 \notin RunIds
      BY TypeFacts DEF AutomationInv
    <3> QED BY <2>1, <3>1
  <2>3. \A m \in DOMAIN missions' : missions'[m].run # i
    BY <2>1 DEF MissionsOf
  <2> QED BY <2>1, <2>2, <2>3 DEF StarterInv, MissionsOf
<1> QED BY <1>1, <1>2, <1>3, <1>4, <1>5, StarterMoves

\* Every step leaves a run with one mission at most.
LEMMA MissionsStep ==
  ASSUME AutomationInv, [AutomationNext]_automationVars
  PROVE  MissionInv' /\ OneMissionPerRun' /\ missions' \in Seq(Mission')
<1>0. /\ MissionInv /\ OneMissionPerRun /\ RunIds = 1..Len(runs) /\ Len(runs) \in Nat
      /\ missions \in Seq(Mission) /\ DOMAIN missions = 1..Len(missions) /\ Len(missions) \in Nat
      /\ \A m \in DOMAIN missions : missions[m].run \in {0} \cup RunIds
  <2>1. \A m \in DOMAIN missions : missions[m] \in Mission
    BY TypeFacts DEF AutomationInv
  <2> QED BY <2>1, TypeFacts DEF AutomationInv, Mission
<1>1. /\ RunIds \subseteq RunIds' /\ RunIds' \subseteq Nat \ {0}
  <2>1. runs' \in Seq(Run) /\ RunIds \subseteq RunIds'
    BY RunsKept
  <2>2. DOMAIN runs' = 1..Len(runs') /\ Len(runs') \in Nat
    BY <2>1
  <2> QED BY <2>1, <2>2 DEF RunIds
<1>2. Mission \subseteq Mission'
  BY <1>1 DEF Mission
<1>3. \A i \in RunIds' : IsFiniteSet(MissionsOf(i)) /\ Cardinality(MissionsOf(i)) <= 1
  <2>1. ASSUME NEW i \in RunIds'
        PROVE  IsFiniteSet(MissionsOf(i)) /\ Cardinality(MissionsOf(i)) <= 1
    <3>1. MissionsOf(i) \subseteq 1..Len(missions)
      BY <1>0 DEF MissionsOf
    <3>2. 1 \in Int /\ Len(missions) \in Int
      BY <1>0
    <3>3. IsFiniteSet(1..Len(missions))
      BY <3>2, FS_Interval
    <3>4. IsFiniteSet(MissionsOf(i))
      BY <3>1, <3>3, FS_Subset
    <3>5. CASE i \in RunIds
      BY <1>0, <3>4, <3>5 DEF OneMissionPerRun
    <3>6. CASE i \notin RunIds
      <4>1. i # 0
        BY <1>1
      <4>2. MissionsOf(i) = {}
        BY <1>0, <3>6, <4>1 DEF MissionsOf
      <4> QED BY <3>4, <4>2, Counting
    <3> QED BY <3>5, <3>6
  <2> QED BY <2>1
<1>4. CASE InsertMission
  <2> DEFINE n == Len(missions) + 1
  <2>1. /\ starter.run \in RunIds
        /\ missions' \in Seq(Mission) /\ DOMAIN missions' = DOMAIN missions \cup {n}
        /\ n \notin DOMAIN missions /\ missions'[n].run = starter.run
        /\ \A m \in DOMAIN missions : missions'[m] = missions[m]
        /\ MissionsOf(starter.run) = {}
    BY <1>4, InsertEffect
  <2> HIDE DEF n
  <2>2. MissionInv'
    <3>1. starter.run # 0
      BY <1>0, <2>1
    <3> QED BY <1>0, <2>1, <3>1 DEF MissionInv
  <2>3. OneMissionPerRun'
    <3>1. ASSUME NEW i \in RunIds'
          PROVE  Cardinality({m \in DOMAIN missions' : missions'[m].run = i}) <= 1
      <4> DEFINE after == {m \in DOMAIN missions' : missions'[m].run = i}
      <4>1. CASE i = starter.run
        <5>1. \A m \in DOMAIN missions : missions[m].run # i
          BY <2>1, <4>1 DEF MissionsOf
        <5>2. \A m \in DOMAIN missions' : missions'[m].run = i <=> m = n
          BY <2>1, <4>1, <5>1
        <5>3. n \in DOMAIN missions'
          BY <2>1
        <5>4. \A m : m \in after <=> m = n
          BY <5>2, <5>3
        <5> HIDE DEF after
        <5>5. after = {n}
          BY <5>4
        <5>6. Cardinality({n}) = 1
          BY Counting
        <5>7. Cardinality(after) = 1
          BY <5>5, <5>6, Zenon
        <5> QED BY <5>7 DEF after
      <4>2. CASE i # starter.run
        <5>1. after = MissionsOf(i)
          BY <2>1, <4>2 DEF MissionsOf
        <5> QED BY <1>3, <5>1
      <4> QED BY <4>1, <4>2
    <3> QED BY <3>1 DEF OneMissionPerRun, MissionsOf
  <2>4. missions' \in Seq(Mission')
    BY <1>2, <2>1
  <2> QED BY <2>2, <2>3, <2>4
<1>5. CASE ~InsertMission
  <2>1. /\ missions' \in Seq(Mission) /\ DOMAIN missions' = DOMAIN missions
        /\ \A m \in DOMAIN missions :
             /\ missions'[m].run \in {0, missions[m].run}
             /\ missions'[m].phase # "told" => missions'[m].run # 0
    BY <1>5, MissionsMove
  <2>2. MissionInv'
    BY <2>1 DEF MissionInv
  <2>3. OneMissionPerRun'
    <3>1. ASSUME NEW i \in RunIds'
          PROVE  Cardinality({m \in DOMAIN missions' : missions'[m].run = i}) <= 1
      <4> DEFINE after == {m \in DOMAIN missions' : missions'[m].run = i}
      <4>1. i # 0
        BY <1>1
      <4>2. after \subseteq MissionsOf(i)
        BY <2>1, <4>1 DEF MissionsOf
      <4> HIDE DEF after
      <4>3. /\ Cardinality(after) \in Nat /\ Cardinality(MissionsOf(i)) \in Nat
            /\ Cardinality(after) <= Cardinality(MissionsOf(i))
        BY <1>3, <4>2, Counting
      <4>4. Cardinality(after) <= 1
        BY <1>3, <4>3
      <4> QED BY <4>4 DEF after
    <3> QED BY <3>1 DEF OneMissionPerRun, MissionsOf
  <2>4. missions' \in Seq(Mission')
    BY <1>2, <2>1
  <2> QED BY <2>2, <2>3, <2>4
<1> QED BY <1>4, <1>5

\* Every step keeps the types.
LEMMA AutomationTypeStep ==
  ASSUME AutomationInv, [AutomationNext]_automationVars
  PROVE  AutomationTypeOK'
<1> USE DEF automation, bounds
<1>0. /\ AutomationTypeOK /\ StarterInv /\ MissionInv
      /\ starter \in [run : {0} \cup RunIds, made : BOOLEAN]
      /\ \A m \in DOMAIN missions : missions[m] \in Mission
      /\ Len(runs) \in Nat /\ RunIds = 1..Len(runs)
  BY TypeFacts DEF AutomationInv
<1>1. /\ concurrency' \in Policies /\ enabled' \in BOOLEAN /\ failures' \in Nat
      /\ trigger' \in {"on", "off", "gone"}
  <2>0. /\ concurrency \in Policies /\ enabled \in BOOLEAN /\ failures \in Nat
        /\ trigger \in {"on", "off", "gone"}
    BY <1>0 DEF AutomationTypeOK
  <2>1. ASSUME NEW i \in RunIds, NEW failed \in BOOLEAN, FinalizeRun(runs, i, failed)
        PROVE  failures' \in Nat /\ enabled' \in BOOLEAN /\ UNCHANGED <<concurrency, trigger>>
    <3>1. Ends(i) /\ failures' \in Nat /\ UNCHANGED <<concurrency, trigger>>
      BY <1>0, <2>1, FinalizeEnds
    <3>2. enabled' \in BOOLEAN
      BY <2>0, <3>1 DEF Ends
    <3> QED BY <3>1, <3>2
  <2>2. CASE UNCHANGED automation
    BY <2>0, <2>2
  <2>3. ASSUME NEW m \in DOMAIN missions, FinalizeMission(m)
        PROVE  UNCHANGED automation \/ (failures' \in Nat /\ enabled' \in BOOLEAN /\ UNCHANGED <<concurrency, trigger>>)
    <3>1. missions[m].run \in RunIds
      BY <1>0, <2>3 DEF FinalizeMission, MissionInv, Mission
    <3>2. (missions[m].phase = "failed") \in BOOLEAN
      OBVIOUS
    <3> QED BY <2>1, <2>3, <3>1, <3>2 DEF FinalizeMission
  <2>4. CASE CreateFails
    <3>1. starter.run \in RunIds
      BY <1>0, <2>4 DEF CreateFails
    <3> QED BY <2>0, <2>1, <2>4, <3>1 DEF CreateFails
  <2>5. CASE Patch
    BY <2>0, <2>5 DEF Patch
  <2>6. ASSUME NEW i \in RunIds, Adopt(i) \/ Claim(i) PROVE UNCHANGED automation
    BY <2>6 DEF Adopt, Claim
  <2>7. ASSUME NEW k \in EventKeys, Fire(k) PROVE UNCHANGED automation
    BY <2>7 DEF Fire
  <2>8. ASSUME NEW m \in DOMAIN missions, MissionEnds(m) \/ DeleteMission(m) PROVE UNCHANGED automation
    BY <2>8 DEF MissionEnds, DeleteMission
  <2>9. CASE HourPasses \/ SkipRun \/ RouteUnusable \/ InsertMission \/ Started \/ StartLost
             \/ UNCHANGED automationVars
    BY <2>2, <2>9 DEF HourPasses, SkipRun, RouteUnusable, InsertMission, Started, StartLost, automationVars
  <2> QED BY <2>0, <2>2, <2>3, <2>4, <2>5, <2>6, <2>7, <2>8, <2>9 DEF AutomationNext
<1>2. runs' \in Seq(Run) /\ RunIds \subseteq RunIds'
  BY RunsKept
<1>3. recent' \subseteq RunIds'
  <2>0. recent \subseteq RunIds
    BY <1>0 DEF AutomationTypeOK
  <2>1. ASSUME NEW k \in EventKeys, Fire(k) PROVE recent' \subseteq RunIds'
    <3>1. Len(runs') = Len(runs) + 1
      BY <1>0, <2>1, FireEffect
    <3>2. DOMAIN runs' = 1..Len(runs')
      BY <1>2
    <3>3. Len(runs) + 1 \in RunIds'
      BY <1>0, <3>1, <3>2 DEF RunIds
    <3>4. recent' = recent \cup {Len(runs) + 1}
      BY <2>1 DEF Fire
    <3> QED BY <1>2, <2>0, <3>3, <3>4
  <2>2. CASE recent' = recent \/ recent' = {}
    BY <1>2, <2>0, <2>2
  <2> QED BY <2>1, <2>2 DEF AutomationNext, automationVars, FinalizeMission, MissionEnds, DeleteMission,
       Adopt, Claim, HourPasses, SkipRun, RouteUnusable, CreateFails, InsertMission, Started, StartLost, Patch
<1>4. missions' \in Seq(Mission')
  BY MissionsStep
<1>5. starter' \in [run : {0} \cup RunIds', made : BOOLEAN]
  <2>1. CASE starter' = Idle
    BY <2>1 DEF Idle
  <2>2. CASE starter' = starter
    BY <1>0, <1>2, <2>2
  <2>3. CASE InsertMission
    <3> DEFINE n == Len(missions) + 1
    <3>1. starter.run \in RunIds /\ starter' = [run |-> starter.run, made |-> TRUE]
      BY <2>3, InsertEffect
    <3> QED BY <1>2, <3>1
  <2>4. ASSUME NEW i \in RunIds, Claim(i) PROVE starter' \in [run : {0} \cup RunIds', made : BOOLEAN]
    <3>1. starter' = [run |-> i, made |-> FALSE]
      BY <2>4 DEF Claim, Idle
    <3> QED BY <1>2, <3>1
  <2> QED BY <2>1, <2>2, <2>3, <2>4, StarterMoves
<1>6. disturbances' \in 0..MaxDisturbances /\ interfered' \in BOOLEAN
  <2>0. disturbances \in 0..MaxDisturbances /\ interfered \in BOOLEAN /\ MaxDisturbances \in Nat
    BY <1>0, LimitsAssumption DEF AutomationTypeOK
  <2>1. ASSUME NEW operator \in BOOLEAN, Disturb(operator)
        PROVE  disturbances' \in 0..MaxDisturbances /\ interfered' \in BOOLEAN
    BY <2>0, <2>1 DEF Disturb
  <2>2. CASE UNCHANGED bounds
    BY <2>0, <2>2
  <2>3. \/ UNCHANGED bounds \/ Disturb(TRUE) \/ Disturb(FALSE)
    BY DEF AutomationNext, automationVars, Fire, FinalizeMission, MissionEnds, DeleteMission, Adopt, Claim,
      HourPasses, SkipRun, RouteUnusable, CreateFails, InsertMission, Started, StartLost, Patch
  <2>4. TRUE \in BOOLEAN /\ FALSE \in BOOLEAN
    OBVIOUS
  <2> QED BY <2>1, <2>2, <2>3, <2>4
<1> QED BY <1>1, <1>2, <1>3, <1>4, <1>5, <1>6 DEF AutomationTypeOK, Run, Mission

-----------------------------------------------------------------------------
(* Runs and the missions they wait for. *)

Settled == {"done", "failed"}

\* A mission whose end was told has settled its run; and unless the operator has interfered, a
\* running run has a mission, and so has the run for which the starter has inserted one.
AwaitInv ==
  /\ \A m \in DOMAIN missions :
       missions[m].run # 0 /\ missions[m].phase = "told" => runs[missions[m].run].status \in Settled
  /\ ~interfered =>
       /\ \A i \in RunIds : runs[i].status = "running" => MissionsOf(i) # {}
       /\ starter.made => MissionsOf(starter.run) # {}

\* finalizeRun settles its run.
LEMMA FinalizeSettles ==
  ASSUME AutomationTypeOK, NEW i \in RunIds, NEW failed \in BOOLEAN, FinalizeRun(runs, i, failed)
  PROVE  runs'[i].status \in Settled
<1> DEFINE r == [runs[i] EXCEPT !.status = IF failed THEN "failed" ELSE "done", !.attempts = 0]
           after == [runs EXCEPT ![i] = r]
<1>1. runs \in Seq(Run) /\ i \in DOMAIN runs /\ runs[i] \in Run
  BY TypeFacts DEF RunIds
<1>2. r \in Run /\ r.status \in Settled
  <2>1. runs[i] \in Run /\ "done" \in Statuses /\ "failed" \in Statuses
    BY <1>1 DEF Statuses, Counted
  <2>2. CASE failed
    <3>1. r = [runs[i] EXCEPT !.status = "failed", !.attempts = 0]
      BY <2>2
    <3> HIDE DEF r
    <3> QED BY <2>1, <3>1, RecordTypes DEF Settled
  <2>3. CASE ~failed
    <3>1. r = [runs[i] EXCEPT !.status = "done", !.attempts = 0]
      BY <2>3
    <3> HIDE DEF r
    <3> QED BY <2>1, <3>1, RecordTypes DEF Settled
  <2> QED BY <2>2, <2>3
<1>3. after = [runs EXCEPT ![i] = [@ EXCEPT !.status = IF failed THEN "failed" ELSE "done", !.attempts = 0]]
  BY <1>1
<1>4. runs' = Skipped(after, Queued(after)) \/ runs' = PromotedIfOn(after)
  BY <1>3 DEF FinalizeRun
<1> HIDE DEF r
<1>5. after \in Seq(Run) /\ i \in DOMAIN after /\ after[i] = r /\ after[i].status # "queued"
  BY <1>1, <1>2 DEF Settled
<1> HIDE DEF after
<1>6. runs'[i] = after[i]
  BY <1>4, <1>5, SkippedRuns, PromotedRuns DEF PromotedIfOn
<1> QED BY <1>2, <1>5, <1>6

\* A settled run stays as it is.
LEMMA SettledStays ==
  ASSUME AutomationInv, [AutomationNext]_automationVars, NEW i \in RunIds, runs[i].status \in Settled
  PROVE  runs'[i] = runs[i]
<1>0. /\ AutomationTypeOK /\ StarterInv /\ MissionInv /\ SlotsAgree
      /\ starter \in [run : {0} \cup RunIds, made : BOOLEAN]
      /\ runs[i].status \notin {"queued", "starting"}
  BY TypeFacts DEF AutomationInv, Settled
<1>1. ASSUME NEW j \in RunIds, Ends(j) \/ Starts(j), j # i
      PROVE  runs'[i] = runs[i]
  BY <1>0, <1>1, EndsEffect, StartsEffect
<1>2. ASSUME NEW m \in DOMAIN missions, FinalizeMission(m) PROVE runs'[i] = runs[i]
  <2>1. CASE runs[missions[m].run].status \in {"done", "failed"}
    BY <1>2, <2>1 DEF FinalizeMission
  <2>2. CASE runs[missions[m].run].status \notin {"done", "failed"}
    <3>1. missions[m].run \in RunIds /\ missions[m].run # i
      BY <1>0, <1>2, <2>2, TypeFacts DEF FinalizeMission, MissionInv, Mission, Settled
    <3>2. FinalizeRun(runs, missions[m].run, missions[m].phase = "failed") /\ (missions[m].phase = "failed") \in BOOLEAN
      BY <1>2, <2>2 DEF FinalizeMission
    <3> QED BY <1>0, <1>1, <3>1, <3>2, FinalizeEnds
  <2> QED BY <2>1, <2>2
<1>3. ASSUME NEW j \in RunIds, runs[j].status = "starting", Ends(j) \/ Starts(j)
      PROVE  runs'[i] = runs[i]
  BY <1>0, <1>1, <1>3
<1>4. starter.run # 0 => starter.run \in RunIds /\ runs[starter.run].status = "starting"
  BY <1>0 DEF StarterInv
<1>5. CASE SkipRun
  BY <1>0, <1>3, <1>4, <1>5, SkipEnds DEF SkipRun, automation
<1>6. CASE CreateFails
  BY <1>0, <1>3, <1>4, <1>6, FinalizeEnds DEF CreateFails
<1>7. CASE RouteUnusable \/ Started
  <2>1. starter.run # 0
    BY <1>0, <1>7 DEF RouteUnusable, Started, StarterInv
  <2> QED BY <1>0, <1>3, <1>4, <1>7, <2>1, RunStarts DEF RouteUnusable, Started, automation
<1>8. ASSUME NEW j \in RunIds, Adopt(j) PROVE runs'[i] = runs[i]
  BY <1>0, <1>3, <1>8, RunStarts DEF Adopt, Startable, automation
<1>9. ASSUME NEW k \in EventKeys, Fire(k) PROVE runs'[i] = runs[i]
  <2> DEFINE n == Len(runs) + 1
  <2>1. \A j \in RunIds : runs[j].status # "queued" => runs'[j] = runs[j]
    BY <1>0, <1>9, FireEffect
  <2> QED BY <1>0, <2>1
<1>10. ASSUME NEW j \in RunIds, Claim(j) PROVE runs'[i] = runs[i]
  BY <1>10 DEF Claim
<1>11. ASSUME NEW m \in DOMAIN missions, MissionEnds(m) \/ DeleteMission(m) PROVE runs'[i] = runs[i]
  BY <1>11 DEF MissionEnds, DeleteMission
<1>12. CASE HourPasses \/ InsertMission \/ StartLost \/ Patch \/ UNCHANGED automationVars
  BY <1>12 DEF HourPasses, InsertMission, StartLost, Patch, automationVars
<1> QED BY <1>2, <1>5, <1>6, <1>7, <1>8, <1>9, <1>10, <1>11, <1>12 DEF AutomationNext

\* A run gets to be running only by way of a mission: adopted, or the one just inserted.
LEMMA RunningBy ==
  ASSUME AutomationInv, [AutomationNext]_automationVars, NEW i \in RunIds', runs'[i].status = "running"
  PROVE  /\ i \in RunIds
         /\ runs[i].status = "running" \/ HasMission(i) \/ (starter.made /\ i = starter.run)
<1>0. /\ AutomationTypeOK /\ StarterInv /\ MissionInv /\ SlotsAgree
      /\ starter \in [run : {0} \cup RunIds, made : BOOLEAN]
      /\ runs \in Seq(Run) /\ RunIds = DOMAIN runs /\ RunIds' = DOMAIN runs'
      /\ \A j \in RunIds : runs[j] \in Run
  BY TypeFacts DEF AutomationInv, RunIds
<1> DEFINE Goal == i \in RunIds /\ (runs[i].status = "running" \/ HasMission(i) \/ (starter.made /\ i = starter.run))
<1>1. ASSUME NEW j \in RunIds, Ends(j) PROVE Goal
  <2>1. Len(runs') = Len(runs) /\ runs' \in Seq(Run) /\ \A k \in RunIds : runs'[k].status = "running" => runs[k].status = "running"
    BY <1>0, <1>1, EndsEffect
  <2>2. RunIds' = RunIds
    BY <1>0, <2>1
  <2> QED BY <2>1, <2>2
<1>2. ASSUME NEW k \in EventKeys, Fire(k) PROVE Goal
  <2> DEFINE n == Len(runs) + 1
  <2>1. /\ RunIds' = RunIds \cup {n} /\ runs'[n].status # "running"
        /\ \A j \in RunIds : runs[j].status # "queued" => runs'[j] = runs[j]
        /\ Active(runs') \subseteq Active(runs) \cup {n}
    BY <1>0, <1>2, FireEffect
  <2>2. i \in RunIds /\ i # n
    BY <2>1
  <2>3. i \in Active(runs)
    BY <1>0, <2>1, <2>2 DEF Active, InStatus
  <2>4. runs[i].status # "queued"
    BY <2>3 DEF Active, InStatus
  <2> QED BY <2>1, <2>2, <2>4
<1>3. ASSUME NEW m \in DOMAIN missions, FinalizeMission(m) PROVE Goal
  <2>1. missions[m].run \in RunIds /\ (missions[m].phase = "failed") \in BOOLEAN
    BY <1>0, <1>3, TypeFacts DEF FinalizeMission, MissionInv, Mission
  <2>2. runs' = runs \/ FinalizeRun(runs, missions[m].run, missions[m].phase = "failed")
    BY <1>3 DEF FinalizeMission
  <2> QED BY <1>0, <1>1, <2>1, <2>2, FinalizeEnds
<1>4. CASE SkipRun \/ CreateFails
  <2>1. starter.run \in RunIds
    BY <1>0, <1>4 DEF SkipRun, CreateFails
  <2> QED BY <1>0, <1>1, <1>4, <2>1, SkipEnds, FinalizeEnds DEF SkipRun, CreateFails, automation
<1>5. CASE Started
  <2>1. starter.run \in RunIds /\ starter.made
    BY <1>0, <1>5 DEF Started, StarterInv
  <2>2. RunIds' = RunIds /\ \A j \in RunIds : j # starter.run => runs'[j] = runs[j]
    BY <1>0, <1>5, <2>1 DEF Started
  <2> QED BY <2>1, <2>2
<1>6. CASE RouteUnusable
  <2>1. starter.run \in RunIds
    BY <1>0, <1>6 DEF RouteUnusable
  <2>2. runs' = [runs EXCEPT ![starter.run].attempts = @ + 1]
    BY <1>6 DEF RouteUnusable
  <2>3. RunIds' = RunIds /\ \A j \in RunIds : runs'[j].status = runs[j].status
    BY <1>0, <2>1, <2>2 DEF Run
  <2> QED BY <2>3
<1>7. ASSUME NEW j \in RunIds, Adopt(j) PROVE Goal
  <2>1. RunIds' = RunIds /\ (\A k \in RunIds : k # j => runs'[k] = runs[k]) /\ HasMission(j)
    BY <1>0, <1>7 DEF Adopt
  <2> QED BY <2>1
<1>8. CASE runs' = runs
  BY <1>0, <1>8
<1>9. ASSUME NEW j \in RunIds, Claim(j) PROVE runs' = runs
  BY <1>9 DEF Claim
<1>10. ASSUME NEW m \in DOMAIN missions, MissionEnds(m) \/ DeleteMission(m) PROVE runs' = runs
  BY <1>10 DEF MissionEnds, DeleteMission
<1>11. CASE HourPasses \/ InsertMission \/ StartLost \/ Patch \/ UNCHANGED automationVars
  BY <1>8, <1>11 DEF HourPasses, InsertMission, StartLost, Patch, automationVars
<1> QED BY <1>1, <1>2, <1>3, <1>4, <1>5, <1>6, <1>7, <1>8, <1>9, <1>10, <1>11 DEF AutomationNext

\* Unless the operator deletes it, a mission keeps its run.
LEMMA MissionsKept ==
  ASSUME AutomationInv, [AutomationNext]_automationVars, ~interfered', NEW i, MissionsOf(i) # {}
  PROVE  MissionsOf(i)' # {}
<1>0. /\ missions \in Seq(Mission) /\ \A m \in DOMAIN missions : missions[m] \in Mission
  BY TypeFacts DEF AutomationInv
<1>1. PICK m \in DOMAIN missions : missions[m].run = i
  BY DEF MissionsOf
<1>2. m \in DOMAIN missions' /\ missions'[m].run = i
  <2>1. CASE InsertMission
    <3> DEFINE n == Len(missions) + 1
    <3>1. DOMAIN missions \subseteq DOMAIN missions' /\ \A x \in DOMAIN missions : missions'[x] = missions[x]
      BY <2>1, InsertEffect
    <3> QED BY <1>1, <3>1
  <2>2. ASSUME NEW x \in DOMAIN missions, FinalizeMission(x) \/ MissionEnds(x)
        PROVE  m \in DOMAIN missions' /\ missions'[m].run = i
    <3>1. \E phase \in {"done", "failed", "told"} : missions' = [missions EXCEPT ![x].phase = phase]
      BY <2>2 DEF FinalizeMission, MissionEnds
    <3> QED BY <1>0, <1>1, <3>1 DEF Mission
  <2>3. ASSUME NEW x \in DOMAIN missions, DeleteMission(x) PROVE FALSE
    BY <2>3 DEF DeleteMission, Disturb
  <2>4. CASE missions' = missions
    BY <1>1, <2>4
  <2>5. ASSUME NEW j \in RunIds, Adopt(j) \/ Claim(j) PROVE missions' = missions
    BY <2>5 DEF Adopt, Claim
  <2>6. ASSUME NEW k \in EventKeys, Fire(k) PROVE missions' = missions
    BY <2>6 DEF Fire
  <2>7. CASE \/ HourPasses \/ SkipRun \/ RouteUnusable \/ CreateFails \/ Started \/ StartLost
             \/ Patch \/ UNCHANGED automationVars
    BY <2>4, <2>7 DEF HourPasses, SkipRun, RouteUnusable, CreateFails, Started, StartLost, Patch, automationVars
  <2> QED BY <2>1, <2>2, <2>3, <2>4, <2>5, <2>6, <2>7 DEF AutomationNext
<1> QED BY <1>2 DEF MissionsOf

\* Only the end of its mission, delivered, makes a mission a told one of its run.
LEMMA ToldBy ==
  ASSUME AutomationInv, [AutomationNext]_automationVars,
         NEW m \in DOMAIN missions', missions'[m].run # 0, missions'[m].phase = "told"
  PROVE  /\ m \in DOMAIN missions /\ missions'[m].run = missions[m].run
         /\ missions[m].phase = "told" \/ FinalizeMission(m)
<1>0. /\ missions \in Seq(Mission) /\ \A x \in DOMAIN missions : missions[x] \in Mission
      /\ Len(missions) \in Nat /\ DOMAIN missions = 1..Len(missions)
      /\ starter \in [run : {0} \cup RunIds, made : BOOLEAN]
  BY TypeFacts DEF AutomationInv
<1> DEFINE Goal == /\ m \in DOMAIN missions /\ missions'[m].run = missions[m].run
                   /\ missions[m].phase = "told" \/ FinalizeMission(m)
<1>1. CASE InsertMission
  <2> DEFINE new == [run |-> starter.run, phase |-> "live"]
             n == Len(missions) + 1
  <2>1. new \in Mission /\ new.phase # "told"
    BY <1>0 DEF Mission
  <2>2. missions' = Append(missions, new)
    BY <1>1 DEF InsertMission
  <2> HIDE DEF new
  <2>3. /\ DOMAIN missions' = DOMAIN missions \cup {n} /\ missions'[n] = new
        /\ \A x \in DOMAIN missions : missions'[x] = missions[x]
    BY <1>0, <2>1, <2>2, Appended
  <2> QED BY <2>1, <2>3
<1>2. ASSUME NEW x \in DOMAIN missions, FinalizeMission(x) PROVE Goal
  <2>1. missions' = [missions EXCEPT ![x].phase = "told"]
    BY <1>2 DEF FinalizeMission
  <2>2. m \in DOMAIN missions /\ missions'[m].run = missions[m].run /\ (m # x => missions'[m] = missions[m])
    BY <1>0, <2>1 DEF Mission
  <2> QED BY <1>2, <2>2
<1>3. ASSUME NEW x \in DOMAIN missions, MissionEnds(x) PROVE Goal
  <2>1. PICK phase \in {"done", "failed"} : missions' = [missions EXCEPT ![x].phase = phase]
    BY <1>3 DEF MissionEnds
  <2>2. DOMAIN missions' = DOMAIN missions /\ missions'[x].phase = phase /\ \A y \in DOMAIN missions : y # x => missions'[y] = missions[y]
    BY <1>0, <2>1 DEF Mission
  <2> QED BY <2>2
<1>4. ASSUME NEW x \in DOMAIN missions, DeleteMission(x) PROVE Goal
  <2>1. missions' = [missions EXCEPT ![x] = [run |-> 0, phase |-> "told"]]
    BY <1>4 DEF DeleteMission
  <2> QED BY <2>1
<1>5. CASE missions' = missions
  BY <1>5
<1>6. ASSUME NEW j \in RunIds, Adopt(j) \/ Claim(j) PROVE missions' = missions
  BY <1>6 DEF Adopt, Claim
<1>7. ASSUME NEW k \in EventKeys, Fire(k) PROVE missions' = missions
  BY <1>7 DEF Fire
<1>8. CASE \/ HourPasses \/ SkipRun \/ RouteUnusable \/ CreateFails \/ Started \/ StartLost
           \/ Patch \/ UNCHANGED automationVars
  BY <1>5, <1>8 DEF HourPasses, SkipRun, RouteUnusable, CreateFails, Started, StartLost, Patch, automationVars
<1> QED BY <1>1, <1>2, <1>3, <1>4, <1>5, <1>6, <1>7, <1>8 DEF AutomationNext

LEMMA AwaitStep ==
  ASSUME AutomationInv, AwaitInv, [AutomationNext]_automationVars
  PROVE  AwaitInv'
<1>0. /\ AutomationTypeOK /\ MissionInv
      /\ \A m \in DOMAIN missions : missions[m] \in Mission
      /\ starter \in [run : {0} \cup RunIds, made : BOOLEAN]
  BY TypeFacts DEF AutomationInv
<1>1. ASSUME NEW m \in DOMAIN missions', missions'[m].run # 0, missions'[m].phase = "told"
      PROVE  runs'[missions'[m].run].status \in Settled
  <2>1. /\ m \in DOMAIN missions /\ missions'[m].run = missions[m].run
        /\ missions[m].phase = "told" \/ FinalizeMission(m)
    BY <1>1, ToldBy
  <2>2. missions[m].run \in RunIds
    BY <1>0, <1>1, <2>1 DEF Mission
  <2>3. CASE runs[missions[m].run].status \in Settled
    BY <2>1, <2>2, <2>3, SettledStays
  <2>4. CASE runs[missions[m].run].status \notin Settled
    <3>1. FinalizeMission(m)
      BY <1>1, <2>1, <2>4 DEF AwaitInv
    <3>2. FinalizeRun(runs, missions[m].run, missions[m].phase = "failed") /\ (missions[m].phase = "failed") \in BOOLEAN
      BY <2>4, <3>1 DEF FinalizeMission, Settled
    <3> QED BY <1>0, <2>1, <2>2, <3>2, FinalizeSettles
  <2> QED BY <2>3, <2>4
<1>2. ASSUME ~interfered', NEW i \in RunIds', runs'[i].status = "running"
      PROVE  MissionsOf(i)' # {}
  <2>1. ~interfered
    BY <1>2, FlagsMove
  <2>2. MissionsOf(i) # {}
    BY <1>2, <2>1, RunningBy DEF AwaitInv, HasMission
  <2> QED BY <1>2, <2>2, MissionsKept
<1>3. ASSUME ~interfered', starter'.made PROVE MissionsOf(starter.run)' # {}
  <2>1. ~interfered
    BY <1>3, FlagsMove
  <2>2. CASE InsertMission
    <3> DEFINE n == Len(missions) + 1
    <3>1. /\ starter' = [run |-> starter.run, made |-> TRUE]
          /\ DOMAIN missions' = DOMAIN missions \cup {n} /\ missions'[n].run = starter.run
      BY <2>2, InsertEffect
    <3> HIDE DEF n
    <3>2. starter'.run = starter.run
      BY <3>1
    <3>3. n \in DOMAIN missions' /\ missions'[n].run = starter'.run
      BY <3>1, <3>2
    <3> QED BY <3>3 DEF MissionsOf
  <2>3. CASE starter' = starter
    <3>1. MissionsOf(starter.run) # {}
      BY <1>3, <2>1, <2>3 DEF AwaitInv
    <3>2. {m \in DOMAIN missions' : missions'[m].run = starter.run} # {}
      BY <1>3, <3>1, MissionsKept DEF MissionsOf
    <3> QED BY <2>3, <3>2 DEF MissionsOf
  <2>4. CASE starter' = Idle \/ \E i \in RunIds : Claim(i)
    BY <1>3, <2>4 DEF Claim, Idle
  <2> QED BY <2>2, <2>3, <2>4, StarterMoves
<1> QED BY <1>1, <1>2, <1>3 DEF AwaitInv

\* A new automation has no runs.
LEMMA AutomationStart ==
  ASSUME AutomationInit
  PROVE  AutomationInv
<1>1. runs = <<>> /\ missions = <<>> /\ starter = [run |-> 0, made |-> FALSE] /\ recent = {}
  BY DEF AutomationInit, Idle
<1>2. RunIds = {} /\ runs \in Seq(Run) /\ missions \in Seq(Mission) /\ DOMAIN missions = {}
  BY <1>1 DEF RunIds
<1>3. Active(runs) = {} /\ Queued(runs) = {}
  BY <1>1 DEF Active, Queued, InStatus
<1>4. MaxDisturbances \in Nat
  BY LimitsAssumption
<1>5. AutomationTypeOK
  <2>1. disturbances \in 0..MaxDisturbances /\ failures \in Nat
    BY <1>4 DEF AutomationInit
  <2>2. starter \in [run : {0} \cup RunIds, made : BOOLEAN]
    BY <1>1
  <2>3. /\ concurrency \in Policies /\ enabled \in BOOLEAN /\ interfered \in BOOLEAN
        /\ trigger \in {"on", "off", "gone"} /\ recent \subseteq RunIds
    BY <1>1 DEF AutomationInit
  <2> QED BY <1>2, <2>1, <2>2, <2>3 DEF AutomationTypeOK, Run, Mission
<1>6. SlotsAgree
  BY <1>3, Counting, LimitPositive DEF SlotsAgree, ActiveWithinLimit, QueueBehindActive
<1>7. StarterInv /\ MissionInv /\ OffInv /\ OneMissionPerRun
  BY <1>1, <1>2, <1>3 DEF StarterInv, MissionInv, OffInv, OneMissionPerRun
<1> QED BY <1>5, <1>6, <1>7 DEF AutomationInv

-----------------------------------------------------------------------------
(* Theorems *)

\* In every reachable state what the dispatcher, the starter and the end of a mission know of
\* a run agrees.
THEOREM AutomationInvariant == AutomationSpec => []AutomationInv
<1>1. AutomationInv /\ [AutomationNext]_automationVars => AutomationInv'
  BY SlotsStep, StarterHeld, MissionsStep, AutomationTypeStep DEF AutomationInv
<1> QED BY <1>1, AutomationStart, PTL DEF AutomationSpec

\* The rows of an automation, its missions and the starter keep their types.
THEOREM AutomationTypeCorrect == AutomationSpec => []AutomationTypeOK
<1>1. AutomationInv => AutomationTypeOK
  BY DEF AutomationInv
<1> QED BY <1>1, AutomationInvariant, PTL

\* The slots are neither overfilled nor left empty while a run waits (decide, promoteQueued,
\* skipRun and finalizeRun each count for themselves).
THEOREM SlotsAgreed == AutomationSpec => []SlotsAgree
<1>1. AutomationInv => SlotsAgree
  BY DEF AutomationInv
<1> QED BY <1>1, AutomationInvariant, PTL

\* A run never has two missions, though the starter's transaction may be lost after
\* createMission (startOne looks for the mission before it makes one).
THEOREM OneMissionEach == AutomationSpec => []OneMissionPerRun
<1>1. AutomationInv => OneMissionPerRun
  BY DEF AutomationInv
<1> QED BY <1>1, AutomationInvariant, PTL

\* While the automation is disabled no run takes a slot (decide and the breaker's
\* finalizeRun look at enabled under the automation's row lock).
THEOREM OffStartsNothing == AutomationSpec => DisabledStartsNothing
<1>1. ASSUME AutomationInv, [AutomationNext]_automationVars
      PROVE  [~enabled => Active(runs') \subseteq Active(runs)]_automationVars
  <2>0. AutomationTypeOK /\ SlotsAgree
    BY <1>1 DEF AutomationInv
  <2>1. ASSUME ~enabled, NEW k \in EventKeys, Fire(k) PROVE Active(runs') \subseteq Active(runs)
    <3> DEFINE n == Len(runs) + 1
    <3>1. Active(runs') = Active(runs)
      BY <2>0, <2>1, FireEffect
    <3> QED BY <3>1
  <2>2. ASSUME ~enabled, NEW i \in RunIds, Ends(i) \/ Starts(i)
        PROVE  Active(runs') \subseteq Active(runs)
    BY <2>0, <2>2, EndsEffect, StartsEffect
  <2>3. CASE runs' = runs
    BY <2>3
  <2> QED BY <1>1, <2>1, <2>2, <2>3, RunsMove
<1> QED BY <1>1, AutomationInvariant, PTL DEF AutomationSpec, DisabledStartsNothing

\* A running run has a mission whose end has not reached it, whatever the starter's transaction
\* lost, unless the operator took the mission away (start, startOne and finalizeMission).
THEOREM RunsAwaitTheirMissions == AutomationSpec => []RunsAwaitMissions
<1>1. AutomationInit => AwaitInv
  <2> SUFFICES ASSUME AutomationInit PROVE AwaitInv
    OBVIOUS
  <2>1. RunIds = {} /\ DOMAIN missions = {} /\ ~starter.made
    BY DEF AutomationInit, RunIds, Idle
  <2> QED BY <2>1 DEF AwaitInv
<1>2. AutomationInv /\ AwaitInv /\ [AutomationNext]_automationVars => AwaitInv'
  BY AwaitStep
<1>3. AutomationInv /\ AwaitInv => RunsAwaitMissions
  <2> SUFFICES ASSUME AutomationInv, AwaitInv, ~interfered, NEW i \in InStatus(runs, {"running"})
               PROVE  \E m \in MissionsOf(i) : missions[m].phase # "told"
    BY DEF RunsAwaitMissions
  <2>1. i \in RunIds /\ runs[i].status = "running" /\ i # 0
    BY TypeFacts DEF InStatus, RunIds, AutomationInv
  <2>2. PICK m \in DOMAIN missions : missions[m].run = i
    BY <2>1 DEF AwaitInv, MissionsOf
  <2>3. missions[m].phase # "told"
    BY <2>1, <2>2 DEF AwaitInv, Settled
  <2> QED BY <2>2, <2>3 DEF MissionsOf
<1> QED BY <1>1, <1>2, <1>3, AutomationInvariant, PTL DEF AutomationSpec
=============================================================================
