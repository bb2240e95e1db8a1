----------------------------- MODULE EventsInbox -----------------------------
(***************************************************************************)
(* The events table and the drainers that deliver it (D-117,               *)
(* internal/brain/events/{events,store,drainer}.go).                       *)
(*                                                                         *)
(* A drain is one database transaction: it takes the advisory lock, claims *)
(* a batch, runs every consumer of every event inside a savepoint, and     *)
(* commits the marks and the consumers' transactional writes together.     *)
(* Consumers also act outside the transaction (notifications, memory,      *)
(* missions): those effects are there as soon as the consumer returns.     *)
(* The transaction may be lost at any time, by a crash of the process or   *)
(* of its database session; a process that outlives its session keeps      *)
(* running its consumers until the next statement fails, while another     *)
(* instance may already hold the lock.                                     *)
(*                                                                         *)
(* The subscribers are those of a mission outcome: two that act outside    *)
(* the transaction and the automations dispatcher, which writes through    *)
(* it.  Time is counted only while the transaction is idle.                *)
(***************************************************************************)
EXTENDS Integers, Sequences, FiniteSets, Functions

CONSTANTS
  Keys,             \* (source, dedup_key) pairs
  Instances,        \* brain processes, each with a drainer
  NoOne,            \* no session
  MaxAttempts,      \* maxAttempts
  BatchSize,        \* batchSize
  ConsumerTimeout,  \* consumerTimeout, in minutes
  IdleTimeout,      \* drainIdleTimeout, in minutes
  MaxInserts,       \* bound: rows ever inserted
  MaxLosses,        \* bound: crashes and lost sessions
  MaxSlow           \* bound: consumers that use up their timeout

ASSUME InboxAssumption ==
  /\ MaxAttempts \in Nat \ {0}
  /\ BatchSize \in Nat \ {0}
  /\ NoOne \notin Instances
  /\ {ConsumerTimeout, IdleTimeout, MaxInserts, MaxLosses, MaxSlow} \subseteq Nat

VARIABLES
  table,            \* key -> its row, or an absent one
  lastId,           \* the identity column's last value
  lock,             \* the session holding the advisory lock, or NoOne
  drains,           \* instance -> its drain in progress
  txEffects,        \* history: committed transactional effects per key
  handled,          \* history: external consumers that succeeded on the row
  losses,           \* crashes and lost sessions so far
  slow              \* consumers that used up their timeout so far

vars == <<table, lastId, lock, drains, txEffects, handled, losses, slow>>

-----------------------------------------------------------------------------

\* In registration order; the last one writes through the transaction.
Consumers == <<"memory", "notify", "automations">>
External == {"memory", "notify"}

Absent == [state |-> "absent", id |-> 0, attempts |-> 0]

\* A drain: the batch still to deliver (its head is being delivered), the
\* consumers still to run for it, whether one has failed, how long the
\* transaction has been idle, and what it has written: marks, and the keys
\* the dispatcher wrote for.
NoDrain ==
  [pc |-> "idle", batch |-> <<>>, todo |-> <<>>, failed |-> FALSE, idle |-> 0,
   marks |-> [k \in {} |-> "processed"], writes |-> {}]

Init ==
  /\ table = [k \in Keys |-> Absent]
  /\ lastId = 0
  /\ lock = NoOne
  /\ drains = [i \in Instances |-> NoDrain]
  /\ txEffects = [k \in Keys |-> 0]
  /\ handled = [k \in Keys |-> {}]
  /\ losses = 0
  /\ slow = 0

-----------------------------------------------------------------------------
(* Producers and retention. *)

\* Insert and AddIfNew: ON CONFLICT (source, dedup_key) DO NOTHING.
Insert(k) ==
  /\ lastId < MaxInserts
  /\ table[k].state = "absent"
  /\ lastId' = lastId + 1
  /\ table' = [table EXCEPT ![k] = [state |-> "pending", id |-> lastId', attempts |-> 0]]
  /\ handled' = [handled EXCEPT ![k] = {}]
  /\ UNCHANGED <<lock, drains, txEffects, losses, slow>>

Swept == {k \in Keys : table[k].state \in {"processed", "dead"}}

\* Sweep deletes rows that have been processed for retentionDays.
Sweep ==
  /\ \E S \in (SUBSET Swept) \ {{}} :
       table' = [k \in Keys |-> IF k \in S THEN Absent ELSE table[k]]
  /\ UNCHANGED <<lastId, lock, drains, txEffects, handled, losses, slow>>

-----------------------------------------------------------------------------
(* Drain. *)

Live(i) == drains[i].pc \in {"deliver", "commit"}

\* Pending rows that no live transaction has claimed (FOR UPDATE SKIP LOCKED).
Claimable ==
  {k \in Keys :
     /\ table[k].state = "pending"
     /\ \A i \in Instances :
          Live(i) => k \notin Range(drains[i].batch) \cup DOMAIN drains[i].marks}

\* The batch claimBatch returns: the oldest claimable rows in id order, none
\* skipped, up to BatchSize of them.
Batches ==
  {b \in UNION {[1..n -> Claimable] : n \in 1..BatchSize} :
     /\ \A p, q \in DOMAIN b : p < q => table[b[p]].id < table[b[q]].id
     /\ \A k \in Claimable \ Range(b) :
          /\ Len(b) = BatchSize
          /\ \A p \in DOMAIN b : table[b[p]].id < table[k].id}

\* pg_try_advisory_xact_lock, then claimBatch.  Another drainer's lock, or an
\* empty inbox, ends the drain without an effect.
Drain(i) ==
  /\ drains[i].pc = "idle"
  /\ lock = NoOne
  /\ lock' = i
  /\ \E b \in Batches :
       drains' = [drains EXCEPT ![i] = [NoDrain EXCEPT
         !.pc = "deliver", !.batch = b, !.todo = Consumers]]
  /\ UNCHANGED <<table, lastId, txEffects, handled, losses, slow>>

\* Fault: only the last consumer's error decides.
FailedLast(d, ok) == ~ok

Failed(d, ok) == d.failed \/ ~ok

\* handleSafely: the next consumer of the event at hand returns, at once or
\* after consumerTimeout; whatever it returns, the others still run.  An
\* external consumer makes no statement, and the server ends a session whose
\* transaction idles past drainIdleTimeout; the dispatcher's statements reset
\* that clock, and fail once the session is gone.
Handle(i) ==
  LET d == drains[i]
      k == Head(d.batch)
      c == Head(d.todo)
  IN  /\ d.pc \in {"deliver", "lost"}
      /\ d.todo # <<>>
      /\ \E ok \in BOOLEAN, late \in (IF slow < MaxSlow THEN BOOLEAN ELSE {FALSE}) :
           LET idle == d.idle + (IF late THEN ConsumerTimeout ELSE 0)
               killed == c \in External /\ d.pc = "deliver" /\ idle > IdleTimeout
           IN  /\ c \notin External => ~late /\ ~(ok /\ d.pc = "lost")
               /\ slow' = IF late THEN slow + 1 ELSE slow
               /\ handled' = IF c \in External /\ ok
                             THEN [handled EXCEPT ![k] = @ \cup {c}] ELSE handled
               /\ lock' = IF killed THEN NoOne ELSE lock
               /\ drains' = [drains EXCEPT
                    ![i].pc = IF killed THEN "lost" ELSE @,
                    ![i].todo = Tail(@),
                    ![i].failed = Failed(d, ok),
                    ![i].idle = IF c \in External THEN idle ELSE 0,
                    ![i].writes = IF c \in External THEN @ ELSE @ \cup {k}]
      /\ UNCHANGED <<table, lastId, txEffects, losses>>

\* Fault: the savepoint of a failed event is not rolled back.
RolledBackNot(d) == d.writes

RolledBack(d) == IF d.failed THEN d.writes \ {Head(d.batch)} ELSE d.writes

Outcome(tries, failed) ==
  IF ~failed THEN "processed"
  ELSE IF tries + 1 >= MaxAttempts THEN "dead" ELSE "pending"

\* deliver's bookkeeping once every consumer of the event has run.
Record(i) ==
  LET d == drains[i]
      k == Head(d.batch)
      rest == Tail(d.batch)
  IN  /\ d.pc = "deliver"
      /\ d.todo = <<>>
      /\ drains' = [drains EXCEPT ![i] =
           [pc |-> IF rest = <<>> THEN "commit" ELSE "deliver",
            batch |-> rest,
            todo |-> IF rest = <<>> THEN <<>> ELSE Consumers,
            failed |-> FALSE,
            idle |-> 0,
            marks |-> [x \in DOMAIN d.marks \cup {k} |->
                         IF x = k THEN Outcome(table[k].attempts, d.failed) ELSE d.marks[x]],
            writes |-> RolledBack(d)]]
      /\ UNCHANGED <<table, lastId, lock, txEffects, handled, losses, slow>>

\* Fault: a failed delivery that will be retried is not counted.
MarkedUncounted(row, mark) ==
  [row EXCEPT !.state = mark, !.attempts = IF mark = "pending" THEN @ ELSE @ + 1]

\* markProcessed and markFailed.
Marked(row, mark) == [state |-> mark, id |-> row.id, attempts |-> row.attempts + 1]

\* The drain's transaction commits: marks and transactional effects at once.
Commit(i) ==
  LET d == drains[i]
  IN  /\ d.pc = "commit"
      /\ table' = [k \in Keys |->
           IF k \in DOMAIN d.marks
           THEN Marked(table[k], d.marks[k]) ELSE table[k]]
      /\ txEffects' = [k \in Keys |->
           IF k \in d.writes THEN txEffects[k] + 1 ELSE txEffects[k]]
      /\ lock' = NoOne
      /\ drains' = [drains EXCEPT ![i] = NoDrain]
      /\ UNCHANGED <<lastId, handled, losses, slow>>

-----------------------------------------------------------------------------
(* Losing the transaction. *)

\* The session ends under a running drain: the lock is free again and nothing
\* the transaction wrote remains.
SessionLost(i) ==
  /\ Live(i)
  /\ losses < MaxLosses
  /\ losses' = losses + 1
  /\ lock' = NoOne
  /\ drains' = [drains EXCEPT ![i].pc = "lost"]
  /\ UNCHANGED <<table, lastId, txEffects, handled, slow>>

\* The drain notices at its next statement and gives up, or its process died.
Abandon(i) ==
  /\ drains[i].pc = "lost"
  /\ drains' = [drains EXCEPT ![i] = NoDrain]
  /\ UNCHANGED <<table, lastId, lock, txEffects, handled, losses, slow>>

DrainStep(i) == Handle(i) \/ Record(i) \/ Commit(i) \/ Abandon(i)

Next ==
  \/ \E k \in Keys : Insert(k)
  \/ Sweep
  \/ \E i \in Instances : Drain(i) \/ DrainStep(i) \/ SessionLost(i)

Spec == Init /\ [][Next]_vars

\* Run's ticker keeps starting drains, and a started drain goes on: its
\* consumers are cut off by consumerTimeout.
FairSpec ==
  /\ Spec
  /\ WF_vars(\E i \in Instances : Drain(i))
  /\ \A i \in Instances : WF_vars(DrainStep(i))

-----------------------------------------------------------------------------
(* Properties *)

\* Every variable has its type.
TypeOK ==
  /\ table \in [Keys -> [state : {"absent", "pending", "processed", "dead"},
                         id : Nat, attempts : Nat]]
  /\ lastId \in Nat
  /\ lock \in Instances \cup {NoOne}
  /\ \A i \in Instances :
       /\ drains[i].pc \in {"idle", "deliver", "commit", "lost"}
       /\ Range(drains[i].batch) \subseteq Keys
       /\ drains[i].failed \in BOOLEAN
       /\ DOMAIN drains[i].marks \subseteq Keys
       /\ drains[i].writes \subseteq Keys
  /\ txEffects \in [Keys -> Nat]
  /\ handled \in [Keys -> SUBSET External]
  /\ losses \in 0..MaxLosses
  /\ slow \in 0..MaxSlow

\* The inbox implements the outbox its producers and consumers rely on: exactly once inside the
\* transaction, at least once outside it, and no attempt uncounted.
Promise == INSTANCE Outbox WITH
  state <- [k \in Keys |-> table[k].state],
  attempts <- [k \in Keys |-> table[k].attempts],
  effects <- txEffects,
  reached <- [k \in Keys |-> handled[k] = External]

ImplementsOutbox == Promise!Spec

\* Every event is settled, even when consumers of its own or of another event
\* keep failing: a poison event does not block the inbox.
EventuallySettled == \A k \in Keys : table[k].state = "pending" ~> table[k].state # "pending"

=============================================================================
