-------------------------------- MODULE Outbox --------------------------------
(***************************************************************************)
(* What the durable inbox of side effects promises to a producer and to a  *)
(* consumer that writes through the delivery transaction (D-117,           *)
(* internal/brain/events): an event is pending until it has been handled   *)
(* or has failed MaxAttempts times, and its transactional effects happen   *)
(* exactly when it becomes processed; the consumers outside it have all     *)
(* handled it by then, at least once.  No instance, lock, batch or crash   *)
(* is visible here.                                                        *)
(***************************************************************************)
EXTENDS Integers

CONSTANTS
  Keys,           \* (source, dedup_key) pairs
  MaxAttempts     \* failed deliveries before an event is dead-lettered

VARIABLES
  state,          \* absent, pending, processed or dead
  attempts,       \* recorded deliveries of the present row
  effects,        \* history: how often the key's effects were committed
  reached         \* whether every outside consumer has handled the present row

vars == <<state, attempts, effects, reached>>

States == {"absent", "pending", "processed", "dead"}

Init ==
  /\ state = [k \in Keys |-> "absent"]
  /\ attempts = [k \in Keys |-> 0]
  /\ effects = [k \in Keys |-> 0]
  /\ reached = [k \in Keys |-> FALSE]

\* An event is accepted once; a second one with the same key changes nothing.
Enqueue(k) ==
  /\ state[k] = "absent"
  /\ state' = [state EXCEPT ![k] = "pending"]
  /\ reached' = [reached EXCEPT ![k] = FALSE]
  /\ UNCHANGED <<attempts, effects>>

\* The last of the outside consumers succeeds, maybe for a delivery that is lost.
Reach(k) ==
  /\ reached' = [reached EXCEPT ![k] = TRUE]
  /\ UNCHANGED <<state, attempts, effects>>

\* A drain settles some pending events together: the ones in ok succeed, the
\* ones in failed are retried or, at the cap, given up.
Settle(ok, failed) ==
  /\ ok \cap failed = {}
  /\ \A k \in ok : reached[k]
  /\ \A k \in ok \cup failed : state[k] = "pending"
  /\ state' = [k \in Keys |->
       IF k \in ok THEN "processed"
       ELSE IF k \in failed /\ attempts[k] + 1 >= MaxAttempts THEN "dead"
       ELSE state[k]]
  /\ attempts' = [k \in Keys |->
       IF k \in ok \cup failed THEN attempts[k] + 1 ELSE attempts[k]]
  /\ effects' = [k \in Keys |-> IF k \in ok THEN effects[k] + 1 ELSE effects[k]]
  /\ UNCHANGED reached

\* Retention: a settled row is deleted, and its key is new again.
Purge(S) ==
  /\ \A k \in S : state[k] \in {"processed", "dead"}
  /\ state' = [k \in Keys |-> IF k \in S THEN "absent" ELSE state[k]]
  /\ attempts' = [k \in Keys |-> IF k \in S THEN 0 ELSE attempts[k]]
  /\ UNCHANGED <<effects, reached>>

Next ==
  \/ \E k \in Keys : Enqueue(k) \/ Reach(k)
  \/ \E ok, failed \in SUBSET Keys : Settle(ok, failed)
  \/ \E S \in SUBSET Keys : Purge(S)

Spec == Init /\ [][Next]_vars
=============================================================================
