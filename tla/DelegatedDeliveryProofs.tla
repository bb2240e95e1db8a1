---------------------- MODULE DelegatedDeliveryProofs ----------------------
(* Proofs about two phases of a mission that reach beyond the brain:          *)
(* Delivery, its result phase, and Delegated, the worker turns a CLI runs.    *)
(* They hold for every set of destinations and route entries and any number   *)
(* of tries, pauses, faults, crashes, launches, reviews and mishaps.          *)
EXTENDS Delivery, Delegated, SequenceTheorems, FiniteSetTheorems, WellFoundedInduction, TLAPS

(***************************************************************************)
(*                                Delivery                                 *)
(***************************************************************************)

\* The mission works while a round is under way, and a working mission has
\* pauses left.
RowInv ==
  /\ status = "working" => pauses < MaxPauses
  /\ pc # "rest" => status = "working"

\* What the round still tries, has delivered or has failed are all destinations;
\* between rounds nothing of it is left.
RoundInv ==
  /\ pc = "rest" => todo = {} /\ out = {} /\ failed = {} /\ sent = {}
  /\ pc # "rest" => Destinations \subseteq todo \cup out \cup failed
  /\ pc \in {"promote", "ingest", "finish"} => todo = {} /\ sent = {}
  /\ pc = "deliver" => entry \subseteq out

\* The destination at hand is one to try, and a message waits for the repositories.
StageInv ==
  stage.at # "none" =>
    /\ pc = "deliver" /\ stage.of \in todo
    /\ stage.at = "send" => stage.of \in Messages /\ todo \cap Repos = {}
    /\ stage.at # "send" => stage.of \in Repos
    /\ stage.at = "pr" => stage.of \in pushed

\* A recipient that is neither recorded nor reached in this round got its copies
\* in rounds that are in doubt.
DoubtInv ==
  /\ RepeatsOnlyInDoubt
  /\ \A d \in Messages : d \notin entry \cup sent => got[d] <= doubt[d]
  /\ todo \cap (entry \cup sent) = {}

\* What is recorded, in the row or in the round, is in the world.
WorldInv ==
  /\ \A r \in Repos : prs[r] <= 1
  /\ \A r \in Repos : r \in entry \cup out => r \in pushed /\ prs[r] = 1
  /\ \A d \in Messages : d \in entry \cup out => got[d] > 0
  /\ pc = "ingest" => docs > 0
  /\ pc = "finish" /\ failed = {} /\ refs => docs > 0 /\ doc = "ready"
  /\ DoneIsDelivered

IInv == TypeOK /\ RowInv /\ RoundInv /\ StageInv /\ DoubtInv /\ WorldInv
-----------------------------------------------------------------------------
(* The steps preserve the invariant, one part after the other. *)

\* Every step keeps the types.
LEMMA TypeStep == TypeOK /\ RowInv /\ [Next]_vars => TypeOK'
<1> SUFFICES ASSUME TypeOK /\ RowInv, [Next]_vars PROVE TypeOK'
  OBVIOUS
<1> USE BoundsAssumption, DestinationsAssumption DEF row, round, world, history, bounds, Destinations, NoStage
<1>1. CASE Begin
  BY <1>1 DEF Begin, Copied, TypeOK, RowInv
<1>2. CASE Store
  BY <1>2 DEF Store, Fault, Doubted, TypeOK, RowInv
<1>3. CASE Promote
  BY <1>3 DEF Promote, Fault, TypeOK, RowInv
<1>4. CASE Ingest
  BY <1>4 DEF Ingest, Fault, TypeOK, RowInv
<1>5. CASE Finish
  BY <1>5 DEF Finish, NothingFailed, TypeOK, RowInv
<1>6. ASSUME NEW d \in Destinations, Take(d) PROVE TypeOK'
  BY <1>6 DEF Take, NextTodo, Advance, TypeOK, RowInv
<1>7. ASSUME NEW r \in Repos, Ensure(r) PROVE TypeOK'
  <2>1. CASE created[r] /\ r \notin Named
    BY <1>7, <2>1 DEF Ensure, At, Recorded, TypeOK, RowInv
  <2>2. CASE ~(created[r] /\ r \notin Named)
    <3>1. created' \in [Repos -> BOOLEAN] /\ stage' = [at |-> "push", of |-> r, tries |-> 0]
      BY <1>7, <2>2 DEF Ensure, At, Advance, TypeOK
    <3>2. UNCHANGED <<row, pc, todo, out, failed, pushed, prs, got, docs, doc, history, bounds>>
      BY <1>7, <2>2 DEF Ensure, Advance
    <3> QED
      BY <3>1, <3>2 DEF TypeOK
  <2> QED
    BY <2>1, <2>2
<1>8. ASSUME NEW r \in Repos, Push(r) PROVE TypeOK'
  BY <1>8 DEF Push, At, Advance, TypeOK, RowInv
<1>9. ASSUME NEW r \in Repos, OpenPR(r) PROVE TypeOK'
  BY <1>9 DEF OpenPR, At, NewPR, Recorded, TypeOK, RowInv
<1>10. ASSUME NEW d \in Messages, Send(d) PROVE TypeOK'
  BY <1>10 DEF Send, At, Reached, Recorded, TypeOK, RowInv
<1>11. ASSUME NEW r \in Repos, RepoFails(r) PROVE TypeOK'
  BY <1>11 DEF RepoFails, At, NewPR, Recorded, Fault, TypeOK, RowInv
<1>12. ASSUME NEW d \in Messages, SendFails(d) PROVE TypeOK'
  BY <1>12 DEF SendFails, At, Recorded, Fault, TypeOK, RowInv
<1>13. ASSUME NEW d \in Messages, SendUnsure(d) PROVE TypeOK'
  BY <1>13 DEF SendUnsure, At, Reached, Recorded, Fault, TypeOK, RowInv
<1>14. CASE PromoteFails
  BY <1>14 DEF PromoteFails, Fault, TypeOK, RowInv
<1>15. CASE AutoResume
  BY <1>15 DEF AutoResume, TypeOK, RowInv
<1>16. CASE Crash
  BY <1>16 DEF Crash, Doubted, TypeOK, RowInv
<1>17. CASE UNCHANGED vars
  BY <1>17 DEF vars, TypeOK, RowInv
<1> QED
  BY <1>1, <1>2, <1>3, <1>4, <1>5, <1>6, <1>7, <1>8, <1>9, <1>10, <1>11, <1>12, <1>13, <1>14, <1>15, <1>16, <1>17 DEF Next, Healthy

\* A round only runs on a mission that is working.
LEMMA RowStep == TypeOK /\ RowInv /\ StageInv /\ [Next]_vars => RowInv'
<1> SUFFICES ASSUME TypeOK /\ RowInv /\ StageInv, [Next]_vars PROVE RowInv'
  OBVIOUS
<1> USE BoundsAssumption, DestinationsAssumption DEF row, round, world, history, bounds, Destinations, NoStage
<1>1. CASE Begin
  BY <1>1 DEF Begin, Copied, TypeOK, RowInv, StageInv
<1>2. CASE Store
  BY <1>2 DEF Store, Fault, Doubted, TypeOK, RowInv, StageInv
<1>3. CASE Promote
  BY <1>3 DEF Promote, Fault, TypeOK, RowInv, StageInv
<1>4. CASE Ingest
  BY <1>4 DEF Ingest, Fault, TypeOK, RowInv, StageInv
<1>5. CASE Finish
  BY <1>5 DEF Finish, NothingFailed, TypeOK, RowInv, StageInv
<1>6. ASSUME NEW d \in Destinations, Take(d) PROVE RowInv'
  BY <1>6 DEF Take, NextTodo, Advance, TypeOK, RowInv, StageInv
<1>7. ASSUME NEW r \in Repos, Ensure(r) PROVE RowInv'
  BY <1>7 DEF Ensure, At, Recorded, Advance, TypeOK, RowInv, StageInv
<1>8. ASSUME NEW r \in Repos, Push(r) PROVE RowInv'
  BY <1>8 DEF Push, At, Advance, TypeOK, RowInv, StageInv
<1>9. ASSUME NEW r \in Repos, OpenPR(r) PROVE RowInv'
  BY <1>9 DEF OpenPR, At, NewPR, Recorded, TypeOK, RowInv, StageInv
<1>10. ASSUME NEW d \in Messages, Send(d) PROVE RowInv'
  BY <1>10 DEF Send, At, Reached, Recorded, TypeOK, RowInv, StageInv
<1>11. ASSUME NEW r \in Repos, RepoFails(r) PROVE RowInv'
  BY <1>11 DEF RepoFails, At, NewPR, Recorded, Fault, TypeOK, RowInv, StageInv
<1>12. ASSUME NEW d \in Messages, SendFails(d) PROVE RowInv'
  BY <1>12 DEF SendFails, At, Recorded, Fault, TypeOK, RowInv, StageInv
<1>13. ASSUME NEW d \in Messages, SendUnsure(d) PROVE RowInv'
  BY <1>13 DEF SendUnsure, At, Reached, Recorded, Fault, TypeOK, RowInv, StageInv
<1>14. CASE PromoteFails
  BY <1>14 DEF PromoteFails, Fault, TypeOK, RowInv, StageInv
<1>15. CASE AutoResume
  BY <1>15 DEF AutoResume, TypeOK, RowInv, StageInv
<1>16. CASE Crash
  BY <1>16 DEF Crash, Doubted, TypeOK, RowInv, StageInv
<1>17. CASE UNCHANGED vars
  BY <1>17 DEF vars, TypeOK, RowInv, StageInv
<1> QED
  BY <1>1, <1>2, <1>3, <1>4, <1>5, <1>6, <1>7, <1>8, <1>9, <1>10, <1>11, <1>12, <1>13, <1>14, <1>15, <1>16, <1>17 DEF Next, Healthy

\* A round loses no destination.
LEMMA RoundStep == TypeOK /\ RoundInv /\ StageInv /\ [Next]_vars => RoundInv'
<1> SUFFICES ASSUME TypeOK /\ RoundInv /\ StageInv, [Next]_vars PROVE RoundInv'
  OBVIOUS
<1> USE BoundsAssumption, DestinationsAssumption DEF row, round, world, history, bounds, Destinations, NoStage
<1>1. CASE Begin
  BY <1>1 DEF Begin, Copied, TypeOK, RoundInv, StageInv
<1>2. CASE Store
  BY <1>2 DEF Store, Fault, Doubted, TypeOK, RoundInv, StageInv
<1>3. CASE Promote
  BY <1>3 DEF Promote, Fault, TypeOK, RoundInv, StageInv
<1>4. CASE Ingest
  BY <1>4 DEF Ingest, Fault, TypeOK, RoundInv, StageInv
<1>5. CASE Finish
  BY <1>5 DEF Finish, NothingFailed, TypeOK, RoundInv, StageInv
<1>6. ASSUME NEW d \in Destinations, Take(d) PROVE RoundInv'
  BY <1>6 DEF Take, NextTodo, Advance, TypeOK, RoundInv, StageInv
<1>7. ASSUME NEW r \in Repos, Ensure(r) PROVE RoundInv'
  BY <1>7 DEF Ensure, At, Recorded, Advance, TypeOK, RoundInv, StageInv
<1>8. ASSUME NEW r \in Repos, Push(r) PROVE RoundInv'
  BY <1>8 DEF Push, At, Advance, TypeOK, RoundInv, StageInv
<1>9. ASSUME NEW r \in Repos, OpenPR(r) PROVE RoundInv'
  BY <1>9 DEF OpenPR, At, NewPR, Recorded, TypeOK, RoundInv, StageInv
<1>10. ASSUME NEW d \in Messages, Send(d) PROVE RoundInv'
  BY <1>10 DEF Send, At, Reached, Recorded, TypeOK, RoundInv, StageInv
<1>11. ASSUME NEW r \in Repos, RepoFails(r) PROVE RoundInv'
  BY <1>11 DEF RepoFails, At, NewPR, Recorded, Fault, TypeOK, RoundInv, StageInv
<1>12. ASSUME NEW d \in Messages, SendFails(d) PROVE RoundInv'
  BY <1>12 DEF SendFails, At, Recorded, Fault, TypeOK, RoundInv, StageInv
<1>13. ASSUME NEW d \in Messages, SendUnsure(d) PROVE RoundInv'
  BY <1>13 DEF SendUnsure, At, Reached, Recorded, Fault, TypeOK, RoundInv, StageInv
<1>14. CASE PromoteFails
  BY <1>14 DEF PromoteFails, Fault, TypeOK, RoundInv, StageInv
<1>15. CASE AutoResume
  BY <1>15 DEF AutoResume, TypeOK, RoundInv, StageInv
<1>16. CASE Crash
  BY <1>16 DEF Crash, Doubted, TypeOK, RoundInv, StageInv
<1>17. CASE UNCHANGED vars
  BY <1>17 DEF vars, TypeOK, RoundInv, StageInv
<1> QED
  BY <1>1, <1>2, <1>3, <1>4, <1>5, <1>6, <1>7, <1>8, <1>9, <1>10, <1>11, <1>12, <1>13, <1>14, <1>15, <1>16, <1>17 DEF Next, Healthy

\* The destination at hand stays one to try.
LEMMA StageStep == TypeOK /\ RoundInv /\ StageInv /\ [Next]_vars => StageInv'
<1> SUFFICES ASSUME TypeOK /\ RoundInv /\ StageInv, [Next]_vars PROVE StageInv'
  OBVIOUS
<1> USE BoundsAssumption, DestinationsAssumption DEF row, round, world, history, bounds, Destinations, NoStage
<1>1. CASE Begin
  BY <1>1 DEF Begin, Copied, TypeOK, RoundInv, StageInv
<1>2. CASE Store
  BY <1>2 DEF Store, Fault, Doubted, TypeOK, RoundInv, StageInv
<1>3. CASE Promote
  BY <1>3 DEF Promote, Fault, TypeOK, RoundInv, StageInv
<1>4. CASE Ingest
  BY <1>4 DEF Ingest, Fault, TypeOK, RoundInv, StageInv
<1>5. CASE Finish
  BY <1>5 DEF Finish, NothingFailed, TypeOK, RoundInv, StageInv
<1>6. ASSUME NEW d \in Destinations, Take(d) PROVE StageInv'
  BY <1>6 DEF Take, NextTodo, Advance, TypeOK, RoundInv, StageInv
<1>7. ASSUME NEW r \in Repos, Ensure(r) PROVE StageInv'
  BY <1>7 DEF Ensure, At, Recorded, Advance, TypeOK, RoundInv, StageInv
<1>8. ASSUME NEW r \in Repos, Push(r) PROVE StageInv'
  BY <1>8 DEF Push, At, Advance, TypeOK, RoundInv, StageInv
<1>9. ASSUME NEW r \in Repos, OpenPR(r) PROVE StageInv'
  BY <1>9 DEF OpenPR, At, NewPR, Recorded, TypeOK, RoundInv, StageInv
<1>10. ASSUME NEW d \in Messages, Send(d) PROVE StageInv'
  BY <1>10 DEF Send, At, Reached, Recorded, TypeOK, RoundInv, StageInv
<1>11. ASSUME NEW r \in Repos, RepoFails(r) PROVE StageInv'
  BY <1>11 DEF RepoFails, At, NewPR, Recorded, Fault, TypeOK, RoundInv, StageInv
<1>12. ASSUME NEW d \in Messages, SendFails(d) PROVE StageInv'
  BY <1>12 DEF SendFails, At, Recorded, Fault, TypeOK, RoundInv, StageInv
<1>13. ASSUME NEW d \in Messages, SendUnsure(d) PROVE StageInv'
  BY <1>13 DEF SendUnsure, At, Reached, Recorded, Fault, TypeOK, RoundInv, StageInv
<1>14. CASE PromoteFails
  BY <1>14 DEF PromoteFails, Fault, TypeOK, RoundInv, StageInv
<1>15. CASE AutoResume
  BY <1>15 DEF AutoResume, TypeOK, RoundInv, StageInv
<1>16. CASE Crash
  BY <1>16 DEF Crash, Doubted, TypeOK, RoundInv, StageInv
<1>17. CASE UNCHANGED vars
  BY <1>17 DEF vars, TypeOK, RoundInv, StageInv
<1> QED
  BY <1>1, <1>2, <1>3, <1>4, <1>5, <1>6, <1>7, <1>8, <1>9, <1>10, <1>11, <1>12, <1>13, <1>14, <1>15, <1>16, <1>17 DEF Next, Healthy

\* Copies are paid for by doubtful rounds.
LEMMA DoubtStep == TypeOK /\ RoundInv /\ StageInv /\ DoubtInv /\ [Next]_vars => DoubtInv'
<1> SUFFICES ASSUME TypeOK /\ RoundInv /\ StageInv /\ DoubtInv, [Next]_vars PROVE DoubtInv'
  OBVIOUS
<1> USE BoundsAssumption, DestinationsAssumption DEF row, round, world, history, bounds, Destinations, NoStage
<1>1. CASE Begin
  BY <1>1 DEF Begin, Copied, TypeOK, RoundInv, StageInv, DoubtInv, RepeatsOnlyInDoubt
<1>2. CASE Store
  BY <1>2 DEF Store, Fault, Doubted, TypeOK, RoundInv, StageInv, DoubtInv, RepeatsOnlyInDoubt
<1>3. CASE Promote
  BY <1>3 DEF Promote, Fault, TypeOK, RoundInv, StageInv, DoubtInv, RepeatsOnlyInDoubt
<1>4. CASE Ingest
  BY <1>4 DEF Ingest, Fault, TypeOK, RoundInv, StageInv, DoubtInv, RepeatsOnlyInDoubt
<1>5. CASE Finish
  BY <1>5 DEF Finish, NothingFailed, TypeOK, RoundInv, StageInv, DoubtInv, RepeatsOnlyInDoubt
<1>6. ASSUME NEW d \in Destinations, Take(d) PROVE DoubtInv'
  BY <1>6 DEF Take, NextTodo, Advance, TypeOK, RoundInv, StageInv, DoubtInv, RepeatsOnlyInDoubt
<1>7. ASSUME NEW r \in Repos, Ensure(r) PROVE DoubtInv'
  BY <1>7 DEF Ensure, At, Recorded, Advance, TypeOK, RoundInv, StageInv, DoubtInv, RepeatsOnlyInDoubt
<1>8. ASSUME NEW r \in Repos, Push(r) PROVE DoubtInv'
  BY <1>8 DEF Push, At, Advance, TypeOK, RoundInv, StageInv, DoubtInv, RepeatsOnlyInDoubt
<1>9. ASSUME NEW r \in Repos, OpenPR(r) PROVE DoubtInv'
  BY <1>9 DEF OpenPR, At, NewPR, Recorded, TypeOK, RoundInv, StageInv, DoubtInv, RepeatsOnlyInDoubt
<1>10. ASSUME NEW d \in Messages, Send(d) PROVE DoubtInv'
  BY <1>10 DEF Send, At, Reached, Recorded, TypeOK, RoundInv, StageInv, DoubtInv, RepeatsOnlyInDoubt
<1>11. ASSUME NEW r \in Repos, RepoFails(r) PROVE DoubtInv'
  BY <1>11 DEF RepoFails, At, NewPR, Recorded, Fault, TypeOK, RoundInv, StageInv, DoubtInv, RepeatsOnlyInDoubt
<1>12. ASSUME NEW d \in Messages, SendFails(d) PROVE DoubtInv'
  BY <1>12 DEF SendFails, At, Recorded, Fault, TypeOK, RoundInv, StageInv, DoubtInv, RepeatsOnlyInDoubt
<1>13. ASSUME NEW d \in Messages, SendUnsure(d) PROVE DoubtInv'
  BY <1>13 DEF SendUnsure, At, Reached, Recorded, Fault, TypeOK, RoundInv, StageInv, DoubtInv, RepeatsOnlyInDoubt
<1>14. CASE PromoteFails
  BY <1>14 DEF PromoteFails, Fault, TypeOK, RoundInv, StageInv, DoubtInv, RepeatsOnlyInDoubt
<1>15. CASE AutoResume
  BY <1>15 DEF AutoResume, TypeOK, RoundInv, StageInv, DoubtInv, RepeatsOnlyInDoubt
<1>16. CASE Crash
  BY <1>16 DEF Crash, Doubted, TypeOK, RoundInv, StageInv, DoubtInv, RepeatsOnlyInDoubt
<1>17. CASE UNCHANGED vars
  BY <1>17 DEF vars, TypeOK, RoundInv, StageInv, DoubtInv, RepeatsOnlyInDoubt
<1> QED
  BY <1>1, <1>2, <1>3, <1>4, <1>5, <1>6, <1>7, <1>8, <1>9, <1>10, <1>11, <1>12, <1>13, <1>14, <1>15, <1>16, <1>17 DEF Next, Healthy

\* What is recorded stays in the world.
LEMMA WorldStep == IInv /\ [Next]_vars => WorldInv'
<1> SUFFICES ASSUME IInv, [Next]_vars PROVE WorldInv'
  OBVIOUS
<1> USE BoundsAssumption, DestinationsAssumption DEF row, round, world, history, bounds, Destinations, NoStage
<1>1. CASE Begin
  BY <1>1 DEF Begin, Copied, IInv, TypeOK, RowInv, RoundInv, StageInv, WorldInv, DoneIsDelivered
<1>2. CASE Store
  BY <1>2 DEF Store, Fault, Doubted, IInv, TypeOK, RowInv, RoundInv, StageInv, WorldInv, DoneIsDelivered
<1>3. CASE Promote
  BY <1>3 DEF Promote, Fault, IInv, TypeOK, RowInv, RoundInv, StageInv, WorldInv, DoneIsDelivered
<1>4. CASE Ingest
  BY <1>4 DEF Ingest, Fault, IInv, TypeOK, RowInv, RoundInv, StageInv, WorldInv, DoneIsDelivered
<1>5. CASE Finish
  BY <1>5 DEF Finish, NothingFailed, IInv, TypeOK, RowInv, RoundInv, StageInv, WorldInv, DoneIsDelivered
<1>6. ASSUME NEW d \in Destinations, Take(d) PROVE WorldInv'
  BY <1>6 DEF Take, NextTodo, Advance, IInv, TypeOK, RowInv, RoundInv, StageInv, WorldInv, DoneIsDelivered
<1>7. ASSUME NEW r \in Repos, Ensure(r) PROVE WorldInv'
  BY <1>7 DEF Ensure, At, Recorded, Advance, IInv, TypeOK, RowInv, RoundInv, StageInv, WorldInv, DoneIsDelivered
<1>8. ASSUME NEW r \in Repos, Push(r) PROVE WorldInv'
  BY <1>8 DEF Push, At, Advance, IInv, TypeOK, RowInv, RoundInv, StageInv, WorldInv, DoneIsDelivered
<1>9. ASSUME NEW r \in Repos, OpenPR(r) PROVE WorldInv'
  BY <1>9 DEF OpenPR, At, NewPR, Recorded, IInv, TypeOK, RowInv, RoundInv, StageInv, WorldInv, DoneIsDelivered
<1>10. ASSUME NEW d \in Messages, Send(d) PROVE WorldInv'
  BY <1>10 DEF Send, At, Reached, Recorded, IInv, TypeOK, RowInv, RoundInv, StageInv, WorldInv, DoneIsDelivered
<1>11. ASSUME NEW r \in Repos, RepoFails(r) PROVE WorldInv'
  BY <1>11 DEF RepoFails, At, NewPR, Recorded, Fault, IInv, TypeOK, RowInv, RoundInv, StageInv, WorldInv, DoneIsDelivered
<1>12. ASSUME NEW d \in Messages, SendFails(d) PROVE WorldInv'
  BY <1>12 DEF SendFails, At, Recorded, Fault, IInv, TypeOK, RowInv, RoundInv, StageInv, WorldInv, DoneIsDelivered
<1>13. ASSUME NEW d \in Messages, SendUnsure(d) PROVE WorldInv'
  BY <1>13 DEF SendUnsure, At, Reached, Recorded, Fault, IInv, TypeOK, RowInv, RoundInv, StageInv, WorldInv, DoneIsDelivered
<1>14. CASE PromoteFails
  BY <1>14 DEF PromoteFails, Fault, IInv, TypeOK, RowInv, RoundInv, StageInv, WorldInv, DoneIsDelivered
<1>15. CASE AutoResume
  BY <1>15 DEF AutoResume, IInv, TypeOK, RowInv, RoundInv, StageInv, WorldInv, DoneIsDelivered
<1>16. CASE Crash
  BY <1>16 DEF Crash, Doubted, IInv, TypeOK, RowInv, RoundInv, StageInv, WorldInv, DoneIsDelivered
<1>17. CASE UNCHANGED vars
  BY <1>17 DEF vars, IInv, TypeOK, RowInv, RoundInv, StageInv, WorldInv, DoneIsDelivered
<1> QED
  BY <1>1, <1>2, <1>3, <1>4, <1>5, <1>6, <1>7, <1>8, <1>9, <1>10, <1>11, <1>12, <1>13, <1>14, <1>15, <1>16, <1>17 DEF Next, Healthy

-----------------------------------------------------------------------------
(* The theorems. *)

\* The first round has everything to do.
LEMMA InitInv == Init => IInv
<1> SUFFICES ASSUME Init PROVE IInv
  OBVIOUS
<1> USE BoundsAssumption, DestinationsAssumption DEF Init, Rest, NoStage
<1>1. TypeOK
  <2>1. stage \in [at : {"none", "ensure", "push", "pr", "send"}, of : {"none"} \cup Destinations,
                   tries : 0..(MaxTries - 1)]
    BY 0 \in 0..(MaxTries - 1)
  <2>2. /\ created \in [Repos -> BOOLEAN] /\ prs \in [Repos -> Nat]
        /\ got \in [Messages -> Nat] /\ doubt \in [Messages -> Nat]
    BY Zenon
  <2>3. refs \in BOOLEAN
    BY Zenon
  <2>4. /\ status \in {"working", "paused", "done"} /\ pauses \in 0..MaxPauses
        /\ faults \in 0..MaxFaults /\ crashes \in 0..MaxCrashes /\ docs \in Nat
    OBVIOUS
  <2>5. /\ entry \subseteq Destinations /\ todo \subseteq Destinations
        /\ out \subseteq Destinations /\ failed \subseteq Destinations \cup {"kb"}
        /\ pushed \subseteq Repos /\ sent \subseteq Messages
        /\ pc \in {"rest", "deliver", "promote", "ingest", "finish"}
        /\ doc \in {"none", "pending", "ready", "failed"}
    OBVIOUS
  <2> HIDE DEF Init, Rest, NoStage
  <2> QED
    BY <2>1, <2>2, <2>3, <2>4, <2>5, Zenon DEF TypeOK
<1>2. RowInv /\ RoundInv /\ StageInv
  BY DEF RowInv, RoundInv, StageInv
<1>3. DoubtInv
  BY DEF DoubtInv, RepeatsOnlyInDoubt
<1>4. WorldInv
  BY DEF WorldInv, DoneIsDelivered
<1> QED
  BY <1>1, <1>2, <1>3, <1>4 DEF IInv

\* The invariant is inductive.
LEMMA InvStep == IInv /\ [Next]_vars => IInv'
  BY TypeStep, RowStep, RoundStep, StageStep, DoubtStep, WorldStep DEF IInv

\* Every behaviour of the result phase keeps the inductive invariant.
THEOREM Invariant == Spec => []IInv
<1>1. Init => IInv
  BY InitInv
<1>2. IInv /\ [Next]_vars => IInv'
  BY InvStep
<1> QED
  BY <1>1, <1>2, PTL DEF Spec

\* The row, the round and the world keep their types, the pauses their cap.
THEOREM TypeCorrect == Spec => []TypeOK
<1>1. IInv => TypeOK
  BY DEF IInv
<1> QED
  BY Invariant, <1>1, PTL

\* A mission that is done was delivered, whatever failed on the way (runResult).
THEOREM DoneDelivered == Spec => []DoneIsDelivered
<1>1. IInv => DoneIsDelivered
  BY DEF IInv, WorldInv
<1> QED
  BY Invariant, <1>1, PTL

\* No recipient gets more copies than one and a copy per doubtful round (deliverOne).
THEOREM CopiesBounded == Spec => []RepeatsOnlyInDoubt
<1>1. IInv => RepeatsOnlyInDoubt
  BY DEF IInv, DoubtInv
<1> QED
  BY Invariant, <1>1, PTL

\* Only a message at hand reaches anybody, and it waited for the repositories (Deliver).
THEOREM MessagesLast == Spec => MessagesFollowRepos
<1> DEFINE Follows == got' # got => \A r \in Repos : r \in out \cup failed
<1>1. IInv /\ [Next]_vars => [Follows]_vars
  <2> SUFFICES ASSUME IInv, Next, got' # got PROVE \A r \in Repos : r \in out \cup failed
    BY DEF vars
  <2>1. stage.at = "send"
    <3>1. \A d \in Messages : Send(d) => At(d, "send")
      BY DEF Send
    <3>2. \A d \in Messages : SendUnsure(d) => At(d, "send")
      BY DEF SendUnsure
    <3>3. \A d \in Messages : SendFails(d) => UNCHANGED got
      BY DEF SendFails, world
    <3>4. \A r \in Repos : Ensure(r) \/ Push(r) \/ OpenPR(r) \/ RepoFails(r) => UNCHANGED got
      BY DEF Ensure, Push, OpenPR, RepoFails
    <3>5. \A d \in Destinations : Take(d) => UNCHANGED got
      BY DEF Take, world
    <3>6. Begin \/ Store \/ Promote \/ Ingest \/ Finish => UNCHANGED got
      BY DEF Begin, Store, Promote, Ingest, Finish, world
    <3>7. PromoteFails \/ AutoResume \/ Crash => UNCHANGED got
      BY DEF PromoteFails, AutoResume, Crash, world
    <3> QED
      BY <3>1, <3>2, <3>3, <3>4, <3>5, <3>6, <3>7 DEF Next, Healthy, At
  <2>2. todo \cap Repos = {} /\ pc = "deliver"
    BY <2>1 DEF IInv, StageInv
  <2> QED
    BY <2>2 DEF IInv, RoundInv, Destinations
<1> QED
  BY Invariant, <1>1, PTL DEF Spec, MessagesFollowRepos

(***************************************************************************)
(*                                Delegated                                *)
(***************************************************************************)

\* The newest of a set of events.
LEMMA NewestOf ==
  ASSUME NEW n \in Nat, NEW S \in SUBSET (1..n), S # {}
  PROVE  \E x \in S : \A y \in S : y <= x
<1> DEFINE T == {n - x : x \in S}
<1>1. T \subseteq Nat /\ T # {}
  <2>1. \A x \in S : n - x \in Nat
    OBVIOUS
  <2> QED BY <2>1
<1>2. PICK t \in T : \A y \in T : ~(<<y, t>> \in OpToRel(<, Nat))
  BY <1>1, NatLessThanWellFounded, WFMin
<1>3. PICK x \in S : t = n - x
  OBVIOUS
<1>4. ASSUME NEW y \in S PROVE y <= x
  <2>1. n - y \in T /\ n - y \in Nat /\ t \in Nat
    BY <1>1
  <2>2. ~(n - y < t)
    BY <1>2, <2>1 DEF OpToRel
  <2> QED BY <1>3, <2>2
<1> QED BY <1>4

\* The log, as what a turn reads of it: it opens with a launch, and this run is over once an
\* end is logged before another launch.
Opens(l) == 1 \in DOMAIN l /\ l[1].kind = "spawned" /\ l[1].phase = "build"
Over(l) ==
  \E i \in DOMAIN l : i > 1 /\ l[i].kind \in EndKinds
                      /\ \A j \in DOMAIN l : 1 < j /\ j <= i => l[j].kind # "spawned"
Plain(l) == \A i \in DOMAIN l : i > 1 => l[i].kind # "spawned"
FirstOnly(l) == \A i \in DOMAIN l : l[i].kind = "spawned" /\ l[i].phase = "build" => i = 1

\* A run that the log shows unfinished, about which nothing was lost.
Open == Opens(log) /\ ~Over(log) /\ log[1].run \notin slipped

AtWork == {"launch", "poll", "finish", "dead"}

\* Only the latest launch is in the log, and who is at work has a run and an entry.
LogInv ==
  /\ FirstOnly(log) /\ (Opens(log) => log[1].run \in Runs)
  /\ turn.at \in AtWork \cup {"verdict"} => turn.run \in Runs
  /\ turn.at # "idle" => turn.entry \in Entries

\* An open run waits for the next turn, or it is the run of this one.
OpenInv ==
  Open => /\ Plain(log) /\ delivered[log[1].run] = 0
          /\ \/ turn.at = "idle" /\ turn.run = 0
             \/ turn.at \in AtWork /\ turn.run = log[1].run

\* The run of a turn is open until its end is recorded.
TurnInv == turn.at \in AtWork /\ turn.run \notin slipped => Open /\ log[1].run = turn.run

\* A CLI that works is the open run, polled or to be attached to.
AliveInv ==
  \A r \in Runs \ slipped : Alive(r) => Open /\ log[1].run = r /\ turn.at \in {"idle", "poll"}

VerdictInv ==
  /\ VerdictOnce
  /\ turn.at = "verdict" /\ turn.run \notin slipped => delivered[turn.run] = 0
  /\ \A r \in Ids \ Runs : delivered[r] = 0

RunsInv == OpenInv /\ TurnInv /\ AliveInv /\ VerdictInv
DelegatedInv == DelegatedTypeOK /\ LogInv /\ RunsInv
-----------------------------------------------------------------------------
(* The event log *)

Cli == [proc : {"none", "alive", "exited", "lost"}, written : 0..End]
LogEvent ==
  [kind : {"spawned", "session", "progress", "result", "died"},
   phase : {"build", "prove"}, run : 0..MaxRuns, offset : 0..End, reset : BOOLEAN]
TurnType ==
  [at : {"idle", "spawn", "launch", "poll", "finish", "dead", "verdict"},
   run : 0..MaxRuns, entry : Entries \cup {"none"}, from : 0..End, offset : 0..End,
   resume : BOOLEAN, attempt : 0..1, attached : BOOLEAN]

\* The type invariant, with the domains the steps need.
LEMMA DelegatedTypes ==
  ASSUME DelegatedTypeOK
  PROVE  /\ cli \in Seq(Cli) /\ Len(cli) \in Nat /\ Len(cli) <= MaxRuns /\ MaxRuns \in Nat
         /\ Runs = 1..Len(cli) /\ Runs \subseteq Ids /\ Ids \subseteq 0..MaxRuns
         /\ \A r \in Runs : cli[r] \in Cli
         /\ log \in Seq(LogEvent) /\ Len(log) \in Nat /\ DOMAIN log = 1..Len(log)
         /\ \A i \in DOMAIN log : log[i] \in LogEvent
         /\ turn \in TurnType
<1>1. cli \in Seq(Cli) /\ Len(cli) \in Nat /\ Runs = 1..Len(cli) /\ \A r \in Runs : cli[r] \in Cli
  <2>1. cli \in Seq(Cli) /\ Runs = DOMAIN cli
    BY DEF DelegatedTypeOK, Cli, Runs
  <2> QED BY <2>1
<1>2. Len(cli) <= MaxRuns /\ MaxRuns \in Nat
  BY RunBoundsAssumption DEF DelegatedTypeOK
<1>3. log \in Seq(LogEvent) /\ turn \in TurnType
  BY DEF DelegatedTypeOK, LogEvent, TurnType
<1>4. Len(log) \in Nat /\ DOMAIN log = 1..Len(log) /\ \A i \in DOMAIN log : log[i] \in LogEvent
  BY <1>3
<1>5. Runs \subseteq Ids /\ Ids \subseteq 0..MaxRuns
  BY <1>1, <1>2 DEF Ids
<1> QED BY <1>1, <1>2, <1>3, <1>4, <1>5

\* The events the code writes.
LEMMA Events ==
  ASSUME NEW kind \in {"spawned", "session", "progress", "result", "died"}, NEW r \in 0..MaxRuns,
         NEW offset \in 0..End, NEW reset \in BOOLEAN
  PROVE  /\ Event(kind, r, offset, reset) \in LogEvent
         /\ Event(kind, r, offset, reset).kind = kind /\ Event(kind, r, offset, reset).run = r
         /\ Event(kind, r, offset, reset).phase = "build"
         /\ Event(kind, r, offset, reset).offset = offset
BY DEF Event, LogEvent

\* What an event other than a worker's launch leaves of what the log says.
Kept(l, n) ==
  /\ FirstOnly(n) /\ (Opens(n) <=> Opens(l)) /\ (Opens(l) => n[1] = l[1])
  /\ Over(l) => Over(n)

\* An event at the end of the log.
LEMMA LoggedAtEnd ==
  ASSUME NEW l \in Seq(LogEvent), FirstOnly(l), NEW ev \in LogEvent,
         ~(ev.kind = "spawned" /\ ev.phase = "build"), NEW n, n = Append(l, ev)
  PROVE  /\ n \in Seq(LogEvent) /\ Kept(l, n)
         /\ Plain(l) /\ ev.kind # "spawned" => Plain(n)
         /\ Opens(l) /\ Plain(l) /\ ev.kind \in EndKinds => Over(n)
         /\ ev.kind \notin EndKinds /\ ~Over(l) => ~Over(n)
<1> DEFINE e == Len(l) + 1
<1>1. /\ n \in Seq(LogEvent) /\ Len(l) \in Nat /\ DOMAIN l = 1..Len(l) /\ DOMAIN n = 1..e
      /\ n[e] = ev /\ \A i \in DOMAIN l : n[i] = l[i]
  OBVIOUS
<1>2. e \in Nat /\ DOMAIN n = DOMAIN l \cup {e} /\ \A i \in DOMAIN l : i \in Nat /\ 1 <= i /\ i < e
  <2>1. 1..e = (1..Len(l)) \cup {e}
    BY <1>1
  <2> QED BY <1>1, <2>1
<1> HIDE DEF e
<1>3. FirstOnly(n)
  BY <1>1, <1>2 DEF FirstOnly
<1>4. Opens(n) <=> Opens(l)
  <2>1. CASE 1 \in DOMAIN l
    BY <1>1, <1>2, <2>1 DEF Opens
  <2>2. CASE 1 \notin DOMAIN l
    <3>1. e = 1
      <4>1. Len(l) = 0
        BY <1>1, <2>2
      <4> QED BY <4>1 DEF e
    <3> QED BY <1>1, <1>2, <2>2, <3>1 DEF Opens
  <2> QED BY <2>1, <2>2
<1>5. Opens(l) => n[1] = l[1]
  BY <1>1 DEF Opens
<1>6. Over(l) => Over(n)
  <2> SUFFICES ASSUME Over(l) PROVE Over(n)
    OBVIOUS
  <2>1. PICK i \in DOMAIN l : i > 1 /\ l[i].kind \in EndKinds
                              /\ \A j \in DOMAIN l : 1 < j /\ j <= i => l[j].kind # "spawned"
    BY DEF Over
  <2>2. \A j \in DOMAIN n : 1 < j /\ j <= i => j \in DOMAIN l
    BY <1>2
  <2>3. \A j \in DOMAIN n : 1 < j /\ j <= i => n[j].kind # "spawned"
    BY <1>1, <2>1, <2>2
  <2>4. i \in DOMAIN n /\ n[i].kind \in EndKinds
    BY <1>1, <1>2, <2>1
  <2> QED BY <2>1, <2>3, <2>4 DEF Over
<1>7. Plain(l) /\ ev.kind # "spawned" => Plain(n)
  BY <1>1, <1>2 DEF Plain
<1>8. ASSUME Opens(l), Plain(l), ev.kind \in EndKinds PROVE Over(n)
  <2>1. e > 1
    BY <1>2, <1>8 DEF Opens
  <2>2. ev.kind # "spawned"
    BY <1>8 DEF EndKinds
  <2>3. \A j \in DOMAIN n : 1 < j => n[j].kind # "spawned"
    BY <1>1, <1>2, <1>8, <2>2 DEF Plain
  <2> QED BY <1>1, <1>2, <1>8, <2>1, <2>3 DEF Over
<1>9. ASSUME ev.kind \notin EndKinds, ~Over(l), Over(n) PROVE FALSE
  <2>1. PICK i \in DOMAIN n : i > 1 /\ n[i].kind \in EndKinds
                              /\ \A j \in DOMAIN n : 1 < j /\ j <= i => n[j].kind # "spawned"
    BY <1>9 DEF Over
  <2>2. i \in DOMAIN l
    BY <1>1, <1>2, <1>9, <2>1
  <2>3. l[i].kind \in EndKinds /\ \A j \in DOMAIN l : 1 < j /\ j <= i => l[j].kind # "spawned"
    BY <1>1, <1>2, <2>1, <2>2
  <2> QED BY <1>9, <2>1, <2>2, <2>3 DEF Over
<1> QED BY <1>1, <1>3, <1>4, <1>5, <1>6, <1>7, <1>8, <1>9 DEF Kept

\* How far the output was read takes the place of the last one.
LEMMA LoggedInPlace ==
  ASSUME NEW l \in Seq(LogEvent), FirstOnly(l), NEW ev \in LogEvent, ev.kind = "progress",
         l[Len(l)].kind = "progress", NEW n, n = [l EXCEPT ![Len(l)] = ev]
  PROVE  n \in Seq(LogEvent) /\ Kept(l, n) /\ (Plain(l) => Plain(n)) /\ (~Over(l) => ~Over(n))
<1> DEFINE e == Len(l)
<1>1. /\ n \in Seq(LogEvent) /\ Len(l) \in Nat /\ DOMAIN l = 1..Len(l) /\ DOMAIN n = DOMAIN l
      /\ \A i \in DOMAIN l : i # e => n[i] = l[i]
      /\ e \in DOMAIN l => n[e] = ev
  <2>1. Len(l) \in Nat /\ DOMAIN l = 1..Len(l) /\ \A i \in DOMAIN l : l[i] \in LogEvent
    OBVIOUS
  <2>2. DOMAIN n = DOMAIN l /\ (\A i \in DOMAIN l : i # e => n[i] = l[i])
        /\ (e \in DOMAIN l => n[e] = ev)
    BY <2>1
  <2>3. l \in [1..Len(l) -> LogEvent] /\ n = [l EXCEPT ![e] = ev]
    BY <2>1
  <2> HIDE DEF e
  <2>4. n \in [1..Len(l) -> LogEvent]
    BY <2>3
  <2>5. n \in Seq(LogEvent)
    BY ONLY <2>1, <2>4, SeqDef, Zenon
  <2> QED BY <2>1, <2>2, <2>5
<1>2. l[e].kind = "progress"
  OBVIOUS
<1> HIDE DEF e
<1>3. \A i \in DOMAIN l : n[i].kind = l[i].kind /\ (l[i].kind # "progress" => n[i] = l[i])
  BY <1>1, <1>2
<1>4. Over(l) <=> Over(n)
  BY <1>1, <1>3 DEF Over
<1>5. FirstOnly(n)
  BY <1>1, <1>3 DEF FirstOnly
<1>6. (Opens(n) <=> Opens(l)) /\ (Opens(l) => n[1] = l[1])
  BY <1>1, <1>3 DEF Opens
<1>7. Plain(l) => Plain(n)
  BY <1>1, <1>3 DEF Plain
<1> QED BY <1>1, <1>4, <1>5, <1>6, <1>7 DEF Kept

\* An event of the worker other than its launch.
LEMMA LoggedEvent ==
  ASSUME NEW l \in Seq(LogEvent), FirstOnly(l), NEW ev \in LogEvent, ev.kind # "spawned",
         NEW n, n = Appended(l, ev)
  PROVE  /\ n \in Seq(LogEvent) /\ Kept(l, n) /\ (Plain(l) => Plain(n))
         /\ Opens(l) /\ Plain(l) /\ ev.kind \in EndKinds => Over(n)
         /\ ev.kind \notin EndKinds /\ ~Over(l) => ~Over(n)
<1>1. CASE ev.kind = "progress" /\ l[Len(l)].kind = "progress"
  <2>1. n = [l EXCEPT ![Len(l)] = ev]
    BY <1>1 DEF Appended
  <2>2. ev.kind \notin EndKinds
    BY <1>1 DEF EndKinds
  <2> QED BY <1>1, <2>1, <2>2, LoggedInPlace
<1>2. CASE ~(ev.kind = "progress" /\ l[Len(l)].kind = "progress")
  <2>1. n = Append(l, ev)
    BY <1>2 DEF Appended
  <2> QED BY <2>1, LoggedAtEnd
<1> QED BY <1>1, <1>2

\* A launch is where the log starts anew.
LEMMA LoggedLaunch ==
  ASSUME NEW l, NEW ev \in LogEvent, ev.kind = "spawned", ev.phase = "build",
         NEW n, n = Appended(l, ev)
  PROVE  n \in Seq(LogEvent) /\ FirstOnly(n) /\ Opens(n) /\ n[1] = ev /\ ~Over(n) /\ Plain(n)
<1>1. n = <<ev>>
  BY DEF Appended
<1>2. n \in Seq(LogEvent) /\ DOMAIN n = {1} /\ n[1] = ev
  BY <1>1
<1> QED BY <1>2 DEF FirstOnly, Opens, Over, Plain

\* A review leaves the worker's run as it was.
LEMMA LoggedReview ==
  ASSUME NEW l \in Seq(LogEvent), FirstOnly(l),
         NEW tail \in {<<>>, <<Review("result")>>, <<Review("died")>>},
         NEW n, n = l \o <<Review("spawned")>> \o tail
  PROVE  n \in Seq(LogEvent) /\ Kept(l, n)
<1>1. \A kind \in {"spawned", "result", "died"} :
        Review(kind) \in LogEvent /\ Review(kind).phase = "prove"
  <2>1. 0 \in 0..MaxRuns /\ 0 \in 0..End
    BY RunBoundsAssumption DEF End
  <2> QED BY <2>1 DEF Review, Event, LogEvent
<1> DEFINE m == Append(l, Review("spawned"))
<1>2. m \in Seq(LogEvent) /\ Kept(l, m)
  BY <1>1, LoggedAtEnd
<1>3. n = m \/ \E kind \in {"result", "died"} : n = Append(m, Review(kind))
  <2>1. l \o <<Review("spawned")>> = m
    BY <1>1
  <2>2. n = m \o tail
    BY <2>1
  <2> HIDE DEF m
  <2>3. CASE tail = <<>>
    BY <1>2, <2>2, <2>3
  <2>4. ASSUME NEW kind \in {"result", "died"}, tail = <<Review(kind)>>
        PROVE  n = Append(m, Review(kind))
    BY <1>1, <1>2, <2>2, <2>4
  <2> QED BY <2>3, <2>4
<1> HIDE DEF m
<1>4. CASE n = m
  BY <1>2, <1>4
<1>5. ASSUME NEW kind \in {"result", "died"}, n = Append(m, Review(kind))
      PROVE  n \in Seq(LogEvent) /\ Kept(l, n)
  <2>1. Review(kind) \in LogEvent /\ Review(kind).phase = "prove" /\ FirstOnly(m)
    BY <1>1, <1>2 DEF Kept
  <2>2. n \in Seq(LogEvent) /\ Kept(m, n)
    BY <1>2, <1>5, <2>1, LoggedAtEnd
  <2>3. Kept(l, n)
    BY <1>2, <2>2 DEF Kept
  <2> QED BY <2>2, <2>3
<1> QED BY <1>3, <1>4, <1>5

\* LastRunState, of a log with one launch of a worker: what it started, and whether it is over.
LEMMA LastRunRead ==
  ASSUME DelegatedTypeOK, LogInv
  PROVE  /\ Unfinished => Opens(log) /\ ~Over(log) /\ LastRun.run = log[1].run
         /\ ~Unfinished => ~Open
         /\ LastRun.offset \in 0..End
<1>0. /\ log \in Seq(LogEvent) /\ Len(log) \in Nat /\ DOMAIN log = 1..Len(log)
      /\ \A i \in DOMAIN log : log[i] \in LogEvent
      /\ FirstOnly(log) /\ (Opens(log) => log[1].run \in Runs) /\ 0 \notin Runs
  BY DelegatedTypes DEF LogInv
<1>1. LatestOffset \in 0..End
  <2> DEFINE P == {i \in After : log[i].kind = "progress"}
             Offset == log[CHOOSE i \in P : \A j \in P : j <= i].offset
  <2>1. CASE P = {}
    BY <2>1 DEF LatestOffset, End
  <2>2. CASE P # {}
    <3>1. P \in SUBSET (1..Len(log))
      BY <1>0 DEF After
    <3>2. \E x \in P : \A y \in P : y <= x
      BY <1>0, <2>2, <3>1, NewestOf
    <3>3. (CHOOSE i \in P : \A j \in P : j <= i) \in P
      BY <3>2
    <3>4. Offset \in 0..End
      <4> DEFINE i == CHOOSE i \in P : \A j \in P : j <= i
      <4>1. i \in DOMAIN log
        BY <1>0, <3>1, <3>3
      <4> QED BY <1>0, <4>1 DEF LogEvent
    <3> QED BY <2>2, <3>4 DEF LatestOffset
  <2> QED BY <2>1, <2>2
<1>2. CASE ~Opens(log)
  <2>1. Spawns = {}
    BY <1>0, <1>2 DEF Spawns, FirstOnly, Opens
  <2>2. LastRun.run = 0 /\ LastRun.offset = 0
    BY <2>1 DEF LastRun
  <2> QED BY <1>2, <2>2 DEF Unfinished, Open, End
<1>3. CASE Opens(log)
  <2>1. Spawns = {1}
    BY <1>0, <1>3 DEF Spawns, FirstOnly, Opens
  <2>2. LastSpawn = 1
    BY <2>1 DEF LastSpawn
  <2>3. /\ LastRun.run = log[1].run /\ LastRun.offset = LatestOffset
        /\ LastRun.finished = (\E i \in After : log[i].kind \in EndKinds)
    BY <2>1, <2>2 DEF LastRun
  <2>4. (\E i \in After : log[i].kind \in EndKinds) <=> Over(log)
    <3>1. \A i \in DOMAIN log :
            i \in After <=> i > 1 /\ \A j \in 2..i : log[j].kind # "spawned"
      BY <2>2 DEF After
    <3>2. \A i \in DOMAIN log :
            (\A j \in 2..i : log[j].kind # "spawned")
              <=> \A j \in DOMAIN log : 1 < j /\ j <= i => log[j].kind # "spawned"
      BY <1>0
    <3>3. After \subseteq DOMAIN log
      BY DEF After
    <3> QED BY <3>1, <3>2, <3>3 DEF Over
  <2>5. LastRun.run # 0
    BY <1>0, <1>3, <2>3
  <2> QED BY <1>1, <1>3, <2>3, <2>4, <2>5 DEF Unfinished, Open
<1> QED BY <1>2, <1>3
-----------------------------------------------------------------------------
(* The steps *)

\* A step that keeps what the log says, starts no CLI, and goes on polling or lets go of the run.
LEMMA RunHeld ==
  ASSUME LogInv, RunsInv,
         Kept(log, log'), Over(log') => Over(log), Plain(log) => Plain(log'),
         slipped \subseteq slipped', delivered' = delivered, Runs' = Runs,
         \A r \in Runs \ slipped' : cli'[r].proc = "alive" => Alive(r),
         \/ turn'.at = "idle" /\ turn'.run = 0
         \/ turn'.at = turn.at /\ turn'.run = turn.run
         \/ turn.at = "poll" /\ turn'.at \in {"finish", "dead"} /\ turn'.run = turn.run
            /\ cli'[turn.run].proc # "alive"
  PROVE  RunsInv'
<1>1. /\ OpenInv /\ TurnInv /\ AliveInv /\ VerdictInv
  BY DEF RunsInv
<1>2. /\ Open' => Open /\ log'[1] = log[1]
      /\ Open /\ log[1].run \notin slipped' => Open'
  BY DEF Open, Kept
<1>3. OpenInv'
  BY <1>1, <1>2 DEF OpenInv, AtWork
<1>4. TurnInv'
  <2> SUFFICES ASSUME turn'.at \in AtWork, turn'.run \notin slipped'
               PROVE  Open' /\ log'[1].run = turn'.run
    BY DEF TurnInv
  <2>1. turn.at \in AtWork /\ turn'.run = turn.run /\ turn.run \notin slipped
    BY DEF AtWork
  <2>2. Open /\ log[1].run = turn.run
    BY <1>1, <2>1 DEF TurnInv
  <2> QED BY <1>2, <2>1, <2>2
<1>5. AliveInv'
  <2> SUFFICES ASSUME NEW r \in Runs \ slipped', cli'[r].proc = "alive"
               PROVE  Open' /\ log'[1].run = r /\ turn'.at \in {"idle", "poll"}
    BY DEF AliveInv, Alive
  <2>1. Open /\ log[1].run = r /\ turn.at \in {"idle", "poll"}
    BY <1>1 DEF AliveInv
  <2>2. Open' /\ log'[1].run = r
    BY <1>2, <2>1
  <2>3. turn.at = "poll" => turn.run = r
    BY <1>1, <2>1 DEF OpenInv
  <2> QED BY <2>1, <2>2, <2>3
<1>6. VerdictInv'
  BY <1>1 DEF VerdictInv, VerdictOnce
<1> QED BY <1>3, <1>4, <1>5, <1>6 DEF RunsInv

\* A step after which no CLI works but one about which something was lost.
LEMMA RunOver ==
  ASSUME LogInv, RunsInv,
         Kept(log, log'), slipped \subseteq slipped', delivered' = delivered, Runs' = Runs,
         \A r \in Runs \ slipped' : cli'[r].proc # "alive",
         turn'.at \notin AtWork,
         Open' => turn'.at = "idle" /\ turn'.run = 0 /\ (Plain(log) => Plain(log')),
         turn'.at = "verdict" /\ turn'.run \notin slipped' => delivered[turn'.run] = 0
  PROVE  RunsInv'
<1>1. /\ OpenInv /\ TurnInv /\ AliveInv /\ VerdictInv
  BY DEF RunsInv
<1>2. Open' => Open /\ log'[1] = log[1]
  BY DEF Open, Kept
<1>3. OpenInv'
  BY <1>1, <1>2 DEF OpenInv
<1>4. TurnInv' /\ AliveInv'
  BY DEF TurnInv, AliveInv, Alive
<1>5. VerdictInv'
  BY <1>1 DEF VerdictInv, VerdictOnce
<1> QED BY <1>3, <1>4, <1>5 DEF RunsInv

\* The end of a run is on record, or it is one about which a write was lost.
LEMMA EndRecorded ==
  ASSUME DelegatedInv, turn.at \in AtWork, slipped \subseteq slipped',
         NEW ev \in LogEvent, ev.kind \in EndKinds,
         log' = Appended(log, ev) \/ (log' = log /\ turn.run \in slipped')
  PROVE  Kept(log, log') /\ ~Open' /\ (Plain(log) => Plain(log'))
<1>0. /\ log \in Seq(LogEvent) /\ FirstOnly(log) /\ OpenInv
      /\ Open => Plain(log) /\ log[1].run = turn.run /\ Opens(log)
  BY DelegatedTypes DEF DelegatedInv, LogInv, RunsInv, OpenInv, AtWork, Open
<1>1. CASE log' = Appended(log, ev)
  <2>1. ev.kind # "spawned"
    BY DEF EndKinds
  <2>2. /\ Kept(log, log') /\ (Plain(log) => Plain(log'))
        /\ Opens(log) /\ Plain(log) => Over(log')
    BY <1>0, <1>1, <2>1, LoggedEvent
  <2>3. Open' => Open
    BY <2>2 DEF Open, Kept
  <2> QED BY <1>0, <2>2, <2>3 DEF Open
<1>2. CASE log' = log /\ turn.run \in slipped'
  <2>1. Open' => Open /\ log[1].run \notin slipped'
    BY <1>2 DEF Open
  <2>2. ~Open'
    BY <1>0, <1>2, <2>1
  <2>3. Kept(log, log')
    BY <1>0, <1>2 DEF Kept
  <2> QED BY <1>2, <2>2, <2>3
<1> QED BY <1>1, <1>2

\* What a poll logs.
LEMMA PollRecorded ==
  ASSUME DelegatedInv, NEW r \in Runs, NEW n \in 0..End, log' \in Logged(r, n)
  PROVE  log' \in Seq(LogEvent) /\ Kept(log, log') /\ (Over(log') => Over(log)) /\ (Plain(log) => Plain(log'))
<1> DEFINE Same(l, m) == m \in Seq(LogEvent) /\ Kept(l, m) /\ (Over(m) => Over(l)) /\ (Plain(l) => Plain(m))
<1>0. /\ log \in Seq(LogEvent) /\ FirstOnly(log) /\ r \in 0..MaxRuns
  BY DelegatedTypes DEF DelegatedInv, LogInv
<1> DEFINE seen == IF turn.offset < Session /\ n >= Session
                     THEN Appended(log, Event("session", r, 0, FALSE)) ELSE log
<1>1. ASSUME NEW l \in Seq(LogEvent), FirstOnly(l), NEW kind \in {"session", "progress"},
             NEW offset \in 0..End, NEW m, m = Appended(l, Event(kind, r, offset, FALSE))
      PROVE  Same(l, m)
  <2>1. /\ Event(kind, r, offset, FALSE) \in LogEvent
        /\ Event(kind, r, offset, FALSE).kind = kind
    <3>1. kind \in {"spawned", "session", "progress", "result", "died"} /\ FALSE \in BOOLEAN
      OBVIOUS
    <3> HIDE DEF Same
    <3> QED BY <1>0, <3>1 DEF Event, LogEvent
  <2>2. kind # "spawned" /\ kind \notin EndKinds
    BY DEF EndKinds
  <2> HIDE DEF Same
  <2>3. m \in Seq(LogEvent) /\ Kept(l, m) /\ (~Over(l) => ~Over(m)) /\ (Plain(l) => Plain(m))
    <3> DEFINE ev == Event(kind, r, offset, FALSE)
    <3>1. ev \in LogEvent /\ ev.kind # "spawned" /\ ev.kind \notin EndKinds /\ m = Appended(l, ev)
      BY <1>1, <2>1, <2>2
    <3> HIDE DEF ev
    <3> QED BY <1>1, <3>1, LoggedEvent, Zenon
  <2> QED BY <2>3 DEF Same
<1>2. Same(log, log)
  BY <1>0 DEF Kept
<1>3. Same(log, seen)
  <2>1. CASE turn.offset < Session /\ n >= Session
    <3>1. seen = Appended(log, Event("session", r, 0, FALSE)) /\ 0 \in 0..End
      BY <2>1 DEF End
    <3> HIDE DEF Same, seen
    <3> QED BY <1>0, <1>1, <3>1
  <2>2. CASE ~(turn.offset < Session /\ n >= Session)
    <3>1. seen = log
      BY <2>2
    <3> HIDE DEF Same, seen
    <3> QED BY <1>2, <3>1
  <2> QED BY <2>1, <2>2
<1>4. log' \in {seen, Appended(seen, Event("progress", r, n, FALSE))}
  BY DEF Logged
<1> HIDE DEF seen
<1>5. CASE log' = seen
  BY <1>3, <1>5
<1>6. CASE log' = Appended(seen, Event("progress", r, n, FALSE))
  <2>1. seen \in Seq(LogEvent) /\ FirstOnly(seen)
    BY <1>3 DEF Kept
  <2>2. Same(seen, log')
    <3> HIDE DEF Same
    <3> QED BY <1>1, <1>6, <2>1
  <2>3. Kept(log, log')
    BY <1>3, <2>2 DEF Kept
  <2> QED BY <1>3, <2>2, <2>3
<1> QED BY <1>4, <1>5, <1>6

\* How far a poll's tail reaches.
LEMMA TailReach ==
  ASSUME DelegatedTypeOK, NEW r \in Runs
  PROVE  ReadTo(r) \in 0..End /\ turn.offset <= ReadTo(r)
<1>1. /\ turn.offset \in 0..End /\ cli[r].written \in 0..End /\ TailCap \in Nat
  BY DelegatedTypes, CapAssumption DEF TurnType, Cli
<1> DEFINE S == Unread(r)
<1>2. S \subseteq (turn.offset + 1)..End
  BY <1>1 DEF Unread, End
<1>3. turn.offset + 1 \in Int /\ End \in Int /\ turn.offset \in Nat /\ turn.offset <= End
  BY <1>1 DEF End
<1>4. /\ IsFiniteSet((turn.offset + 1)..End)
      /\ Cardinality((turn.offset + 1)..End) = IF turn.offset + 1 > End THEN 0 ELSE End - (turn.offset + 1) + 1
  BY <1>3, FS_Interval
<1>5. Cardinality((turn.offset + 1)..End) = End - turn.offset
  BY <1>3, <1>4
<1>6. Cardinality(S) \in Nat /\ Cardinality(S) <= End - turn.offset
  BY <1>2, <1>4, <1>5, FS_Subset, FS_CardinalityType
<1> HIDE DEF S
<1>7. ReadTo(r) = turn.offset + Cardinality(S)
  BY DEF ReadTo, S
<1> QED BY <1>3, <1>6, <1>7

\* The steps beside a worker's turn, and those that only read or let go.
LEMMA QuietSteps ==
  ASSUME DelegatedInv,
         \/ Unreachable \/ Restart \/ Recreate \/ IdleKill \/ UNCHANGED delegatedVars
         \/ \E r \in Runs : Write(r) \/ Exit(r)
         \/ \E e \in Entries : CredentialFails(e) \/ CoolingEnds(e)
  PROVE  RunsInv'
<1> USE DEF sandbox, runHistory, runBounds
<1>0. /\ LogInv /\ RunsInv /\ FirstOnly(log)
      /\ Runs = 1..Len(cli) /\ \A r \in Runs : cli[r] \in Cli
  BY DelegatedTypes DEF DelegatedInv, LogInv
<1>1. Runs = DOMAIN cli
  BY DEF Runs
<1>2. log' = log /\ delivered' = delivered /\ slipped \subseteq slipped'
  BY DEF Unreachable, Restart, Recreate, IdleKill, Kill, Slip, NoSlip, Write, Exit, CredentialFails,
    CoolingEnds, delegatedVars
<1>3. Kept(log, log') /\ (Over(log') => Over(log)) /\ (Plain(log) => Plain(log'))
  BY <1>0, <1>2 DEF Kept
<1>4. \/ turn'.at = "idle" /\ turn'.run = 0
      \/ turn'.at = turn.at /\ turn'.run = turn.run
  BY DEF Unreachable, Restart, Recreate, IdleKill, Write, Exit, CredentialFails,
    CoolingEnds, delegatedVars, Ends, NoTurn
<1>5. DOMAIN cli' = DOMAIN cli /\ \A r \in DOMAIN cli : cli'[r].proc = "alive" => cli[r].proc = "alive"
  <2>1. CASE cli' = cli
    BY <2>1
  <2>2. ASSUME NEW r \in Runs, Write(r) \/ Exit(r)
        PROVE  DOMAIN cli' = DOMAIN cli /\ \A q \in DOMAIN cli : cli'[q].proc = "alive" => cli[q].proc = "alive"
    <3>1. cli[r] \in Cli /\ cli[r].proc = "alive"
      BY <1>0, <2>2 DEF Write, Exit, Alive
    <3>2. DOMAIN cli' = DOMAIN cli /\ \A q \in DOMAIN cli : q # r => cli'[q] = cli[q]
      BY <2>2 DEF Write, Exit
    <3> QED BY <3>1, <3>2
  <2>3. CASE Recreate
    <3>1. cli' = [r \in Runs |-> IF Alive(r) THEN [cli[r] EXCEPT !.proc = "lost"] ELSE cli[r]]
      BY <2>3 DEF Recreate
    <3>2. \A r \in Runs : cli[r] \in Cli => [cli[r] EXCEPT !.proc = "lost"].proc = "lost"
      BY DEF Cli
    <3>3. \A r \in Runs : cli'[r].proc = "alive" => cli[r].proc = "alive"
      BY <1>0, <3>1, <3>2 DEF Alive
    <3> QED BY <1>1, <3>1, <3>3
  <2>4. CASE IdleKill
    <3>1. \/ cli' = cli
          \/ cli' = [cli EXCEPT ![turn.run].proc = IF @ = "alive" THEN "lost" ELSE @]
      BY <2>4 DEF IdleKill, Kill
    <3>2. DOMAIN cli' = DOMAIN cli /\ \A q \in DOMAIN cli : q # turn.run => cli'[q] = cli[q]
      BY <3>1
    <3>3. turn.run \in DOMAIN cli => cli'[turn.run] = cli[turn.run] \/ cli'[turn.run].proc # "alive"
      BY <1>0, <1>1, <3>1 DEF Cli
    <3> QED BY <3>2, <3>3
  <2>5. CASE Unreachable \/ Restart \/ UNCHANGED delegatedVars
    BY <2>1, <2>5 DEF Unreachable, Restart, delegatedVars
  <2>6. ASSUME NEW e \in Entries, CredentialFails(e) \/ CoolingEnds(e) PROVE cli' = cli
    BY <2>6 DEF CredentialFails, CoolingEnds
  <2> QED BY <2>1, <2>2, <2>3, <2>4, <2>5, <2>6
<1>6. Runs' = Runs /\ \A r \in Runs \ slipped' : cli'[r].proc = "alive" => Alive(r)
  BY <1>1, <1>5 DEF Runs, Alive
<1> QED BY <1>0, <1>2, <1>3, <1>4, <1>6, RunHeld

\* A poll.
LEMMA PollStep ==
  ASSUME DelegatedInv, Poll
  PROVE  RunsInv'
<1> USE DEF sandbox, runHistory, runBounds
<1> DEFINE r == turn.run
           n == ReadTo(r)
<1>0. /\ DelegatedTypeOK /\ LogInv /\ RunsInv /\ FirstOnly(log) /\ log \in Seq(LogEvent)
      /\ turn \in TurnType
  BY DelegatedTypes DEF DelegatedInv, LogInv
<1>1. turn.at = "poll" /\ r \in Runs
  BY <1>0 DEF Poll, LogInv, AtWork
<1>2. n \in 0..End
  BY <1>0, <1>1, TailReach
<1>3. /\ log' \in (IF n > turn.offset THEN Logged(r, n) ELSE {log})
      /\ turn' = [turn EXCEPT !.offset = n, !.at = AfterPoll(r, n)]
      /\ cli' = cli /\ delivered' = delivered /\ slipped' = slipped
  BY DEF Poll
<1> HIDE DEF n, r
<1>4. Kept(log, log') /\ (Over(log') => Over(log)) /\ (Plain(log) => Plain(log'))
  <2>1. CASE n > turn.offset
    BY <1>1, <1>2, <1>3, <2>1, PollRecorded
  <2>2. CASE ~(n > turn.offset)
    BY <1>0, <1>3, <2>2 DEF Kept
  <2> QED BY <2>1, <2>2
<1>5. turn'.at = AfterPoll(r, n) /\ turn'.run = r
  BY <1>0, <1>3 DEF TurnType, r
<1>6. AfterPoll(r, n) = "poll" \/ (AfterPoll(r, n) \in {"finish", "dead"} /\ cli[r].proc # "alive")
  BY DEF AfterPoll, Alive
<1>7. Runs' = Runs /\ \A q \in Runs \ slipped' : cli'[q].proc = "alive" => Alive(q)
  BY <1>3 DEF Runs, Alive
<1>8. \/ turn'.at = turn.at /\ turn'.run = turn.run
      \/ turn.at = "poll" /\ turn'.at \in {"finish", "dead"} /\ turn'.run = turn.run
         /\ cli'[turn.run].proc # "alive"
  BY <1>1, <1>3, <1>5, <1>6 DEF r
<1> QED BY <1>0, <1>3, <1>4, <1>7, <1>8, RunHeld

\* The steps that end a run.
LEMMA EndSteps ==
  ASSUME DelegatedInv, LaunchFails \/ Cancel \/ Rejected \/ FinishRun \/ Dead
  PROVE  RunsInv'
<1> USE DEF sandbox, runHistory, runBounds
<1> DEFINE r == turn.run
<1>0. /\ DelegatedTypeOK /\ LogInv /\ RunsInv /\ OpenInv /\ TurnInv /\ AliveInv
      /\ turn \in TurnType /\ Runs = DOMAIN cli
      /\ \A q \in Runs : cli[q] \in Cli
  BY DelegatedTypes DEF DelegatedInv, RunsInv, Runs
<1>1. turn.at \in AtWork /\ r \in Runs /\ r \in 0..MaxRuns
  <2>1. turn.at \in AtWork
    BY DEF LaunchFails, Cancel, Rejected, FinishRun, Dead, AtWork
  <2> QED BY <1>0, <2>1, DelegatedTypes DEF LogInv
<1>2. slipped \subseteq slipped' /\ delivered' = delivered
  BY DEF LaunchFails, Cancel, Rejected, FinishRun, Dead, Kill, Record, Slip, NoSlip
<1>3. \E kind \in EndKinds, reset \in BOOLEAN :
        \/ log' = Appended(log, Event(kind, r, 0, reset))
        \/ log' = log /\ r \in slipped'
  <2>1. \A kind, reset : Record(r, Event(kind, r, 0, reset)) =>
          \/ log' = Appended(log, Event(kind, r, 0, reset))
          \/ log' = log /\ r \in slipped'
    BY DEF Record, Slip
  <2>2. CASE Rejected \/ FinishRun \/ Dead
    BY <2>1, <2>2 DEF Rejected, FinishRun, Dead, EndKinds
  <2>3. CASE LaunchFails \/ Cancel
    BY <2>3 DEF LaunchFails, Cancel, EndKinds
  <2> QED BY <2>2, <2>3
<1>4. Kept(log, log') /\ ~Open' /\ (Plain(log) => Plain(log'))
  <2>1. PICK kind \in EndKinds, reset \in BOOLEAN :
          \/ log' = Appended(log, Event(kind, r, 0, reset))
          \/ log' = log /\ r \in slipped'
    BY <1>3
  <2>2. Event(kind, r, 0, reset) \in LogEvent /\ Event(kind, r, 0, reset).kind \in EndKinds
    <3>1. kind \in {"spawned", "session", "progress", "result", "died"} /\ 0 \in 0..End
      BY DEF EndKinds, End
    <3> QED BY <1>1, <3>1, Events
  <2> QED BY <1>1, <1>2, <2>1, <2>2, EndRecorded
<1>5. Runs' = Runs /\ \A q \in Runs \ slipped' : cli'[q].proc # "alive"
  <2>1. turn.at # "poll" => \A q \in Runs \ slipped : cli[q].proc # "alive"
    BY <1>0, <1>1 DEF AliveInv, Alive, AtWork
  <2>2. CASE cli' = cli /\ turn.at # "poll"
    BY <1>2, <2>1, <2>2 DEF Runs
  <2>3. CASE LaunchFails /\ cli' # cli
    <3>1. cli' = [cli EXCEPT ![r].proc = "alive"] /\ r \in slipped' /\ turn.at = "launch"
      BY <2>3 DEF LaunchFails, Started, Slip
    <3>2. DOMAIN cli' = DOMAIN cli /\ \A q \in DOMAIN cli : q # r => cli'[q] = cli[q]
      BY <3>1
    <3> QED BY <1>0, <1>2, <2>1, <3>1, <3>2 DEF Runs
  <2>4. CASE Cancel
    <3>1. \A q \in Runs \ slipped : cli[q].proc = "alive" => q = r
      BY <1>0, <1>1 DEF AliveInv, OpenInv, Alive, AtWork
    <3>2. \/ cli' = [cli EXCEPT ![r].proc = IF @ = "alive" THEN "lost" ELSE @]
          \/ cli' = cli /\ r \in slipped'
      BY <2>4 DEF Cancel, Kill, Slip
    <3>3. CASE cli' = cli /\ r \in slipped'
      BY <1>2, <3>1, <3>3 DEF Runs
    <3>4. CASE cli' = [cli EXCEPT ![r].proc = IF @ = "alive" THEN "lost" ELSE @]
      <4>1. DOMAIN cli' = DOMAIN cli /\ \A q \in DOMAIN cli : q # r => cli'[q] = cli[q]
        BY <3>4
      <4>2. cli'[r].proc # "alive"
        BY <1>0, <1>1, <3>4 DEF Cli
      <4> QED BY <1>0, <1>2, <3>1, <4>1, <4>2 DEF Runs
    <3> QED BY <3>2, <3>3, <3>4
  <2>5. CASE Rejected \/ FinishRun \/ Dead \/ (LaunchFails /\ cli' = cli)
    <3>1. cli' = cli /\ turn.at # "poll"
      BY <2>5 DEF Rejected, FinishRun, Dead, LaunchFails
    <3> QED BY <2>2, <3>1
  <2> QED BY <2>3, <2>4, <2>5
<1>6. /\ turn'.at \notin AtWork
      /\ turn'.at = "verdict" => turn'.run = r
  <2>1. CASE turn' = NoTurn
    BY <2>1 DEF NoTurn, AtWork
  <2>2. CASE FinishRun
    BY <1>0, <2>2 DEF FinishRun, NoTurn, AtWork, TurnType
  <2> QED BY <2>1, <2>2 DEF LaunchFails, Cancel, Rejected, Dead, Ends
<1>7. r \notin slipped' => delivered[r] = 0
  BY <1>0, <1>1, <1>2 DEF TurnInv, OpenInv
<1> HIDE DEF r
<1> QED BY <1>0, <1>2, <1>4, <1>5, <1>6, <1>7, RunOver

\* How a turn begins: by going on with the open run, or by giving it up.
LEMMA BeginSteps ==
  ASSUME DelegatedInv, \E e \in Entries : Attach(e) \/ LostRun(e) \/ Plan(e)
  PROVE  RunsInv'
<1> USE DEF sandbox, runHistory, runBounds
<1>0. /\ DelegatedTypeOK /\ LogInv /\ RunsInv /\ OpenInv /\ AliveInv /\ VerdictInv
      /\ log \in Seq(LogEvent) /\ FirstOnly(log)
      /\ Unfinished => Opens(log) /\ ~Over(log) /\ LastRun.run = log[1].run /\ LastRun.run \in Runs
      /\ ~Unfinished => ~Open
      /\ Runs \subseteq Ids /\ Ids \subseteq 0..MaxRuns
  BY DelegatedTypes, LastRunRead DEF DelegatedInv, RunsInv, LogInv
<1>1. \A q \in Runs \ slipped : cli[q].proc = "alive" => Unfinished /\ q = LastRun.run
  BY <1>0 DEF AliveInv, Alive
<1>2. ASSUME NEW e \in Entries, Attach(e) PROVE RunsInv'
  <2>1. /\ Unfinished /\ turn.at = "idle"
        /\ log' = log /\ cli' = cli /\ slipped' = slipped /\ delivered' = delivered
        /\ turn'.at = "poll" /\ turn'.run = LastRun.run
    BY <1>2 DEF Attach, Pick, NoTurn
  <2>2. Runs' = Runs /\ (Open' <=> Open)
    BY <2>1 DEF Runs, Open
  <2>3. OpenInv'
    BY <1>0, <2>1, <2>2 DEF OpenInv, AtWork
  <2>4. TurnInv'
    BY <1>0, <2>1 DEF TurnInv, Open
  <2>5. AliveInv'
    BY <1>0, <2>1, <2>2 DEF AliveInv, Alive
  <2>6. VerdictInv'
    BY <1>0, <2>1, <2>2 DEF VerdictInv, VerdictOnce
  <2> QED BY <2>3, <2>4, <2>5, <2>6 DEF RunsInv
<1>3. ASSUME NEW e \in Entries, LostRun(e) PROVE RunsInv'
  <2> DEFINE ev == Event("died", LastRun.run, 0, FALSE)
  <2>1. /\ Unfinished /\ cli' = cli /\ delivered' = delivered /\ turn' = NoTurn
        /\ slipped \subseteq slipped'
        /\ cli[LastRun.run].proc = "none" \/ LastRun.run \in slipped'
        /\ log' = log \/ log' = Appended(log, ev)
    BY <1>3 DEF LostRun, Ends, Record, Slip, NoSlip
  <2>2. ev \in LogEvent /\ ev.kind = "died"
    <3>1. LastRun.run \in 0..MaxRuns
      BY <1>0, <2>1
    <3>2. 0 \in 0..End
      BY DEF End
    <3> QED BY <3>1, <3>2 DEF Event, LogEvent
  <2> HIDE DEF ev
  <2>3. Kept(log, log') /\ (Plain(log) => Plain(log'))
    <3>1. CASE log' = log
      BY <1>0, <3>1 DEF Kept
    <3>2. CASE log' = Appended(log, ev)
      BY <1>0, <2>2, <3>2, LoggedEvent
    <3> QED BY <2>1, <3>1, <3>2
  <2>4. \A q \in Runs \ slipped' : cli'[q].proc # "alive"
    BY <1>1, <2>1
  <2>5. turn'.at = "idle" /\ turn'.run = 0 /\ Runs' = Runs
    BY <2>1 DEF NoTurn, Runs
  <2> QED BY <1>0, <2>1, <2>3, <2>4, <2>5, RunOver DEF AtWork
<1>4. ASSUME NEW e \in Entries, Plan(e) PROVE RunsInv'
  <2>1. /\ log' = log /\ cli' = cli /\ delivered' = delivered /\ slipped \subseteq slipped'
        /\ Unfinished => LastRun.run \in slipped'
        /\ turn'.at = "spawn"
    BY <1>4 DEF Plan, Slip, NoSlip, NoTurn
  <2>2. Kept(log, log')
    BY <1>0, <2>1 DEF Kept
  <2>3. ~Open'
    <3>1. Open' => Open /\ log[1].run \notin slipped'
      BY <2>1 DEF Open
    <3> QED BY <1>0, <2>1, <3>1
  <2>4. \A q \in Runs \ slipped' : cli'[q].proc # "alive"
    BY <1>1, <2>1
  <2>5. Runs' = Runs
    BY <2>1 DEF Runs
  <2> QED BY <1>0, <2>1, <2>2, <2>3, <2>4, <2>5, RunOver DEF AtWork
<1> QED BY <1>2, <1>3, <1>4

\* A launch is on record before it happens.
LEMMA SpawnStep ==
  ASSUME DelegatedInv, Spawn
  PROVE  RunsInv'
<1> USE DEF sandbox, runHistory, runBounds
<1> DEFINE r == Len(cli) + 1
           ev == Event("spawned", r, 0, FALSE)
<1>0. /\ LogInv /\ RunsInv /\ OpenInv /\ AliveInv /\ VerdictInv
      /\ turn \in TurnType /\ Runs = DOMAIN cli /\ Runs = 1..Len(cli) /\ Len(cli) \in Nat
      /\ cli \in Seq(Cli)
  BY DelegatedTypes DEF DelegatedInv, RunsInv, Runs
<1>1. /\ turn.at = "spawn" /\ r <= MaxRuns
      /\ cli' = Append(cli, [proc |-> "none", written |-> 0])
      /\ turn' = [turn EXCEPT !.at = "launch", !.run = r]
      /\ delivered' = delivered
      /\ \/ log' = Appended(log, ev) /\ slipped' = slipped
         \/ log' = log /\ slipped' = slipped \cup {r}
  BY DEF Spawn, Record, Slip, NoSlip
<1>2. r \in Ids /\ r \notin Runs /\ r \in 0..MaxRuns /\ MaxRuns \in Nat
  BY <1>0, <1>1, RunBoundsAssumption DEF Ids
<1>3. ev \in LogEvent /\ ev.kind = "spawned" /\ ev.phase = "build" /\ ev.run = r
  <2>1. 0 \in 0..End
    BY DEF End
  <2> HIDE DEF r
  <2> QED BY <1>2, <2>1 DEF Event, LogEvent
<1>4. /\ Runs' = Runs \cup {r} /\ cli'[r].proc = "none" /\ \A q \in Runs : cli'[q] = cli[q]
  <2>1. DOMAIN cli' = 1..r /\ cli'[r] = [proc |-> "none", written |-> 0]
        /\ \A q \in DOMAIN cli : cli'[q] = cli[q]
    BY <1>0, <1>1
  <2>2. 1..r = (1..Len(cli)) \cup {r}
    BY <1>0
  <2> QED BY <1>0, <2>1, <2>2 DEF Runs
<1>5. turn'.at = "launch" /\ turn'.run = r
  BY <1>0, <1>1 DEF TurnType
<1>6. ~Open
  BY <1>0, <1>1 DEF OpenInv, AtWork
<1>7. delivered[r] = 0
  BY <1>0, <1>2 DEF VerdictInv
<1>8. slipped \subseteq slipped'
  BY <1>1
<1> HIDE DEF r, ev
<1>9. AliveInv'
  <2>1. \A q \in Runs \ slipped : cli[q].proc # "alive"
    BY <1>0, <1>6 DEF AliveInv, Alive
  <2>2. \A q \in Runs' \ slipped' : cli'[q].proc # "alive"
    BY <1>4, <1>8, <2>1
  <2> QED BY <2>2 DEF AliveInv, Alive
<1>10. VerdictInv'
  BY <1>0, <1>1, <1>4, <1>5, <1>8 DEF VerdictInv, VerdictOnce
<1>11. CASE log' = Appended(log, ev) /\ slipped' = slipped
  <2>1. Opens(log') /\ log'[1] = ev /\ ~Over(log') /\ Plain(log')
    BY <1>3, <1>11, LoggedLaunch
  <2>2. OpenInv'
    BY <1>1, <1>3, <1>5, <1>7, <2>1 DEF OpenInv, AtWork
  <2>3. TurnInv'
    BY <1>3, <1>5, <2>1 DEF TurnInv, Open
  <2> QED BY <1>9, <1>10, <2>2, <2>3 DEF RunsInv
<1>12. CASE log' = log /\ slipped' = slipped \cup {r}
  <2>1. ~Open'
    BY <1>6, <1>12 DEF Open
  <2>2. OpenInv' /\ TurnInv'
    BY <1>5, <1>12, <2>1 DEF OpenInv, TurnInv
  <2> QED BY <1>9, <1>10, <2>2 DEF RunsInv
<1> QED BY <1>1, <1>11, <1>12

\* The CLI is launched and polled.
LEMMA LaunchStep ==
  ASSUME DelegatedInv, Launch
  PROVE  RunsInv'
<1> USE DEF sandbox, runHistory, runBounds
<1> DEFINE r == turn.run
<1>0. /\ LogInv /\ RunsInv /\ OpenInv /\ TurnInv /\ AliveInv /\ VerdictInv
      /\ turn \in TurnType /\ Runs = DOMAIN cli
  BY DelegatedTypes DEF DelegatedInv, RunsInv, Runs
<1>1. /\ turn.at = "launch" /\ log' = log /\ slipped' = slipped /\ delivered' = delivered
      /\ cli' = [cli EXCEPT ![r].proc = "alive"]
      /\ turn' = [turn EXCEPT !.at = "poll", !.from = 0, !.offset = 0]
  BY DEF Launch, Started
<1>2. turn'.at = "poll" /\ turn'.run = r
  BY <1>0, <1>1 DEF TurnType
<1>3. Runs' = Runs /\ \A q \in Runs : q # r => cli'[q] = cli[q]
  BY <1>0, <1>1 DEF Runs
<1> HIDE DEF r
<1>4. Open' <=> Open
  BY <1>1 DEF Open
<1>5. OpenInv'
  BY <1>0, <1>1, <1>2, <1>4 DEF OpenInv, AtWork, r
<1>6. TurnInv'
  BY <1>0, <1>1, <1>2, <1>4 DEF TurnInv, AtWork, r
<1>7. AliveInv'
  <2>1. \A q \in Runs \ slipped : cli[q].proc # "alive"
    BY <1>0, <1>1 DEF AliveInv, Alive
  <2>2. \A q \in Runs \ slipped : cli'[q].proc = "alive" => q = r
    BY <1>3, <2>1
  <2>3. r \notin slipped => Open' /\ log'[1].run = r
    BY <1>1, <1>2, <1>6 DEF TurnInv, AtWork
  <2> QED BY <1>1, <1>2, <1>3, <2>2, <2>3 DEF AliveInv, Alive
<1>8. VerdictInv'
  BY <1>0, <1>1, <1>2, <1>3 DEF VerdictInv, VerdictOnce
<1> QED BY <1>5, <1>6, <1>7, <1>8 DEF RunsInv

\* The driver gets the verdict, and a review of delivered work may run.
LEMMA VerdictSteps ==
  ASSUME DelegatedInv, Deliver \/ ReviewRun
  PROVE  RunsInv'
<1> USE DEF sandbox, runHistory, runBounds
<1>0. /\ DelegatedTypeOK /\ LogInv /\ RunsInv /\ OpenInv /\ TurnInv /\ AliveInv /\ VerdictInv
      /\ turn \in TurnType /\ log \in Seq(LogEvent) /\ FirstOnly(log)
      /\ delivered \in [Ids -> Nat] /\ Runs \subseteq Ids
  BY DelegatedTypes DEF DelegatedInv, RunsInv, LogInv, DelegatedTypeOK
<1>1. ~Open
  BY <1>0 DEF Deliver, ReviewRun, OpenInv, AtWork
<1>2. \A q \in Runs \ slipped : cli[q].proc # "alive"
  BY <1>0, <1>1 DEF AliveInv, Alive
<1>3. cli' = cli /\ slipped' = slipped /\ Runs' = Runs
  BY DEF Deliver, ReviewRun, Runs
<1>4. CASE Deliver
  <2> DEFINE r == turn.run
  <2>1. /\ turn.at = "verdict" /\ log' = log
        /\ delivered' = [delivered EXCEPT ![r] = @ + 1]
        /\ turn' = [NoTurn EXCEPT !.run = r]
    BY <1>4 DEF Deliver
  <2>2. turn'.at = "idle" /\ r \in Runs
    BY <1>0, <2>1 DEF NoTurn, LogInv
  <2> HIDE DEF r
  <2>3. ~Open'
    BY <1>1, <1>3, <2>1 DEF Open
  <2>4. OpenInv' /\ TurnInv'
    BY <2>2, <2>3 DEF OpenInv, TurnInv, AtWork
  <2>5. AliveInv'
    BY <1>2, <1>3 DEF AliveInv, Alive
  <2>6. /\ \A q \in Ids : q # r => delivered'[q] = delivered[q]
        /\ r \notin slipped => delivered'[r] = 1
    <3>1. r \notin slipped => delivered[r] = 0
      BY <1>0, <2>1 DEF VerdictInv, r
    <3>2. delivered'[r] = delivered[r] + 1 /\ \A q \in Ids : q # r => delivered'[q] = delivered[q]
      BY <1>0, <2>1, <2>2
    <3> QED BY <3>1, <3>2
  <2>7. VerdictInv'
    BY <1>0, <1>3, <2>2, <2>6 DEF VerdictInv, VerdictOnce
  <2> QED BY <2>4, <2>5, <2>7 DEF RunsInv
<1>5. CASE ReviewRun
  <2>1. /\ turn.at = "idle" /\ turn' = turn /\ delivered' = delivered
        /\ \E tail \in {<<>>, <<Review("result")>>, <<Review("died")>>} :
             log' = log \o <<Review("spawned")>> \o tail
    BY <1>5 DEF ReviewRun
  <2>2. Kept(log, log')
    BY <1>0, <2>1, LoggedReview
  <2>3. ~Open'
    BY <1>1, <1>3, <2>2 DEF Open, Kept
  <2> QED BY <1>0, <1>2, <1>3, <2>1, <2>2, <2>3, RunOver DEF AtWork
<1> QED BY <1>4, <1>5

\* Every step keeps the runs in order.
LEMMA RunsStep ==
  ASSUME DelegatedInv, [DelegatedNext]_delegatedVars
  PROVE  RunsInv'
BY QuietSteps, PollStep, EndSteps, BeginSteps, SpawnStep, LaunchStep, VerdictSteps DEF DelegatedNext, Turn

\* What a step does to the log: an event of the worker, a review, a launch.
LEMMA LogMoves ==
  ASSUME DelegatedInv, [DelegatedNext]_delegatedVars
  PROVE  /\ log' \in Seq(LogEvent)
         /\ \/ Kept(log, log')
            \/ Spawn /\ FirstOnly(log') /\ log'[1].run = Len(cli) + 1
<1> USE DEF sandbox, runHistory, runBounds
<1>0. /\ DelegatedTypeOK /\ LogInv /\ log \in Seq(LogEvent) /\ FirstOnly(log) /\ Kept(log, log)
      /\ Runs = 1..Len(cli) /\ Len(cli) \in Nat
      /\ turn.at \in AtWork => turn.run \in Runs /\ turn.run \in 0..MaxRuns
      /\ Unfinished => LastRun.run \in 0..MaxRuns
  BY DelegatedTypes, LastRunRead DEF DelegatedInv, LogInv, Kept
<1>1. 0 \in 0..End /\ MaxRuns \in Nat
  BY RunBoundsAssumption DEF End
<1>2. CASE log' = log
  BY <1>0, <1>2
<1>3. ASSUME NEW kind \in EndKinds, NEW r \in 0..MaxRuns, NEW reset \in BOOLEAN,
             log' = Appended(log, Event(kind, r, 0, reset))
      PROVE  log' \in Seq(LogEvent) /\ Kept(log, log')
  <2>1. Event(kind, r, 0, reset) \in LogEvent /\ Event(kind, r, 0, reset).kind # "spawned"
    BY <1>1 DEF Event, LogEvent, EndKinds
  <2> QED BY <1>0, <1>3, <2>1, LoggedEvent
<1>4. CASE Spawn
  <2> DEFINE r == Len(cli) + 1
             ev == Event("spawned", r, 0, FALSE)
  <2>0. log' \in {log, Appended(log, ev)}
    BY <1>4 DEF Spawn, Record
  <2>1. r \in 0..MaxRuns
    <3>1. r <= MaxRuns
      BY <1>4 DEF Spawn
    <3> QED BY <1>0, <1>1, <3>1
  <2> HIDE DEF r
  <2>2. ev \in LogEvent /\ ev.kind = "spawned" /\ ev.phase = "build" /\ ev.run = r
    BY <1>1, <2>1 DEF Event, LogEvent
  <2> HIDE DEF ev
  <2>3. CASE log' = Appended(log, ev)
    <3>1. log' \in Seq(LogEvent) /\ FirstOnly(log') /\ log'[1] = ev
      BY <2>2, <2>3, LoggedLaunch
    <3> QED BY <1>4, <2>2, <3>1 DEF r
  <2> QED BY <1>2, <2>0, <2>3
<1>5. CASE Poll
  <2>1. turn.run \in Runs
    BY <1>0, <1>5 DEF Poll, AtWork
  <2>2. ReadTo(turn.run) \in 0..End
    BY <1>0, <2>1, TailReach
  <2>3. log' = log \/ log' \in Logged(turn.run, ReadTo(turn.run))
    BY <1>5 DEF Poll
  <2> QED BY <1>2, <2>1, <2>2, <2>3, PollRecorded
<1>6. CASE LaunchFails \/ Cancel \/ Rejected \/ FinishRun \/ Dead
  <2>1. turn.run \in 0..MaxRuns
    BY <1>0, <1>6 DEF LaunchFails, Cancel, Rejected, FinishRun, Dead, AtWork
  <2>2. \/ log' = log
        \/ \E kind \in EndKinds, reset \in BOOLEAN : log' = Appended(log, Event(kind, turn.run, 0, reset))
    <3>1. \A kind, reset : Record(turn.run, Event(kind, turn.run, 0, reset)) =>
            log' = log \/ log' = Appended(log, Event(kind, turn.run, 0, reset))
      BY DEF Record
    <3>2. CASE Rejected \/ FinishRun \/ Dead
      BY <3>1, <3>2 DEF Rejected, FinishRun, Dead, EndKinds
    <3>3. CASE LaunchFails \/ Cancel
      BY <3>3 DEF LaunchFails, Cancel, EndKinds
    <3> QED BY <1>6, <3>2, <3>3
  <2> QED BY <1>2, <1>3, <2>1, <2>2
<1>7. CASE ReviewRun
  <2>1. \E tail \in {<<>>, <<Review("result")>>, <<Review("died")>>} :
          log' = log \o <<Review("spawned")>> \o tail
    BY <1>7 DEF ReviewRun
  <2> QED BY <1>0, <2>1, LoggedReview
<1>8. ASSUME NEW e \in Entries, LostRun(e) PROVE log' \in Seq(LogEvent) /\ Kept(log, log')
  <2>1. LastRun.run \in 0..MaxRuns
    BY <1>0, <1>8 DEF LostRun
  <2>2. log' = log \/ log' = Appended(log, Event("died", LastRun.run, 0, FALSE))
    BY <1>8 DEF LostRun, Record
  <2>3. "died" \in EndKinds /\ FALSE \in BOOLEAN
    BY DEF EndKinds
  <2>4. CASE log' = Appended(log, Event("died", LastRun.run, 0, FALSE))
    <3> DEFINE q == LastRun.run
    <3> HIDE DEF q
    <3>1. q \in 0..MaxRuns /\ log' = Appended(log, Event("died", q, 0, FALSE))
      BY <2>1, <2>4 DEF q
    <3> QED BY <1>3, <2>3, <3>1
  <2> QED BY <1>0, <2>2, <2>4
<1>9. CASE Launch \/ IdleKill \/ Deliver \/ Unreachable \/ Restart \/ Recreate \/ UNCHANGED delegatedVars
  BY <1>2, <1>9 DEF Launch, IdleKill, Deliver, Unreachable, Restart, Recreate, delegatedVars
<1>10. ASSUME NEW r \in Runs, Write(r) \/ Exit(r) PROVE log' = log
  BY <1>10 DEF Write, Exit
<1>11. ASSUME NEW e \in Entries, Attach(e) \/ CredentialFails(e) \/ Plan(e) \/ CoolingEnds(e)
       PROVE  log' = log
  BY <1>11 DEF Attach, CredentialFails, Plan, CoolingEnds
<1> QED BY <1>2, <1>4, <1>5, <1>6, <1>7, <1>8, <1>9, <1>10, <1>11 DEF DelegatedNext, Turn

\* What a step does to the runs in the sandbox.
LEMMA CliMoves ==
  ASSUME DelegatedInv, [DelegatedNext]_delegatedVars
  PROVE  /\ cli' \in Seq(Cli) /\ Len(cli') <= MaxRuns /\ Runs \subseteq Runs'
         /\ Spawn => Len(cli) + 1 \in Runs'
<1> USE DEF sandbox, runHistory, runBounds
<1>0. /\ cli \in Seq(Cli) /\ Len(cli) \in Nat /\ Len(cli) <= MaxRuns /\ MaxRuns \in Nat
      /\ Runs = DOMAIN cli /\ Runs = 1..Len(cli) /\ \A r \in Runs : cli[r] \in Cli
      /\ turn.at \in AtWork \cup {"verdict"} => turn.run \in Runs
  BY DelegatedTypes DEF DelegatedInv, LogInv, Runs
<1> DEFINE Goal == cli' \in Seq(Cli) /\ Len(cli') <= MaxRuns /\ Runs \subseteq Runs'
<1>1. cli' = cli => Goal
  BY <1>0 DEF Runs
<1>2. ASSUME NEW r \in Runs, NEW c \in Cli, cli' = [cli EXCEPT ![r] = c] PROVE Goal
  <2>1. cli' \in Seq(Cli) /\ Len(cli') = Len(cli) /\ DOMAIN cli' = DOMAIN cli
    BY <1>0, <1>2
  <2> QED BY <1>0, <2>1 DEF Runs
<1>3. ASSUME NEW r \in Runs, Write(r) PROVE Goal
  <2>1. cli[r] \in Cli /\ cli[r].written + 1 \in 0..End
    BY <1>0, <1>3 DEF Write, Cli, End
  <2>2. [cli[r] EXCEPT !.written = @ + 1] \in Cli
    BY <2>1 DEF Cli
  <2>3. cli' = [cli EXCEPT ![r] = [cli[r] EXCEPT !.written = @ + 1]]
    BY <1>3 DEF Write
  <2> HIDE DEF Goal
  <2> QED BY <1>2, <2>2, <2>3
<1>4. ASSUME NEW r \in Runs, NEW p \in {"alive", "exited", "lost"},
             cli' = [cli EXCEPT ![r].proc = p]
      PROVE  Goal
  <2>1. [cli[r] EXCEPT !.proc = p] \in Cli
    BY <1>0 DEF Cli
  <2>2. cli' = [cli EXCEPT ![r] = [cli[r] EXCEPT !.proc = p]]
    BY <1>4
  <2> HIDE DEF Goal
  <2> QED BY <1>2, <2>1, <2>2
<1>5. ASSUME NEW r \in Runs, Exit(r) PROVE Goal
  BY <1>4, <1>5 DEF Exit
<1>6. ASSUME Launch \/ LaunchFails PROVE Goal
  <2> DEFINE r == turn.run
  <2>1. r \in Runs
    BY <1>0, <1>6 DEF Launch, LaunchFails, AtWork
  <2>2. cli' = [cli EXCEPT ![r].proc = "alive"] \/ cli' = cli
    BY <1>6 DEF Launch, LaunchFails, Started
  <2> HIDE DEF Goal, r
  <2>3. CASE cli' = [cli EXCEPT ![r].proc = "alive"]
    BY <1>4, <2>1, <2>3
  <2> QED BY <1>1, <2>2, <2>3
<1>7. ASSUME IdleKill \/ Cancel PROVE Goal
  <2> DEFINE r == turn.run
  <2>1. r \in Runs
    BY <1>0, <1>7 DEF IdleKill, Cancel, AtWork
  <2>2. cli' = [cli EXCEPT ![r].proc = IF @ = "alive" THEN "lost" ELSE @] \/ cli' = cli
    BY <1>7 DEF IdleKill, Cancel, Kill
  <2> HIDE DEF r
  <2>3. CASE cli' = [cli EXCEPT ![r].proc = IF @ = "alive" THEN "lost" ELSE @]
    <3>1. CASE cli[r].proc = "alive"
      <4>1. cli' = [cli EXCEPT ![r].proc = "lost"]
        BY <2>3, <3>1
      <4> HIDE DEF Goal
      <4> QED BY <1>4, <2>1, <4>1
    <3>2. CASE cli[r].proc # "alive"
      <4>1. cli' = cli
        BY <1>0, <2>1, <2>3, <3>2 DEF Cli
      <4> HIDE DEF Goal
      <4> QED BY <1>1, <4>1
    <3> HIDE DEF Goal
    <3> QED BY <3>1, <3>2
  <2> HIDE DEF Goal
  <2> QED BY <1>1, <2>2, <2>3
<1>8. ASSUME Recreate PROVE Goal
  <2>1. cli' = [r \in Runs |-> IF Alive(r) THEN [cli[r] EXCEPT !.proc = "lost"] ELSE cli[r]]
    BY <1>8 DEF Recreate
  <2>2. \A r \in Runs : [cli[r] EXCEPT !.proc = "lost"] \in Cli
    BY <1>0 DEF Cli
  <2>3. \A r \in Runs : cli'[r] \in Cli
    BY <1>0, <2>1, <2>2
  <2>4. cli' \in [1..Len(cli) -> Cli] /\ DOMAIN cli' = Runs
    BY <1>0, <2>1, <2>2
  <2>5. cli' \in Seq(Cli)
    BY ONLY <1>0, <2>4, SeqDef, Zenon
  <2>6. Len(cli') = Len(cli)
    BY <1>0, <2>4, <2>5
  <2>7. Runs' = Runs
    BY <2>4 DEF Runs
  <2> QED BY <1>0, <2>5, <2>6, <2>7
<1>9. CASE Spawn
  <2>1. Len(cli) + 1 <= MaxRuns /\ cli' = Append(cli, [proc |-> "none", written |-> 0])
    BY <1>9 DEF Spawn
  <2>2. [proc |-> "none", written |-> 0] \in Cli
    BY DEF Cli, End
  <2>3. cli' \in Seq(Cli) /\ Len(cli') = Len(cli) + 1
    BY <1>0, <2>1, <2>2
  <2>4. DOMAIN cli' = 1..(Len(cli) + 1)
    BY <1>0, <2>3
  <2> QED BY <1>0, <2>1, <2>3, <2>4 DEF Runs
<1>10. ASSUME \/ Poll \/ Rejected \/ FinishRun \/ Deliver \/ Dead \/ Unreachable \/ ReviewRun
              \/ Restart \/ UNCHANGED delegatedVars
       PROVE  cli' = cli
  BY <1>10 DEF Poll, Rejected, FinishRun, Deliver, Dead, Unreachable, ReviewRun, Restart, delegatedVars
<1>11. ASSUME NEW e \in Entries, Attach(e) \/ LostRun(e) \/ CredentialFails(e) \/ Plan(e) \/ CoolingEnds(e)
       PROVE  cli' = cli
  BY <1>11 DEF Attach, LostRun, CredentialFails, Plan, CoolingEnds
<1>13. CASE ~Spawn
  <2> HIDE DEF Goal
  <2>1. Goal
    BY <1>3, <1>5, <1>6, <1>7, <1>8, <1>10, <1>1, <1>11, <1>13 DEF DelegatedNext, Turn
  <2> QED BY <1>13, <2>1 DEF Goal
<1> QED BY <1>9, <1>13

\* What a step does to the turn.
LEMMA TurnMoves ==
  ASSUME DelegatedInv, [DelegatedNext]_delegatedVars
  PROVE  /\ turn' \in TurnType
         /\ turn'.at \in AtWork \cup {"verdict"} => turn'.run \in Runs'
         /\ turn'.at # "idle" => turn'.entry \in Entries
<1> USE DEF sandbox, runHistory, runBounds
<1> DEFINE Goal == /\ turn' \in TurnType
                   /\ turn'.at \in AtWork \cup {"verdict"} => turn'.run \in Runs'
                   /\ turn'.at # "idle" => turn'.entry \in Entries
<1>0. /\ DelegatedTypeOK /\ turn \in TurnType /\ MaxRuns \in Nat
      /\ turn.at \in AtWork \cup {"verdict"} => turn.run \in Runs
      /\ turn.at # "idle" => turn.entry \in Entries
      /\ Runs \subseteq Runs' /\ Runs' \subseteq 0..MaxRuns
      /\ LastRun.offset \in 0..End
      /\ Unfinished => LastRun.run \in Runs
  <2>1. Runs' \subseteq 0..MaxRuns
    <3>1. cli' \in Seq(Cli) /\ Len(cli') <= MaxRuns
      BY CliMoves
    <3>2. DOMAIN cli' = 1..Len(cli') /\ Len(cli') \in Nat /\ MaxRuns \in Nat
      BY <3>1, DelegatedTypes DEF DelegatedInv
    <3> QED BY <3>1, <3>2 DEF Runs
  <2> QED BY <2>1, CliMoves, DelegatedTypes, LastRunRead DEF DelegatedInv, LogInv
<1>1. NoTurn \in TurnType /\ NoTurn.at = "idle"
  BY <1>0 DEF NoTurn, TurnType, End
<1>2. CASE turn' = turn
  BY <1>0, <1>2
<1>3. CASE turn' = NoTurn
  BY <1>1, <1>3 DEF AtWork
<1>4. ASSUME NEW e \in Entries, Attach(e) PROVE Goal
  <2> DEFINE q == LastRun.run
             o == LastRun.offset
  <2>1. turn' = [NoTurn EXCEPT !.at = "poll", !.run = q, !.entry = e,
                   !.from = o, !.offset = o, !.attached = TRUE]
        /\ q \in Runs /\ o \in 0..End
    BY <1>0, <1>4 DEF Attach
  <2> HIDE DEF q, o
  <2>2. q \in 0..MaxRuns /\ q \in Runs'
    BY <1>0, <2>1
  <2>3. turn' = [at |-> "poll", run |-> q, entry |-> e, from |-> o, offset |-> o,
                 resume |-> FALSE, attempt |-> 0, attached |-> TRUE]
    BY <2>1 DEF NoTurn
  <2>4. 0 \in 0..1 /\ o \in 0..End
    BY <2>1
  <2>5. turn' \in TurnType
    BY ONLY e \in Entries, <2>2, <2>3, <2>4 DEF TurnType
  <2>6. turn'.run \in Runs' /\ turn'.entry \in Entries
    BY <2>2, <2>3
  <2> QED BY <2>5, <2>6
<1>5. ASSUME NEW e \in Entries, Plan(e) PROVE Goal
  <2>1. PICK resume \in {FALSE, CanResume /\ ~Unfinished} :
          turn' = [NoTurn EXCEPT !.at = "spawn", !.entry = e, !.resume = resume]
    BY <1>5 DEF Plan
  <2>2. resume \in BOOLEAN
    BY <2>1
  <2>3. turn' = [at |-> "spawn", run |-> 0, entry |-> e, from |-> 0, offset |-> 0,
                 resume |-> resume, attempt |-> 0, attached |-> FALSE]
    BY <2>1 DEF NoTurn
  <2>4. 0 \in 0..MaxRuns /\ 0 \in 0..End /\ 0 \in 0..1
    BY <1>0 DEF End
  <2> QED BY <2>2, <2>3, <2>4 DEF TurnType, AtWork
<1>6. CASE Spawn
  <2> DEFINE r == Len(cli) + 1
  <2>1. turn' = [turn EXCEPT !.at = "launch", !.run = r] /\ r \in Runs' /\ turn.at = "spawn"
    BY <1>6, CliMoves DEF Spawn
  <2> HIDE DEF r
  <2>2. r \in 0..MaxRuns
    BY <1>0, <2>1
  <2> QED BY <1>0, <2>1, <2>2 DEF TurnType, AtWork
<1>7. CASE Launch
  <2>1. turn' = [turn EXCEPT !.at = "poll", !.from = 0, !.offset = 0] /\ turn.at = "launch"
    BY <1>7 DEF Launch
  <2>2. 0 \in 0..End
    BY DEF End
  <2> QED BY <1>0, <2>1, <2>2 DEF TurnType, AtWork
<1>8. CASE Poll
  <2> DEFINE n == ReadTo(turn.run)
             at == AfterPoll(turn.run, n)
  <2>1. turn' = [turn EXCEPT !.offset = n, !.at = at] /\ turn.at = "poll"
    BY <1>8 DEF Poll
  <2>2. turn.run \in Runs
    BY <1>0, <2>1 DEF AtWork
  <2>3. n \in 0..End
    BY <1>0, <2>2, TailReach
  <2>4. at \in {"finish", "dead", "poll"}
    BY DEF AfterPoll
  <2> HIDE DEF n, at
  <2> QED BY <1>0, <2>1, <2>2, <2>3, <2>4 DEF TurnType, AtWork
<1>9. CASE FinishRun
  <2>1. turn.at = "finish" /\ turn.run \in Runs /\ turn.entry \in Entries
    BY <1>0, <1>9 DEF FinishRun, AtWork
  <2>2. CASE turn' = [turn EXCEPT !.at = "verdict"]
    BY <1>0, <2>1, <2>2 DEF TurnType, AtWork
  <2>3. CASE turn' = [NoTurn EXCEPT !.at = "spawn", !.entry = turn.entry, !.attempt = 1]
    <3> DEFINE e == turn.entry
    <3>1. turn' = [at |-> "spawn", run |-> 0, entry |-> e, from |-> 0, offset |-> 0,
                   resume |-> FALSE, attempt |-> 1, attached |-> FALSE]
      BY <2>3 DEF NoTurn
    <3>2. 0 \in 0..MaxRuns /\ 0 \in 0..End /\ 1 \in 0..1
      BY <1>0 DEF End
    <3> HIDE DEF e
    <3>3. e \in Entries
      BY <2>1 DEF e
    <3> QED BY <3>1, <3>2, <3>3 DEF TurnType, AtWork
  <2> QED BY <1>9, <2>2, <2>3 DEF FinishRun
<1>10. CASE Deliver
  <2> DEFINE r == turn.run
  <2>1. turn' = [NoTurn EXCEPT !.run = r] /\ r \in 0..MaxRuns
    BY <1>0, <1>10 DEF Deliver, TurnType
  <2> HIDE DEF r
  <2>2. turn' = [at |-> "idle", run |-> r, entry |-> "none", from |-> 0, offset |-> 0,
                 resume |-> FALSE, attempt |-> 0, attached |-> FALSE]
    BY <2>1 DEF NoTurn
  <2>3. 0 \in 0..End /\ 0 \in 0..1 /\ r \in 0..MaxRuns
    BY <2>1 DEF End
  <2>4. turn' \in TurnType
    BY ONLY <2>2, <2>3 DEF TurnType
  <2>5. turn'.at = "idle"
    BY <2>2
  <2> QED BY <2>4, <2>5 DEF AtWork
<1>11. ASSUME NEW e \in Entries, LostRun(e) \/ CredentialFails(e) \/ CoolingEnds(e)
       PROVE  turn' = turn \/ turn' = NoTurn
  BY <1>11 DEF LostRun, CredentialFails, CoolingEnds, Ends
<1>12. ASSUME NEW r \in Runs, Write(r) \/ Exit(r) PROVE turn' = turn
  BY <1>12 DEF Write, Exit
<1>13. ASSUME \/ LaunchFails \/ IdleKill \/ Rejected \/ Dead \/ Unreachable \/ Cancel \/ ReviewRun
              \/ Restart \/ Recreate \/ UNCHANGED delegatedVars
       PROVE  turn' = turn \/ turn' = NoTurn
  BY <1>13 DEF LaunchFails, IdleKill, Rejected, Dead, Unreachable, Cancel, ReviewRun, Restart,
    Recreate, delegatedVars, Ends
<1> HIDE DEF Goal
<1>14. turn' = turn \/ turn' = NoTurn \/ Spawn \/ Launch \/ Poll \/ FinishRun \/ Deliver
       \/ \E e \in Entries : Attach(e) \/ Plan(e)
  BY <1>11, <1>12, <1>13 DEF DelegatedNext, Turn
<1>15. CASE \E e \in Entries : Attach(e) \/ Plan(e)
  <2>1. Goal
    BY <1>4, <1>5, <1>15
  <2> QED BY <2>1 DEF Goal
<1> QED BY <1>2, <1>3, <1>6, <1>7, <1>8, <1>9, <1>10, <1>14, <1>15

\* Types and the log.
LEMMA DelegatedTypeStep ==
  ASSUME DelegatedInv, [DelegatedNext]_delegatedVars
  PROVE  DelegatedTypeOK' /\ LogInv'
<1> USE DEF sandbox, runHistory, runBounds
<1>0. /\ DelegatedTypeOK /\ LogInv /\ Runs \subseteq Ids /\ Runs \subseteq 0..MaxRuns
      /\ turn.at \in AtWork => turn.run \in Runs
      /\ turn.at # "idle" => turn.entry \in Entries
      /\ Unfinished => LastRun.run \in Runs
      /\ Len(cli) \in Nat /\ MaxRuns \in Nat
  BY DelegatedTypes, LastRunRead DEF DelegatedInv, LogInv
<1>1. cli' \in Seq(Cli) /\ Len(cli') <= MaxRuns /\ Runs \subseteq Runs' /\ (Spawn => Len(cli) + 1 \in Runs')
  BY CliMoves
<1>2. log' \in Seq(LogEvent)
  BY LogMoves
<1>3. turn' \in TurnType /\ (turn'.at \in AtWork \cup {"verdict"} => turn'.run \in Runs')
      /\ (turn'.at # "idle" => turn'.entry \in Entries)
  BY TurnMoves
<1>4. marker' \in BOOLEAN
  <2>1. marker' = marker \/ marker' = TRUE \/ marker' = FALSE
    BY DEF DelegatedNext, Turn, delegatedVars, Write, Exit, Recreate, Attach, LostRun, CredentialFails, Plan,
      Spawn, Launch, LaunchFails, Started, Poll, Unreachable, Kill, IdleKill, Cancel, Rejected, FinishRun,
      Deliver, Dead, ReviewRun, CoolingEnds, Restart
  <2> QED BY <1>0, <2>1 DEF DelegatedTypeOK
<1>5. cooled' \subseteq Entries
  <2>0. cooled \subseteq Entries
    BY <1>0 DEF DelegatedTypeOK
  <2>1. CASE cooled' \subseteq cooled
    BY <2>0, <2>1
  <2>2. ASSUME NEW e \in Entries, Attach(e) \/ LostRun(e) \/ CredentialFails(e) \/ Plan(e) \/ CoolingEnds(e)
        PROVE  cooled' \subseteq Entries
    BY <2>0, <2>2 DEF Attach, LostRun, CredentialFails, Plan, CoolingEnds
  <2>3. CASE LaunchFails \/ Rejected \/ Dead
    <3>1. turn.entry \in Entries
      BY <1>0, <2>3 DEF LaunchFails, Rejected, Dead
    <3>2. cooled' = cooled \/ cooled' = cooled \cup {turn.entry}
      BY <2>3 DEF LaunchFails, Rejected, Dead
    <3> QED BY <2>0, <3>1, <3>2
  <2>4. ASSUME NEW r \in Runs, Write(r) \/ Exit(r) PROVE cooled' = cooled
    BY <2>4 DEF Write, Exit
  <2>5. ASSUME \/ Spawn \/ Launch \/ Poll \/ IdleKill \/ FinishRun \/ Deliver \/ Unreachable \/ Cancel
               \/ ReviewRun \/ Recreate \/ UNCHANGED delegatedVars
        PROVE  cooled' = cooled
    BY <2>5 DEF Spawn, Launch, Poll, IdleKill, FinishRun, Deliver, Unreachable, Cancel, ReviewRun,
      Recreate, delegatedVars
  <2>6. CASE Restart
    BY <2>6 DEF Restart
  <2> QED BY <2>0, <2>2, <2>3, <2>4, <2>5, <2>6 DEF DelegatedNext, Turn
<1>6. delivered' \in [Ids -> Nat]
  <2>0. delivered \in [Ids -> Nat]
    BY <1>0 DEF DelegatedTypeOK
  <2>1. delivered' = delivered \/ delivered' = [delivered EXCEPT ![turn.run] = @ + 1]
    BY DEF DelegatedNext, Turn, delegatedVars, Write, Exit, Recreate, Attach, LostRun, CredentialFails, Plan,
      Spawn, Launch, LaunchFails, Poll, Unreachable, IdleKill, Cancel, Rejected, FinishRun,
      Deliver, Dead, ReviewRun, CoolingEnds, Restart
  <2> QED BY <2>0, <2>1
<1>7. slipped' \subseteq Ids
  <2>0. slipped \subseteq Ids
    BY <1>0 DEF DelegatedTypeOK
  <2>1. ASSUME NEW e \in Entries, LostRun(e) \/ Plan(e) PROVE slipped' \subseteq Ids
    <3>1. slipped' = slipped \/ (slipped' = slipped \cup {LastRun.run} /\ Unfinished)
      BY <2>1 DEF LostRun, Plan, Record, Slip, NoSlip
    <3> QED BY <1>0, <2>0, <3>1
  <2>2. CASE LaunchFails \/ IdleKill \/ Cancel \/ Rejected \/ FinishRun \/ Dead
    <3>1. turn.run \in Runs
      BY <1>0, <2>2 DEF LaunchFails, IdleKill, Cancel, Rejected, FinishRun, Dead, AtWork
    <3>2. slipped' = slipped \/ slipped' = slipped \cup {turn.run}
      BY <2>2 DEF LaunchFails, IdleKill, Cancel, Rejected, FinishRun, Dead, Kill, Record, Slip, NoSlip
    <3>3. turn.run \in Ids
      BY <1>0, <3>1
    <3> QED BY <2>0, <3>2, <3>3
  <2>3. CASE Spawn
    <3>1. Len(cli) + 1 \in Ids
      BY <1>0, <2>3 DEF Spawn, Ids
    <3>2. slipped' = slipped \/ slipped' = slipped \cup {Len(cli) + 1}
      BY <2>3 DEF Spawn, Record, Slip, NoSlip
    <3> QED BY <2>0, <3>1, <3>2
  <2>4. ASSUME NEW r \in Runs, Write(r) \/ Exit(r) PROVE slipped' = slipped
    BY <2>4 DEF Write, Exit
  <2>5. ASSUME NEW e \in Entries, Attach(e) \/ CredentialFails(e) \/ CoolingEnds(e) PROVE slipped' = slipped
    BY <2>5 DEF Attach, CredentialFails, CoolingEnds
  <2>6. ASSUME \/ Launch \/ Poll \/ Deliver \/ Unreachable \/ ReviewRun \/ Recreate \/ Restart
               \/ UNCHANGED delegatedVars
        PROVE  slipped' = slipped
    BY <2>6 DEF Launch, Poll, Deliver, Unreachable, ReviewRun, Recreate, Restart, delegatedVars
  <2> QED BY <2>0, <2>1, <2>2, <2>3, <2>4, <2>5, <2>6 DEF DelegatedNext, Turn
<1>8. DelegatedTypeOK'
  BY <1>1, <1>2, <1>3, <1>4, <1>5, <1>6, <1>7 DEF DelegatedTypeOK, Cli, LogEvent, TurnType
<1>9. FirstOnly(log') /\ (Opens(log') => log'[1].run \in Runs')
  <2>1. CASE Kept(log, log')
    BY <1>0, <1>1, <2>1 DEF Kept, LogInv
  <2>2. CASE Spawn /\ FirstOnly(log') /\ log'[1].run = Len(cli) + 1
    BY <1>1, <2>2
  <2> QED BY <2>1, <2>2, LogMoves
<1>10. LogInv'
  BY <1>3, <1>9 DEF LogInv
<1> QED BY <1>8, <1>10

\* A mission begins without runs.
LEMMA DelegatedStart ==
  ASSUME DelegatedInit
  PROVE  DelegatedInv
<1>1. /\ cli = <<>> /\ log = <<>> /\ turn = NoTurn /\ Runs = {} /\ DOMAIN log = {}
      /\ delivered = [r \in Ids |-> 0] /\ slipped = {} /\ cooled = {} /\ marker = FALSE
  BY DEF DelegatedInit, Runs
<1>2. turn \in TurnType /\ turn.at = "idle"
  <2>1. MaxRuns \in Nat
    BY RunBoundsAssumption
  <2> QED BY <1>1, <2>1 DEF NoTurn, TurnType, End
<1>3. cli \in Seq(Cli) /\ Len(cli) <= MaxRuns /\ log \in Seq(LogEvent)
  <2>1. MaxRuns \in Nat
    BY RunBoundsAssumption
  <2> QED BY <1>1, <2>1
<1>4. delivered \in [Ids -> Nat] /\ \A r \in Ids : delivered[r] = 0
  BY <1>1
<1>5. DelegatedTypeOK
  BY <1>1, <1>2, <1>3, <1>4 DEF DelegatedTypeOK, TurnType, Cli, LogEvent
<1>6. LogInv
  BY <1>1, <1>2 DEF LogInv, FirstOnly, Opens, AtWork
<1>7. ~Open
  BY <1>1 DEF Open, Opens
<1>8. RunsInv
  BY <1>1, <1>2, <1>4, <1>7 DEF RunsInv, OpenInv, TurnInv, AliveInv, VerdictInv, VerdictOnce, AtWork
<1> QED BY <1>5, <1>6, <1>8 DEF DelegatedInv

-----------------------------------------------------------------------------
(* Theorems *)

\* In every reachable state the log, the turn and the sandbox agree on which run is open.
THEOREM DelegatedInvariant == DelegatedSpec => []DelegatedInv
<1>1. DelegatedInv /\ [DelegatedNext]_delegatedVars => DelegatedInv'
  BY RunsStep, DelegatedTypeStep DEF DelegatedInv
<1> QED BY <1>1, DelegatedStart, PTL DEF DelegatedSpec

\* The sandbox, the log and the turn keep their types.
THEOREM DelegatedTypeCorrect == DelegatedSpec => []DelegatedTypeOK
<1>1. DelegatedInv => DelegatedTypeOK
  BY DEF DelegatedInv
<1> QED BY <1>1, DelegatedInvariant, PTL

\* At most one CLI works in the worktree, except one about which an answer, a kill or a write
\* was lost (RunWorker re-attaches before it launches, and records the launch first).
THEOREM OneCli == DelegatedSpec => []OneCliAtATime
<1>1. DelegatedInv => OneCliAtATime
  BY DEF DelegatedInv, RunsInv, AliveInv, OneCliAtATime
<1> QED BY <1>1, DelegatedInvariant, PTL

\* The verdict of a run reaches the driver at most once, however often the brain re-attaches,
\* unless the event that ends the run could not be written (finish records it first).
THEOREM OneVerdict == DelegatedSpec => []VerdictOnce
<1>1. DelegatedInv => VerdictOnce
  BY DEF DelegatedInv, RunsInv, VerdictInv
<1> QED BY <1>1, DelegatedInvariant, PTL
=============================================================================
