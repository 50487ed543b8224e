-------------------------- MODULE EventDeliveryProofs --------------------------
(***************************************************************************)
(* Theorems about EventDelivery.  The composition implements each of its   *)
(* two components, so the invariants proved of the relay and of the        *)
(* consumer hold in it; what the queue has is then tied to what the relay  *)
(* sent.                                                                   *)
(***************************************************************************)
EXTENDS EventDelivery, TLAPS

(* The components with their theorems, instantiated like Relay and Inbox. *)
RP == INSTANCE OutboxRelayProofs
         WITH BatchSize <- RelayBatch, FaultProfiles <- RelayProfiles,
              MaxOutages <- MaxRelayOutages,
              pc <- rpc, current <- rcurrent, faults <- rfaults, outages <- routages

IP == INSTANCE InboxConsumerProofs
         WITH Event <- [m \in Messages |-> m[1]], BatchSize <- ConsumerBatch,
              Scenarios <- [kind : {AllAdvice}, faults : ConsumerProfiles],
              MaxOutages <- MaxConsumerOutages,
              pc <- cpc, current <- ccurrent,
              faults <- cfaults, outages <- coutages

LEMMA RelayConstants == RP!ConstantsAssumption
BY ConstantsAssumption
DEF RP!ConstantsAssumption, RP!IsFiniteSet, IsFiniteSet, RP!FaultKinds, Relay!FaultKinds

LEMMA ConsumerConstants == IP!ConstantsAssumption /\ IP!CopiesAgree
<1>1. \A s \in [kind : {AllAdvice}, faults : ConsumerProfiles] :
         s \in [kind : [Messages -> IP!Kinds], faults : SUBSET IP!FaultKinds]
  BY ConstantsAssumption DEF AllAdvice, IP!Kinds, IP!FaultKinds, Inbox!FaultKinds
<1>2. [m \in Messages |-> m[1]] \in [Messages -> Events]
  BY DEF Messages
<1>3. IP!ConstantsAssumption
  BY ConstantsAssumption, <1>1, <1>2 DEF IP!ConstantsAssumption
<1>4. IP!CopiesAgree
  BY DEF IP!CopiesAgree, AllAdvice
<1> QED BY <1>3, <1>4

-------------------------------------------------------------------------------
(* The steps of the relay *)

LEMMA SameBatch == ASSUME NEW due PROVE Relay!Batch(due) = RP!Batch(due)
BY DEF Relay!Batch, RP!Batch, Relay!Cardinality, RP!Cardinality

(* Each action of Relay is the action of the same name of RP. *)
LEMMA SameRelayStep == Relay!Next => RP!Next
<1> SUFFICES ASSUME Relay!Next PROVE RP!Next
  OBVIOUS
<1>1. ASSUME NEW e \in Events, Relay!CommitEvent(e) PROVE RP!CommitEvent(e)
  BY <1>1 DEF Relay!CommitEvent, RP!CommitEvent, Relay!workerVars, RP!workerVars, Relay!envVars,
      RP!envVars
<1>2. ASSUME Relay!Tick PROVE RP!Tick
  BY <1>2 DEF Relay!Tick, RP!Tick, Relay!workerVars, RP!workerVars, Relay!envVars, RP!envVars
<1>3. ASSUME NEW w \in Workers, Relay!LockBatch(w) PROVE RP!LockBatch(w)
  BY <1>3, SameBatch DEF Relay!LockBatch, RP!LockBatch, Relay!Due, RP!Due, Relay!Pending,
      RP!Pending, Relay!Seen, RP!Seen, Relay!Locked, RP!Locked, Relay!rowVars, RP!rowVars,
      Relay!envVars, RP!envVars
<1>4. ASSUME NEW w \in Workers, Relay!ClaimBatch(w) PROVE RP!ClaimBatch(w)
  BY <1>4 DEF Relay!ClaimBatch, RP!ClaimBatch, Relay!ClaimRows, RP!ClaimRows, Relay!envVars,
      RP!envVars
<1>5. ASSUME NEW w \in Workers, Relay!AbortClaim(w) PROVE RP!AbortClaim(w)
  BY <1>5 DEF Relay!AbortClaim, RP!AbortClaim, Relay!EndCycle, RP!EndCycle, Relay!NoCopy,
      RP!NoCopy, Relay!rowVars, RP!rowVars, Relay!envVars, RP!envVars
<1>6. ASSUME NEW w \in Workers, Relay!LoseClaim(w) PROVE RP!LoseClaim(w)
  BY <1>6 DEF Relay!LoseClaim, RP!LoseClaim, Relay!ClaimRows, RP!ClaimRows, Relay!EndCycle,
      RP!EndCycle, Relay!NoCopy, RP!NoCopy, Relay!envVars, RP!envVars
<1>7. ASSUME NEW w \in Workers, NEW e \in Events, Relay!Publish(w, e) PROVE RP!Publish(w, e)
  BY <1>7 DEF Relay!Publish, RP!Publish, Relay!BeginRelay, RP!BeginRelay, Relay!Deliver,
      RP!Deliver, Relay!rowVars, RP!rowVars, Relay!envVars, RP!envVars
<1>8. ASSUME NEW w \in Workers, NEW e \in Events, Relay!PublishRejected(w, e) PROVE RP!PublishRejected(w, e)
  BY <1>8 DEF Relay!PublishRejected, RP!PublishRejected, Relay!BeginRelay, RP!BeginRelay,
      Relay!rowVars, RP!rowVars, Relay!envVars, RP!envVars
<1>9. ASSUME NEW w \in Workers, NEW e \in Events, Relay!PublishUnanswered(w, e) PROVE RP!PublishUnanswered(w, e)
  BY <1>9 DEF Relay!PublishUnanswered, RP!PublishUnanswered, Relay!BeginRelay, RP!BeginRelay,
      Relay!Deliver, RP!Deliver, Relay!rowVars, RP!rowVars, Relay!envVars, RP!envVars
<1>10. ASSUME NEW w \in Workers, NEW e \in Events, Relay!MarkPublished(w, e) PROVE RP!MarkPublished(w, e)
  BY <1>10 DEF Relay!MarkPublished, RP!MarkPublished, Relay!Finish, RP!Finish, Relay!EndCycle,
      RP!EndCycle, Relay!NoCopy, RP!NoCopy, Relay!envVars, RP!envVars
<1>11. ASSUME NEW w \in Workers, NEW e \in Events, Relay!MarkFails(w, e) PROVE RP!MarkFails(w, e)
  BY <1>11 DEF Relay!MarkFails, RP!MarkFails, Relay!envVars, RP!envVars
<1>12. ASSUME NEW w \in Workers, NEW e \in Events, Relay!RecordFailure(w, e) PROVE RP!RecordFailure(w, e)
  BY <1>12 DEF Relay!RecordFailure, RP!RecordFailure, Relay!WriteFailure, RP!WriteFailure,
      Relay!OutcomeOf, RP!OutcomeOf, Relay!Backoff, RP!Backoff, Relay!Finish, RP!Finish,
      Relay!EndCycle, RP!EndCycle, Relay!NoCopy, RP!NoCopy, Relay!envVars, RP!envVars
<1>13. ASSUME NEW w \in Workers, NEW e \in Events, Relay!RecordFails(w, e) PROVE RP!RecordFails(w, e)
  BY <1>13 DEF Relay!RecordFails, RP!RecordFails, Relay!WriteFailure, RP!WriteFailure,
      Relay!OutcomeOf, RP!OutcomeOf, Relay!Backoff, RP!Backoff, Relay!EndCycle, RP!EndCycle,
      Relay!NoCopy, RP!NoCopy, Relay!rowVars, RP!rowVars, Relay!envVars, RP!envVars
<1>14. ASSUME NEW w \in Workers, Relay!Crash(w) PROVE RP!Crash(w)
  BY <1>14 DEF Relay!Crash, RP!Crash, Relay!EndCycle, RP!EndCycle, Relay!NoCopy, RP!NoCopy,
      Relay!rowVars, RP!rowVars
<1>15. ASSUME NEW w \in Workers, Relay!Stop(w) PROVE RP!Stop(w)
  BY <1>15 DEF Relay!Stop, RP!Stop, Relay!rowVars, RP!rowVars
<1>16. ASSUME NEW w \in Workers, Relay!Exit(w) PROVE RP!Exit(w)
  BY <1>16 DEF Relay!Exit, RP!Exit, Relay!EndCycle, RP!EndCycle, Relay!NoCopy, RP!NoCopy,
      Relay!rowVars, RP!rowVars, Relay!envVars, RP!envVars
<1>17. ASSUME NEW w \in Workers, Relay!Restart(w) PROVE RP!Restart(w)
  BY <1>17 DEF Relay!Restart, RP!Restart, Relay!rowVars, RP!rowVars, Relay!envVars, RP!envVars
<1> QED
  BY <1>1, <1>2, <1>3, <1>4, <1>5, <1>6, <1>7, <1>8, <1>9, 
     <1>10, <1>11, <1>12, <1>13, <1>14, <1>15, <1>16, <1>17
  DEF Relay!Next, Relay!Relay, Relay!Process, RP!Next, RP!Relay, RP!Process

LEMMA RelayInstance == Relay!Spec => RP!Spec
<1>1. Relay!Init => RP!Init
  BY DEF Relay!Init, RP!Init, Relay!NoCopy, RP!NoCopy
<1>2. [Relay!Next]_(Relay!vars) => [RP!Next]_(RP!vars)
  BY SameRelayStep DEF Relay!vars, RP!vars
<1> QED BY <1>1, <1>2, PTL DEF Relay!Spec, RP!Spec

-------------------------------------------------------------------------------
(* The steps of the consumer *)

LEMMA SameCardinality == ASSUME NEW S PROVE Inbox!Cardinality(S) = IP!Cardinality(S)
BY DEF Inbox!Cardinality, IP!Cardinality

(* Every step of the consumer and the queue but a send. *)
InboxMoves ==
    \/ \E m \in Messages : Inbox!Expire(m) \/ Inbox!DeadLetter(m) \/ Inbox!ReceiveLost(m)
    \/ \E e \in Events : Inbox!Prune(e)
    \/ \E c \in Consumers : \/ Inbox!Receive(c) \/ Inbox!Work(c)
                            \/ Inbox!Crash(c) \/ Inbox!Stop(c)
                            \/ Inbox!Exit(c) \/ Inbox!Restart(c)

(* Each action of Inbox is the action of the same name of IP. *)
LEMMA SameMove == InboxMoves => IP!Moves
<1> SUFFICES ASSUME InboxMoves PROVE IP!Moves
  OBVIOUS
<1>1. ASSUME NEW m \in Messages, Inbox!Expire(m) PROVE IP!Expire(m)
  BY <1>1 DEF Inbox!Expire, IP!Expire, Inbox!consumerVars, IP!consumerVars, Inbox!envVars,
      IP!envVars
<1>2. ASSUME NEW m \in Messages, Inbox!DeadLetter(m) PROVE IP!DeadLetter(m)
  BY <1>2 DEF Inbox!DeadLetter, IP!DeadLetter, Inbox!consumerVars, IP!consumerVars, Inbox!envVars,
      IP!envVars
<1>3. ASSUME NEW e \in Events, Inbox!Prune(e) PROVE IP!Prune(e)
  BY <1>3 DEF Inbox!Prune, IP!Prune, Inbox!queueVars, IP!queueVars, Inbox!consumerVars,
      IP!consumerVars, Inbox!envVars, IP!envVars
<1>4. ASSUME NEW c \in Consumers, Inbox!Receive(c) PROVE IP!Receive(c)
  BY <1>4, SameCardinality DEF Inbox!Receive, IP!Receive, Inbox!Receivable, IP!Receivable,
      Inbox!envVars, IP!envVars
<1>5. ASSUME NEW c \in Consumers, NEW m \in Messages, Inbox!ParseFails(c, m) PROVE IP!ParseFails(c, m)
  BY <1>5 DEF Inbox!ParseFails, IP!ParseFails, Inbox!DropBatch, IP!DropBatch, Inbox!NoHandles,
      IP!NoHandles, Inbox!queueVars, IP!queueVars, Inbox!envVars, IP!envVars
<1>6. ASSUME NEW c \in Consumers, NEW m \in Messages, Inbox!Discard(c, m) PROVE IP!Discard(c, m)
  BY <1>6 DEF Inbox!Discard, IP!Discard, Inbox!Begin, IP!Begin, Inbox!queueVars, IP!queueVars,
      Inbox!envVars, IP!envVars
<1>7. ASSUME NEW c \in Consumers, NEW m \in Messages, Inbox!LookUp(c, m) PROVE IP!LookUp(c, m)
  BY <1>7 DEF Inbox!LookUp, IP!LookUp, Inbox!Begin, IP!Begin, Inbox!queueVars, IP!queueVars,
      Inbox!envVars, IP!envVars
<1>8. ASSUME NEW c \in Consumers, NEW m \in Messages, Inbox!LookUpFails(c, m) PROVE IP!LookUpFails(c, m)
  BY <1>8 DEF Inbox!LookUpFails, IP!LookUpFails, Inbox!Begin, IP!Begin, Inbox!queueVars,
      IP!queueVars, Inbox!envVars, IP!envVars
<1>9. ASSUME NEW c \in Consumers, NEW m \in Messages, Inbox!Insert(c, m) PROVE IP!Insert(c, m)
  BY <1>9 DEF Inbox!Insert, IP!Insert, Inbox!Refused, IP!Refused, Inbox!At,
      IP!At, Inbox!Goto, IP!Goto, Inbox!queueVars, IP!queueVars, Inbox!envVars, IP!envVars
<1>10. ASSUME NEW c \in Consumers, NEW m \in Messages, Inbox!InsertFails(c, m) PROVE IP!InsertFails(c, m)
  BY <1>10 DEF Inbox!InsertFails, IP!InsertFails, Inbox!Refused, IP!Refused, Inbox!At,
      IP!At, Inbox!Goto, IP!Goto, Inbox!queueVars, IP!queueVars, Inbox!envVars, IP!envVars
<1>11. ASSUME NEW c \in Consumers, NEW m \in Messages, Inbox!Process(c, m) PROVE IP!Process(c, m)
  BY <1>11 DEF Inbox!Process, IP!Process, Inbox!At, IP!At, Inbox!Goto, IP!Goto, Inbox!WriteAudit,
      IP!WriteAudit, Inbox!queueVars, IP!queueVars, Inbox!envVars, IP!envVars
<1>12. ASSUME NEW c \in Consumers, NEW m \in Messages, Inbox!ProcessFails(c, m) PROVE IP!ProcessFails(c, m)
  BY <1>12 DEF Inbox!ProcessFails, IP!ProcessFails, Inbox!At, IP!At, Inbox!Goto, IP!Goto,
      Inbox!WriteAudit, IP!WriteAudit, Inbox!queueVars, IP!queueVars, Inbox!envVars, IP!envVars
<1>13. ASSUME NEW c \in Consumers, NEW m \in Messages, Inbox!Undo(c, m) PROVE IP!Undo(c, m)
  BY <1>13 DEF Inbox!Undo, IP!Undo, Inbox!At, IP!At, Inbox!Finish, IP!Finish, Inbox!DropBatch,
      IP!DropBatch, Inbox!NoHandles, IP!NoHandles, Inbox!queueVars, IP!queueVars, Inbox!envVars,
      IP!envVars
<1>14. ASSUME NEW c \in Consumers, NEW m \in Messages, Inbox!UndoFails(c, m) PROVE IP!UndoFails(c, m)
  BY <1>14 DEF Inbox!UndoFails, IP!UndoFails, Inbox!At, IP!At, Inbox!Finish, IP!Finish,
      Inbox!DropBatch, IP!DropBatch, Inbox!NoHandles, IP!NoHandles, Inbox!queueVars, IP!queueVars,
      Inbox!envVars, IP!envVars
<1>15. ASSUME NEW c \in Consumers, NEW m \in Messages, Inbox!DeleteMessage(c, m) PROVE IP!DeleteMessage(c, m)
  BY <1>15 DEF Inbox!DeleteMessage, IP!DeleteMessage, Inbox!At, IP!At, Inbox!Finish, IP!Finish,
      Inbox!DropBatch, IP!DropBatch, Inbox!NoHandles, IP!NoHandles, Inbox!queueVars, IP!queueVars,
      Inbox!envVars, IP!envVars
<1>16. ASSUME NEW c \in Consumers, NEW m \in Messages, Inbox!DeleteFails(c, m) PROVE IP!DeleteFails(c, m)
  BY <1>16 DEF Inbox!DeleteFails, IP!DeleteFails, Inbox!At, IP!At, Inbox!Finish, IP!Finish,
      Inbox!DropBatch, IP!DropBatch, Inbox!NoHandles, IP!NoHandles, Inbox!queueVars, IP!queueVars,
      Inbox!envVars, IP!envVars
<1>17. ASSUME NEW c \in Consumers, Inbox!Crash(c) PROVE IP!Crash(c)
  BY <1>17 DEF Inbox!Crash, IP!Crash, Inbox!DropBatch, IP!DropBatch, Inbox!NoHandles,
      IP!NoHandles, Inbox!queueVars, IP!queueVars
<1>18. ASSUME NEW c \in Consumers, Inbox!Stop(c) PROVE IP!Stop(c)
  BY <1>18 DEF Inbox!Stop, IP!Stop, Inbox!queueVars, IP!queueVars
<1>19. ASSUME NEW c \in Consumers, Inbox!Exit(c) PROVE IP!Exit(c)
  BY <1>19 DEF Inbox!Exit, IP!Exit, Inbox!queueVars, IP!queueVars, Inbox!envVars, IP!envVars
<1>20. ASSUME NEW c \in Consumers, Inbox!Restart(c) PROVE IP!Restart(c)
  BY <1>20 DEF Inbox!Restart, IP!Restart, Inbox!queueVars, IP!queueVars, Inbox!envVars, IP!envVars
<1>21. ASSUME NEW c \in Consumers, Inbox!Work(c) PROVE IP!Work(c)
  BY <1>5, <1>6, <1>7, <1>8, <1>9, <1>10, <1>11, <1>12, <1>13, <1>14, <1>15, <1>16, <1>21
  DEF Inbox!Work, IP!Work
<1>22. ASSUME NEW m \in Messages, Inbox!ReceiveLost(m) PROVE IP!ReceiveLost(m)
  BY <1>22 DEF Inbox!ReceiveLost, IP!ReceiveLost, Inbox!Receivable, IP!Receivable,
      Inbox!consumerVars, IP!consumerVars, Inbox!envVars, IP!envVars
<1> QED
  BY <1>1, <1>2, <1>3, <1>4, <1>17, <1>18, <1>19, <1>20, <1>21, <1>22 DEF InboxMoves, IP!Moves

LEMMA SameSend == ASSUME NEW m \in Messages, Inbox!Send(m) PROVE IP!Send(m)
BY DEF Inbox!Send, IP!Send, Inbox!consumerVars, IP!consumerVars, Inbox!envVars, IP!envVars

-------------------------------------------------------------------------------
(* The composition implements its components *)

(* The relay moves as it would alone: the queue never holds it back.        *)
THEOREM ImplementsRelay == Spec => Relay!Spec
<1>1. Init => Relay!Init
  BY DEF Init
<1>2. [Next]_vars => [Relay!Next]_(Relay!vars)
  BY DEF Next, RelayStep, ConsumerStep, vars, relayVars, Relay!vars
<1> QED BY <1>1, <1>2, PTL DEF Spec, Relay!Spec

LEMMA RelayInvariant == Spec => []RP!IInv
<1>1. RP!Spec => []RP!IInv
  BY RelayConstants, RP!Invariance
<1> QED BY <1>1, ImplementsRelay, RelayInstance, PTL

(* The queue has exactly the messages the relay's count says. *)
Numbered ==
    \A m \in Messages : place[m] = "unsent" <=> m[2] > sent[m[1]]

(* A step of the relay sends nothing, or the next message of one event. *)
LEMMA RelaySends ==
    ASSUME RP!IInv, RP!IInv', RelayStep
    PROVE  \/ sent' = sent /\ UNCHANGED consumerVars
           \/ \E m \in Messages : /\ Inbox!Send(m)
                                  /\ m[2] = sent[m[1]] + 1
                                  /\ sent' = [sent EXCEPT ![m[1]] = @ + 1]
<1>1. SUFFICES ASSUME NEW e \in Events, sent'[e] = sent[e] + 1, Inbox!Send(<<e, sent'[e]>>)
               PROVE  \E m \in Messages : /\ Inbox!Send(m)
                                          /\ m[2] = sent[m[1]] + 1
                                          /\ sent' = [sent EXCEPT ![m[1]] = @ + 1]
  BY DEF RelayStep
<1>2. sent \in [Events -> 0..MaxAttempts] /\ sent' \in [Events -> 0..MaxAttempts]
  BY DEF RP!IInv, RP!TypeOK
<1>3. <<e, sent'[e]>> \in Messages
  BY <1>1, <1>2, ConstantsAssumption DEF Messages
<1>4. sent' = sent \/ \E d \in Events : sent' = [sent EXCEPT ![d] = @ + 1]
  <2>1. RP!Next
    BY SameRelayStep DEF RelayStep
  <2>2. sent' = sent \/ \E d \in Events : RP!Deliver(d)
    BY <2>1, RelayConstants, RP!SendsOne
  <2> QED
    BY <2>2 DEF RP!Deliver
<1>5. sent' = [sent EXCEPT ![e] = @ + 1]
  BY <1>1, <1>2, <1>4, ConstantsAssumption
<1> QED BY <1>1, <1>3, <1>5

LEMMA ConsumerMoves == ASSUME RP!IInv, RP!IInv', [Next]_vars PROVE [Inbox!Next]_(Inbox!vars)
<1>1. CASE UNCHANGED vars
  BY <1>1 DEF vars, consumerVars, Inbox!vars
<1>2. CASE ConsumerStep
  BY <1>2 DEF ConsumerStep, Inbox!Next
<1>3. CASE RelayStep
  BY <1>3, RelaySends DEF Inbox!Next, consumerVars, Inbox!vars
<1> QED BY <1>1, <1>2, <1>3 DEF Next

(* The consumer sees a queue like any other: the relay only ever adds a     *)
(* message that was not on it before.                                       *)
THEOREM ImplementsConsumer == Spec => Inbox!Spec
<1>1. Init => Inbox!Init
  BY DEF Init
<1>2. RP!IInv /\ RP!IInv' /\ [Next]_vars => [Inbox!Next]_(Inbox!vars)
  BY ConsumerMoves
<1> QED BY <1>1, <1>2, RelayInvariant, PTL DEF Spec, Inbox!Spec

LEMMA ConsumerInstance == Inbox!Spec => IP!Spec
<1>1. Inbox!Init => IP!Init
  BY DEF Inbox!Init, IP!Init, Inbox!NoHandles, IP!NoHandles
<1>2. Inbox!Next => IP!Next
  <2> SUFFICES ASSUME Inbox!Next PROVE IP!Next
    OBVIOUS
  <2>1. CASE \E m \in Messages : Inbox!Send(m)
    BY <2>1, SameSend DEF IP!Next
  <2>2. CASE ~ \E m \in Messages : Inbox!Send(m)
    <3>1. InboxMoves
      BY <2>2 DEF Inbox!Next, InboxMoves
    <3> QED
      BY <3>1, SameMove DEF IP!Moves, IP!Next
  <2> QED BY <2>1, <2>2
<1>3. [Inbox!Next]_(Inbox!vars) => [IP!Next]_(IP!vars)
  BY <1>2 DEF Inbox!vars, IP!vars
<1> QED BY <1>1, <1>3, PTL DEF Inbox!Spec, IP!Spec

LEMMA ConsumerInvariant ==
    Spec => [](IP!Types /\ IP!Held /\ IP!AuditsPerReceipt /\ IP!ShutdownRepeatsNothing
               /\ IP!LossNeedsReservationRace)
<1>1. IP!Spec => [](IP!Types /\ IP!Held)
  BY ConsumerConstants, IP!Typing
<1>2. IP!Spec => []IP!AuditsPerReceipt
  BY ConsumerConstants, IP!ReceiptsPayForAudits
<1>3. IP!Spec => []IP!ShutdownRepeatsNothing
  BY ConsumerConstants, IP!OrderlyShutdown
<1>4. IP!Spec => []IP!LossNeedsReservationRace
  BY ConsumerConstants, IP!LossesExplained
<1> QED BY <1>1, <1>2, <1>3, <1>4, ImplementsConsumer, ConsumerInstance, PTL

-------------------------------------------------------------------------------
(* What the queue has and what the relay counts *)

QueueInv == Numbered /\ IP!UnsentUnread

LEMMA QueueStep ==
    ASSUME RP!IInv, RP!IInv', IP!Types, IP!Held, QueueInv, [Next]_vars
    PROVE  QueueInv'
<1>1. CASE UNCHANGED vars
  BY <1>1 DEF vars, relayVars, consumerVars, QueueInv, Numbered, IP!UnsentUnread
<1>2. CASE ConsumerStep
  <2>1. IP!UnsentUnread' /\ IP!SameSent
    BY <1>2, SameMove, ConsumerConstants, IP!MovesSendNothing DEF QueueInv, ConsumerStep, InboxMoves
  <2>2. sent' = sent
    BY <1>2 DEF ConsumerStep, relayVars
  <2> QED
    BY <2>1, <2>2 DEF QueueInv, Numbered, IP!SameSent
<1>3. CASE RelayStep
  <2>1. CASE sent' = sent /\ UNCHANGED consumerVars
    BY <2>1 DEF consumerVars, QueueInv, Numbered, IP!UnsentUnread
  <2>2. ASSUME NEW m \in Messages, Inbox!Send(m), m[2] = sent[m[1]] + 1,
               sent' = [sent EXCEPT ![m[1]] = @ + 1]
        PROVE  QueueInv'
    <3>1. place' = [place EXCEPT ![m] = "visible"] /\ receives' = receives
      BY <2>2 DEF Inbox!Send
    <3>2. IP!UnsentUnread'
      BY <3>1 DEF QueueInv, IP!UnsentUnread, IP!Types
    <3>3. ASSUME NEW n \in Messages PROVE place'[n] = "unsent" <=> n[2] > sent'[n[1]]
      <4>1. /\ m = <<m[1], m[2]>> /\ n = <<n[1], n[2]>>
            /\ m[1] \in Events /\ n[1] \in Events /\ m[2] \in Nat /\ n[2] \in Nat
        BY ConstantsAssumption DEF Messages
      <4>2. sent \in [Events -> Nat]
        BY ConstantsAssumption DEF RP!IInv, RP!TypeOK
      <4>3. place[n] = "unsent" <=> n[2] > sent[n[1]]
        BY DEF QueueInv, Numbered
      <4>4. CASE n[1] # m[1]
        BY <2>2, <3>1, <4>1, <4>2, <4>3, <4>4 DEF IP!Types
      <4>5. CASE n = m
        BY <2>2, <3>1, <4>1, <4>2, <4>5 DEF IP!Types
      <4>6. CASE n[1] = m[1] /\ n[2] # m[2]
        <5>1. place'[n] = place[n]
          BY <3>1, <4>6 DEF IP!Types
        <5>2. sent'[n[1]] = sent[n[1]] + 1 /\ m[2] = sent[n[1]] + 1
          BY <2>2, <4>1, <4>2, <4>6
        <5> QED
          BY <4>1, <4>2, <4>3, <4>6, <5>1, <5>2
      <4> QED
        BY <4>1, <4>4, <4>5, <4>6
    <3> QED
      BY <3>2, <3>3 DEF QueueInv, Numbered
  <2> QED
    BY <1>3, <2>1, <2>2, RelaySends
<1> QED BY <1>1, <1>2, <1>3 DEF Next

LEMMA QueueInvariant == Spec => []QueueInv
<1>1. Init => QueueInv
  BY DEF Init, Relay!Init, Inbox!Init, QueueInv, Numbered, IP!UnsentUnread, Messages
<1>2. RP!IInv /\ RP!IInv' /\ IP!Types /\ IP!Held /\ QueueInv /\ [Next]_vars => QueueInv'
  BY QueueStep
<1> QED BY <1>1, <1>2, RelayInvariant, ConsumerInvariant, PTL DEF Spec

-------------------------------------------------------------------------------
(* From the outbox row to the audit entry *)

(* The bodies of the messages are all advice, in every environment. *)
LEMMA EventsCopies ==
    ASSUME IP!Types, NEW e \in Events
    PROVE  IP!MessagesOf(e) = Copies(e) /\ Inbox!MessagesOf(e) = Copies(e)
<1>1. kind = AllAdvice
  BY DEF IP!Types
<1> QED BY <1>1 DEF IP!MessagesOf, Inbox!MessagesOf, Copies, AllAdvice

(* A row the relay marks PUBLISHED is never a hollow confirmation: its      *)
(* event is audited, or a copy of it is on the queue, in the dead-letter    *)
(* queue or in a handler, whatever befell the relay on the way, unless a    *)
(* failing reservation was taken for a duplicate or a timeout met a failing *)
(* consumer.                                                                *)
THEOREM ConfirmationsAreTrue == Spec => []PublishedNotLost
<1>1. RP!IInv /\ IP!Types /\ QueueInv /\ IP!LossNeedsReservationRace => PublishedNotLost
  <2> SUFFICES ASSUME RP!IInv, IP!Types, QueueInv, IP!LossNeedsReservationRace,
                      SafeConsumer, NEW e \in Events, status[e] = "PUBLISHED"
               PROVE  \/ \E m \in Copies(e) : audits[m] > 0
                      \/ Inbox!Recoverable(e)
    BY DEF PublishedNotLost
  <2> DEFINE first == <<e, 1>>
  <2>1. first \in Copies(e)
    BY ConstantsAssumption DEF Copies, Messages
  <2>2. sent[e] > 0
    BY DEF RP!IInv, RP!SendsAccounted
  <2>3. place[first] \in {"visible", "inflight", "deleted", "dead"}
    <3>1. first \in Messages /\ first[1] = e /\ first[2] = 1
      BY <2>1 DEF Copies
    <3>2. sent[e] \in Nat
      BY ConstantsAssumption DEF RP!IInv, RP!TypeOK
    <3>3. place[first] # "unsent"
      BY <2>2, <3>1, <3>2 DEF QueueInv, Numbered
    <3> QED
      BY <3>1, <3>3 DEF IP!Types, IP!Places
  <2>4. CASE place[first] = "deleted"
    <3>1. IP!EventNotLost
      BY DEF IP!LossNeedsReservationRace, SafeConsumer
    <3>2. IP!Audited(e) \/ IP!Recoverable(e)
      BY <2>1, <2>4, <3>1, EventsCopies DEF IP!EventNotLost
    <3> QED
      BY <3>2, EventsCopies DEF IP!Audited, IP!Recoverable, Inbox!Recoverable
  <2>5. CASE place[first] \in {"visible", "inflight", "dead"}
    BY <2>1, <2>5, EventsCopies DEF Inbox!Recoverable
  <2> QED
    BY <2>3, <2>4, <2>5
<1> QED BY <1>1, RelayInvariant, ConsumerInvariant, QueueInvariant, PTL

(* Crashing and stopping relay workers, rejected sends and orderly stops of *)
(* consumers repeat no audit entry: an event has at most one message, and a *)
(* message at most one entry.  A repeated entry takes a lost answer or a    *)
(* repeated receipt.                                                        *)
THEOREM AuditsAreUnique == Spec => []AuditedOnce
<1>1. RP!Spec => [](RP!AnswersArrive => \A e \in Events : sent[e] <= 1)
  BY RelayConstants, RP!CrashesSendOnce
<1>2. /\ RP!IInv /\ IP!Types /\ QueueInv /\ IP!AuditsPerReceipt /\ IP!ShutdownRepeatsNothing
      /\ RP!AnswersArrive => \A e \in Events : sent[e] <= 1
      => AuditedOnce
  <2> SUFFICES ASSUME RP!IInv, IP!Types, QueueInv, IP!AuditsPerReceipt,
                      IP!ShutdownRepeatsNothing,
                      \A e \in Events : sent[e] <= 1,
                      cfaults \subseteq {"shutdown"}, NEW e \in Events
               PROVE  /\ \A m, n \in Copies(e) : audits[m] > 0 /\ audits[n] > 0 => m = n
                      /\ \A m \in Copies(e) : audits[m] <= 1
    BY DEF AuditedOnce, RP!AnswersArrive
  <2>1. ASSUME NEW m \in Copies(e) PROVE audits[m] <= 1
    BY DEF Copies, IP!ShutdownRepeatsNothing
  <2>2. ASSUME NEW m \in Copies(e), audits[m] > 0 PROVE m = <<e, 1>>
    <3>1. m \in Messages /\ m = <<e, m[2]>> /\ m[2] \in 1..MaxAttempts
      BY DEF Copies, Messages
    <3>2. receives[m] # 0
      BY <2>2, <3>1, ConstantsAssumption DEF IP!AuditsPerReceipt, IP!Types
    <3>3. place[m] # "unsent"
      BY <3>1, <3>2 DEF QueueInv, IP!UnsentUnread
    <3>4. ~(m[2] > sent[e])
      BY <3>1, <3>3 DEF QueueInv, Numbered
    <3>5. sent[e] \in Nat /\ sent[e] <= 1
      BY ConstantsAssumption DEF RP!IInv, RP!TypeOK
    <3> QED
      BY <3>1, <3>4, <3>5, ConstantsAssumption
  <2> QED
    BY <2>1, <2>2
<1> QED
  BY <1>1, <1>2, RelayInvariant, RelayInstance, ImplementsRelay, ConsumerInvariant,
     QueueInvariant, PTL

===============================================================================
