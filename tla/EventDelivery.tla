----------------------------- MODULE EventDelivery -----------------------------
(***************************************************************************)
(* From the committed outbox row to the audit entry: OutboxRelay and       *)
(* InboxConsumer joined by the queue.  The k-th message the queue accepts  *)
(* for event e is <<e, k>>; the relay's send and the message's appearance  *)
(* on the queue are one step.  The relay's messages always carry a type    *)
(* and a tenant, so each of them is an "advice" message to the consumer.   *)
(***************************************************************************)
EXTENDS Integers, FiniteSets

CONSTANTS Events, Workers, Consumers,
          RelayBatch, MaxAttempts, BaseDelay, MaxDelay, Jitter,
          ConsumerBatch, MaxReceives,
          RelayProfiles, ConsumerProfiles, MaxRelayOutages, MaxConsumerOutages

VARIABLES status, attempts, wait, sent, rpc, timer, held, copy, rcurrent, rfaults, routages,
          place, receives, inbox, audits, cpc, running, batch, handle, ccurrent, kind, cfaults, coutages

Relay == INSTANCE OutboxRelay
            WITH BatchSize <- RelayBatch, FaultProfiles <- RelayProfiles,
                 MaxOutages <- MaxRelayOutages,
                 pc <- rpc, current <- rcurrent, faults <- rfaults, outages <- routages

Messages == Events \X (1..MaxAttempts)
AllAdvice == [m \in Messages |-> "advice"]

Inbox == INSTANCE InboxConsumer
            WITH Event <- [m \in Messages |-> m[1]], BatchSize <- ConsumerBatch,
                 Scenarios <- [kind : {AllAdvice}, faults : ConsumerProfiles],
                 MaxOutages <- MaxConsumerOutages,
                 pc <- cpc, current <- ccurrent,
                 faults <- cfaults, outages <- coutages

(* Those of the two components; every Scenario carries AllAdvice.           *)
ASSUME ConstantsAssumption ==
    /\ Events \subseteq Nat /\ IsFiniteSet(Events)
    /\ {RelayBatch, MaxAttempts, ConsumerBatch, MaxReceives} \subseteq Nat \ {0}
    /\ {BaseDelay, MaxDelay, Jitter, MaxRelayOutages, MaxConsumerOutages} \subseteq Nat
    /\ RelayProfiles \subseteq SUBSET Relay!FaultKinds
    /\ ConsumerProfiles \subseteq SUBSET Inbox!FaultKinds

relayVars    == <<status, attempts, wait, sent, rpc, timer, held, copy, rcurrent,
                  rfaults, routages>>
consumerVars == <<place, receives, inbox, audits, cpc, running, batch, handle, ccurrent,
                  kind, cfaults, coutages>>
vars         == <<relayVars, consumerVars>>

(* Relay and consumers are one process with one role at the database.       *)
Init ==
    /\ Relay!Init /\ Inbox!Init
    /\ "policies" \in rfaults <=> "policies" \in cfaults

(* A step of the relay; a message it hands over is on the queue at once. *)
RelayStep ==
    /\ Relay!Next
    /\ \/ sent' = sent /\ UNCHANGED consumerVars
       \/ \E e \in Events : sent'[e] = sent[e] + 1 /\ Inbox!Send(<<e, sent'[e]>>)

(* A step of the queue or of a consumer: everything but a new message. *)
ConsumerStep ==
    /\ \/ \E m \in Messages : Inbox!Expire(m) \/ Inbox!DeadLetter(m) \/ Inbox!ReceiveLost(m)
       \/ \E e \in Events : Inbox!Prune(e)
       \/ \E c \in Consumers : \/ Inbox!Receive(c) \/ Inbox!Work(c)
                               \/ Inbox!Crash(c) \/ Inbox!Stop(c)
                               \/ Inbox!Exit(c) \/ Inbox!Restart(c)
    /\ UNCHANGED relayVars

Next == RelayStep \/ ConsumerStep

Spec == Init /\ [][Next]_vars

(* Both components' fairness, each step as a step of the whole. *)
Fairness ==
    /\ WF_vars(RelayStep /\ Relay!Tick)
    /\ \A w \in Workers : /\ WF_vars(RelayStep /\ Relay!Relay(w))
                          /\ SF_vars(RelayStep /\ Relay!ClaimBatch(w))
                          /\ WF_vars(RelayStep /\ Relay!Exit(w))
                          /\ WF_vars(RelayStep /\ Relay!Restart(w))
    /\ \A m \in Messages : /\ WF_vars(ConsumerStep /\ Inbox!Expire(m))
                           /\ WF_vars(ConsumerStep /\ Inbox!DeadLetter(m))
    /\ \A c \in Consumers : /\ WF_vars(ConsumerStep /\ (Inbox!Receive(c) \/ Inbox!Work(c)))
                            /\ WF_vars(ConsumerStep /\ Inbox!Exit(c))
                            /\ WF_vars(ConsumerStep /\ Inbox!Restart(c))

FairSpec == Spec /\ Fairness

-------------------------------------------------------------------------------
(* Properties *)

Copies(e) == {m \in Messages : m[1] = e}

(* Only a lost answer or a repeated receipt repeats an audit entry: while   *)
(* SQS rejects cleanly and consumers stop in order, relay crashes included, *)
(* an event is audited at most once.                                        *)
AuditedOnce ==
    /\ rfaults \subseteq {"send", "crash", "shutdown"}
    /\ cfaults \subseteq {"shutdown"}
    => \A e \in Events :
          /\ \A m, n \in Copies(e) : audits[m] > 0 /\ audits[n] > 0 => m = n
          /\ \A m \in Copies(e) : audits[m] <= 1

(* Consumer faults under which deleting a message as a duplicate is safe.   *)
SafeConsumer ==
    /\ cfaults \cap {"reserve", "reserveLost", "policies"} = {}
    /\ "slow" \in cfaults => cfaults \cap {"crash", "audit"} = {}

(* An event the relay counts as PUBLISHED is audited, or a copy of it can   *)
(* still be, whatever befalls the relay: a confirmation is never hollow.    *)
PublishedNotLost ==
    SafeConsumer =>
        \A e \in Events :
            status[e] = "PUBLISHED" => \/ \E m \in Copies(e) : audits[m] > 0
                                      \/ Inbox!Recoverable(e)

(* While only SQS misbehaves on the relay's side, and the worker's         *)
(* database role is exempt from the tenant policies, every committed event *)
(* ends audited, given up by the relay, or in the dead-letter queue where  *)
(* an operator can see it.                                                 *)
EndToEnd ==
    rfaults \subseteq {"send", "sendLost"} /\ SafeConsumer =>
        \A e \in Events :
            status[e] = "PENDING" ~> \/ (\E m \in Copies(e) : audits[m] > 0)
                                     \/ status[e] = "FAILED"
                                     \/ \E m \in Copies(e) : place[m] = "dead"

(* Every message put on the queue leaves it, deleted or dead-lettered,      *)
(* whatever befalls relay and consumers: no redelivery goes on for ever.    *)
QueueDrains == Inbox!QueueDrains

===============================================================================
