----------------------------- MODULE InboxConsumer -----------------------------
(***************************************************************************)
(* The SQS consumer of src/src/shared/infrastructure/queue with the queue  *)
(* it polls: processes receive batches of messages and handle them one by  *)
(* one - reserve the inbox row, write the audit entry, delete the message, *)
(* or release the reservation when that fails.                             *)
(*                                                                         *)
(* The reservation is TypeORM's save of an entity that carries its primary *)
(* key: a SELECT by that key, then an INSERT only when no row was found.   *)
(* A row that exists already makes save succeed without writing anything.  *)
(*                                                                         *)
(* The queue is SQS as scripts/local/bootstrap-ministack.ts configures it: *)
(* a received message is invisible until its visibility timeout, and is    *)
(* moved to the dead-letter queue when it has been received too often.     *)
(***************************************************************************)
EXTENDS Integers, FiniteSets

CONSTANTS
    Messages,      \* messages that may be put on the queue
    Events,        \* keys tenantId:eventId:handlerName
    Event,         \* Event[m]: the inbox key of message m
    Consumers,     \* processes that run an SqsConsumerService
    BatchSize,     \* sqs.maxNumberOfMessages
    MaxReceives,   \* maxReceiveCount of the redrive policy
    Scenarios,     \* the environments: the bodies of the messages, and which
                   \* of FaultKinds occur together
    MaxOutages     \* bound on crashes and shutdowns together

Kinds == {"advice",      \* type ADVICE_GENERATED
          "other",       \* any other type
          "untyped",     \* no type at all
          "untenanted",  \* a tenantId with no legal character
          "malformed"}   \* a body that is not JSON

FaultKinds == {"receiveLost",  \* messages are received, the answer is lost
               "reserve",      \* a query of the reservation fails
               "reserveLost",  \* its INSERT takes effect, the answer is lost
               "audit",        \* the audit entry cannot be written
               "auditLost",    \* it is written, the answer is lost
               "undo",         \* the reservation cannot be released
               "delete",       \* SQS does not delete the message
               "slow",         \* a message's timeout passes while it is handled
               "crash", "shutdown",
               "policies"}     \* the database role is subject to the tenant policies

ASSUME ConstantsAssumption ==
    /\ Event \in [Messages -> Events]
    /\ BatchSize \in Nat \ {0}
    /\ MaxReceives \in Nat \ {0}
    /\ Scenarios \subseteq [kind : [Messages -> Kinds], faults : SUBSET FaultKinds]
    /\ MaxOutages \in Nat

(* The relay takes eventId and type of a message from one outbox row: the   *)
(* messages of one key that are handled at all have the same type.          *)
ASSUME CopiesAgree ==
    \A s \in Scenarios : \A m, n \in Messages :
        Event[m] = Event[n] /\ {s.kind[m], s.kind[n]} \subseteq {"advice", "other"}
            => s.kind[m] = s.kind[n]

VARIABLES
    place,      \* place[m]: where the queue has message m
    receives,   \* receives[m]: how often m was received
    inbox,      \* keys that have a row in inbox_messages
    audits,     \* audits[m]: audit entries written for m (history)
    pc,         \* pc[c]: where consumer c's poll loop stands
    running,    \* running[c]: the loop may poll again
    batch,      \* batch[c]: received messages not finished
    handle,     \* handle[c][m]: the receipt handle c holds, as m's receive count
    current,    \* current[c]: the singleton of the message in work, or {}
    kind,       \* kind[m]: what the consumer finds in the body of m, fixed
    faults,     \* the kinds of fault of this environment, fixed
    outages     \* crashes and shutdowns so far

queueVars    == <<place, receives>>
consumerVars == <<pc, running, batch, handle, current>>
envVars      == <<kind, faults, outages>>
vars == <<place, receives, inbox, audits, pc, running, batch, handle, current,
          kind, faults, outages>>

Places == {"unsent", "visible", "inflight", "deleted", "dead"}

(* "idle" polls; "ready" is between two messages of a batch; "reserving" is *)
(* between save's SELECT and its INSERT; "processing" holds a reservation;  *)
(* "undoing" is in the catch block; "deleting" is about to delete.          *)
Stages == {"down", "idle", "ready", "reserving", "processing", "undoing", "deleting"}

NoHandles == [m \in Messages |-> 0]

Init ==
    /\ place    = [m \in Messages |-> "unsent"]
    /\ receives = [m \in Messages |-> 0]
    /\ inbox    = {}
    /\ audits   = [m \in Messages |-> 0]
    /\ pc       = [c \in Consumers |-> "idle"]
    /\ running  = [c \in Consumers |-> TRUE]
    /\ batch    = [c \in Consumers |-> {}]
    /\ handle   = [c \in Consumers |-> NoHandles]
    /\ current  = [c \in Consumers |-> {}]
    /\ \E s \in Scenarios : kind = s.kind /\ faults = s.faults
    /\ outages  = 0

-------------------------------------------------------------------------------
(* The queue *)

Send(m) ==
    /\ place[m] = "unsent"
    /\ place' = [place EXCEPT ![m] = "visible"]
    /\ UNCHANGED <<receives, inbox, audits, consumerVars, envVars>>

(* The visibility timeout of m passes. *)
Expire(m) ==
    /\ place[m] = "inflight"
    /\ "slow" \in faults \/ \A c \in Consumers : m \notin batch[c]
    /\ place' = [place EXCEPT ![m] = "visible"]
    /\ UNCHANGED <<receives, inbox, audits, consumerVars, envVars>>

(* The redrive policy. *)
DeadLetter(m) ==
    /\ place[m] = "visible"
    /\ receives[m] = MaxReceives
    /\ place' = [place EXCEPT ![m] = "dead"]
    /\ UNCHANGED <<receives, inbox, audits, consumerVars, envVars>>

-------------------------------------------------------------------------------
(* pollLoop *)

(* Seeded fault: no redrive policy, messages are received without limit. *)
ReceivableForEver == {m \in Messages : place[m] = "visible"}

Receivable == {m \in Messages : place[m] = "visible" /\ receives[m] < MaxReceives}

Receive(c) ==
    /\ pc[c] = "idle"
    /\ running[c]
    /\ \E b \in (SUBSET Receivable) \ {{}} :
          /\ Cardinality(b) <= BatchSize
          /\ place'    = [m \in Messages |-> IF m \in b THEN "inflight" ELSE place[m]]
          /\ receives' = [m \in Messages |-> IF m \in b THEN receives[m] + 1 ELSE receives[m]]
          /\ batch'    = [batch EXCEPT ![c] = b]
          /\ handle'   = [handle EXCEPT ![c] =
                             [m \in Messages |-> IF m \in b THEN receives[m] + 1 ELSE 0]]
    /\ pc' = [pc EXCEPT ![c] = "ready"]
    /\ UNCHANGED <<inbox, audits, running, current, envVars>>

(* A receive takes effect and its answer is lost: m has spent a receipt     *)
(* nobody has, and the consumer sleeps and polls again.                     *)
ReceiveLost(m) ==
    /\ "receiveLost" \in faults
    /\ \E c \in Consumers : pc[c] = "idle" /\ running[c]
    /\ m \in Receivable
    /\ place'    = [place EXCEPT ![m] = "inflight"]
    /\ receives' = [receives EXCEPT ![m] = @ + 1]
    /\ UNCHANGED <<inbox, audits, consumerVars, envVars>>

(* Consumer c drops what is left of its batch. *)
DropBatch(c, stage) ==
    /\ pc'      = [pc EXCEPT ![c] = stage]
    /\ batch'   = [batch EXCEPT ![c] = {}]
    /\ handle'  = [handle EXCEPT ![c] = NoHandles]
    /\ current' = [current EXCEPT ![c] = {}]

(* Seeded fault: the loop over the batch is never left. *)
FinishStuck(c, m) ==
    /\ pc'      = [pc EXCEPT ![c] = "ready"]
    /\ batch'   = [batch EXCEPT ![c] = @ \ {m}]
    /\ handle'  = [handle EXCEPT ![c][m] = 0]
    /\ current' = [current EXCEPT ![c] = {}]

(* Consumer c is done with m: on to the next message, or poll again. *)
Finish(c, m) ==
    IF batch[c] = {m}
    THEN DropBatch(c, "idle")
    ELSE /\ pc'      = [pc EXCEPT ![c] = "ready"]
         /\ batch'   = [batch EXCEPT ![c] = @ \ {m}]
         /\ handle'  = [handle EXCEPT ![c][m] = 0]
         /\ current' = [current EXCEPT ![c] = {}]

-------------------------------------------------------------------------------
(* processMessageWithRetry *)

Begin(c, m, stage) ==
    /\ pc[c] = "ready"
    /\ m \in batch[c]
    /\ current' = [current EXCEPT ![c] = {m}]
    /\ pc'      = [pc EXCEPT ![c] = stage]
    /\ UNCHANGED <<queueVars, inbox, audits, running, batch, handle, envVars>>

At(c, m, stage) == pc[c] = stage /\ m \in current[c]

Goto(c, stage) ==
    /\ pc' = [pc EXCEPT ![c] = stage]
    /\ UNCHANGED <<queueVars, running, batch, handle, current, envVars>>

(* JSON.parse throws outside the try: the loop's catch logs and sleeps, and *)
(* every message still in the batch is dropped unhandled.                   *)
ParseFails(c, m) ==
    /\ pc[c] = "ready"
    /\ m \in batch[c]
    /\ kind[m] = "malformed"
    /\ DropBatch(c, "idle")
    /\ UNCHANGED <<queueVars, inbox, audits, running, envVars>>

Discard(c, m) ==
    /\ kind[m] \in {"untyped", "untenanted"}
    /\ Begin(c, m, "deleting")

(* Seeded fault: any existing row means "already processed". *)
LookUpSkipsExisting(c, m) ==
    /\ kind[m] \in {"advice", "other"}
    /\ Begin(c, m, IF Event[m] \in inbox THEN "deleting" ELSE "reserving")

(* save: the SELECT.  An existing row counts as reserved by this call. *)
LookUp(c, m) ==
    /\ kind[m] \in {"advice", "other"}
    /\ \/ Event[m] \notin inbox /\ Begin(c, m, "reserving")
       \/ Event[m] \in inbox    /\ Begin(c, m, "processing")

(* The reservation runs before tenantContext.run, so nothing sets           *)
(* app.current_tenant_id: a role subject to the policy of inbox_messages is *)
(* refused every INSERT, and the table stays as empty as its SELECT sees it.*)
Refused == "policies" \in faults

(* save: the INSERT.  A row written since the SELECT makes it fail. *)
Insert(c, m) ==
    /\ At(c, m, "reserving")
    /\ ~Refused
    /\ inbox' = inbox \cup {Event[m]}
    /\ Goto(c, IF Event[m] \in inbox THEN "deleting" ELSE "processing")
    /\ UNCHANGED audits

(* Any error of save is taken for a duplicate: the message is deleted. *)
LookUpFails(c, m) ==
    /\ "reserve" \in faults
    /\ kind[m] \in {"advice", "other"}
    /\ Begin(c, m, "deleting")

InsertFails(c, m) ==
    /\ At(c, m, "reserving")
    /\ \/ /\ Refused \/ "reserve" \in faults
          /\ UNCHANGED inbox
       \/ /\ ~Refused /\ "reserveLost" \in faults
          /\ inbox' = inbox \cup {Event[m]}
    /\ Goto(c, "deleting")
    /\ UNCHANGED audits

WriteAudit(m) == audits' = [audits EXCEPT ![m] = @ + 1]

(* Only ADVICE_GENERATED has a handler; any other type is skipped. *)
Process(c, m) ==
    /\ At(c, m, "processing")
    /\ IF kind[m] = "advice" THEN WriteAudit(m) ELSE UNCHANGED audits
    /\ Goto(c, "deleting")
    /\ UNCHANGED inbox

(* Seeded fault: the handler is retried on the spot. *)
ProcessRetries(c, m) ==
    /\ At(c, m, "processing")
    /\ kind[m] = "advice"
    /\ \/ "audit" \in faults /\ UNCHANGED audits
       \/ "auditLost" \in faults /\ WriteAudit(m)
    /\ Goto(c, "processing")
    /\ UNCHANGED inbox

ProcessFails(c, m) ==
    /\ At(c, m, "processing")
    /\ kind[m] = "advice"
    /\ \/ "audit" \in faults /\ UNCHANGED audits
       \/ "auditLost" \in faults /\ WriteAudit(m)
    /\ Goto(c, "undoing")
    /\ UNCHANGED inbox

(* The catch block deletes the inbox row, whoever inserted it. *)
Undo(c, m) ==
    /\ At(c, m, "undoing")
    /\ inbox' = inbox \ {Event[m]}
    /\ Finish(c, m)
    /\ UNCHANGED <<queueVars, audits, running, envVars>>

UndoFails(c, m) ==
    /\ "undo" \in faults
    /\ At(c, m, "undoing")
    /\ Finish(c, m)
    /\ UNCHANGED <<queueVars, inbox, audits, running, envVars>>

(* A handle of an earlier receipt may or may not delete the message. *)
DeleteMessage(c, m) ==
    /\ At(c, m, "deleting")
    /\ \/ place' = [place EXCEPT ![m] = IF @ = "dead" THEN "dead" ELSE "deleted"]
       \/ handle[c][m] # receives[m] /\ UNCHANGED place
    /\ Finish(c, m)
    /\ UNCHANGED <<receives, inbox, audits, running, envVars>>

(* deleteMessage swallows the error; the message will be received again. *)
DeleteFails(c, m) ==
    /\ "delete" \in faults
    /\ At(c, m, "deleting")
    /\ Finish(c, m)
    /\ UNCHANGED <<queueVars, inbox, audits, running, envVars>>

-------------------------------------------------------------------------------
(* Pruning and processes *)

(* Inbox rows older than seven days go; the queue keeps messages for less. *)
Prune(e) ==
    /\ e \in inbox
    /\ \A m \in Messages : Event[m] = e => place[m] \notin {"visible", "inflight"}
    /\ \A c \in Consumers : \A m \in batch[c] : Event[m] # e
    /\ inbox' = inbox \ {e}
    /\ UNCHANGED <<queueVars, audits, consumerVars, envVars>>

Crash(c) ==
    /\ "crash" \in faults
    /\ outages < MaxOutages
    /\ pc[c] # "down"
    /\ DropBatch(c, "down")
    /\ running' = [running EXCEPT ![c] = FALSE]
    /\ outages' = outages + 1
    /\ UNCHANGED <<queueVars, inbox, audits, kind, faults>>

(* Seeded fault: onModuleDestroy does not wait for pollPromise. *)
StopAtOnce(c) ==
    /\ "shutdown" \in faults
    /\ outages < MaxOutages
    /\ running[c]
    /\ DropBatch(c, "down")
    /\ running' = [running EXCEPT ![c] = FALSE]
    /\ outages' = outages + 1
    /\ UNCHANGED <<queueVars, inbox, audits, kind, faults>>

(* onModuleDestroy stops the loop and waits for it: the batch is finished. *)
Stop(c) ==
    /\ "shutdown" \in faults
    /\ outages < MaxOutages
    /\ running[c]
    /\ running' = [running EXCEPT ![c] = FALSE]
    /\ outages' = outages + 1
    /\ UNCHANGED <<queueVars, inbox, audits, kind, faults, pc, batch, handle, current>>

Exit(c) ==
    /\ pc[c] = "idle"
    /\ ~running[c]
    /\ pc' = [pc EXCEPT ![c] = "down"]
    /\ UNCHANGED <<queueVars, inbox, audits, running, batch, handle, current, envVars>>

Restart(c) ==
    /\ pc[c] = "down"
    /\ pc'      = [pc EXCEPT ![c] = "idle"]
    /\ running' = [running EXCEPT ![c] = TRUE]
    /\ UNCHANGED <<queueVars, inbox, audits, batch, handle, current, envVars>>

-------------------------------------------------------------------------------
Work(c) ==
    \E m \in Messages :
        \/ ParseFails(c, m) \/ Discard(c, m)
        \/ LookUp(c, m) \/ LookUpFails(c, m)
        \/ Insert(c, m) \/ InsertFails(c, m)
        \/ Process(c, m) \/ ProcessFails(c, m)
        \/ Undo(c, m) \/ UndoFails(c, m)
        \/ DeleteMessage(c, m) \/ DeleteFails(c, m)

Next ==
    \/ \E m \in Messages : Send(m) \/ Expire(m) \/ DeadLetter(m) \/ ReceiveLost(m)
    \/ \E e \in Events : Prune(e)
    \/ \E c \in Consumers : Receive(c) \/ Work(c) \/ Crash(c) \/ Stop(c) \/ Exit(c) \/ Restart(c)

Spec == Init /\ [][Next]_vars

(* The poll loop runs on, timeouts pass, SQS enforces its redrive policy    *)
(* and stopped processes are started again.                                 *)
Fairness ==
    /\ \A m \in Messages : WF_vars(Expire(m)) /\ WF_vars(DeadLetter(m))
    /\ \A c \in Consumers : /\ WF_vars(Receive(c)) /\ WF_vars(Work(c))
                            /\ WF_vars(Exit(c)) /\ WF_vars(Restart(c))

FairSpec == Spec /\ Fairness

-------------------------------------------------------------------------------
(* Properties *)

(* Every variable keeps its type; no message is received more than          *)
(* MaxReceives times.                                                       *)
TypeOK ==
    /\ place    \in [Messages -> Places]
    /\ receives \in [Messages -> 0..MaxReceives]
    /\ inbox    \subseteq Events
    /\ audits   \in [Messages -> 0..MaxReceives]
    /\ pc       \in [Consumers -> Stages]
    /\ running  \in [Consumers -> BOOLEAN]
    /\ batch    \in [Consumers -> SUBSET Messages]
    /\ handle   \in [Consumers -> [Messages -> 0..MaxReceives]]
    /\ current  \in [Consumers -> SUBSET Messages]
    /\ [kind |-> kind, faults |-> faults] \in Scenarios
    /\ outages  \in 0..MaxOutages

(* Every audit entry is paid for by a receipt of its message: no path of    *)
(* one receipt writes two, and none is written for a message never received.*)
AuditsPerReceipt == \A m \in Messages : audits[m] <= receives[m]

MessagesOf(e) == {m \in Messages : Event[m] = e /\ kind[m] = "advice"}
Audited(e)    == \E m \in MessagesOf(e) : audits[m] > 0

(* The event can still be handled: a copy is on the queue or in the         *)
(* dead-letter queue, or a consumer is past its reservation.                *)
Recoverable(e) ==
    \/ \E m \in MessagesOf(e) : place[m] \in {"visible", "inflight", "dead"}
    \/ \E c \in Consumers : pc[c] = "processing" /\ current[c] \cap MessagesOf(e) # {}

(* An advice event whose messages are deleted has been audited, or still    *)
(* can be: deleting a message as a duplicate never deletes the last trace   *)
(* of an unhandled event.                                                   *)
EventNotLost ==
    \A e \in Events :
        (\E m \in MessagesOf(e) : place[m] = "deleted") => Audited(e) \/ Recoverable(e)

(* An event is lost in two ways only: a query of the reservation that      *)
(* fails, or that the policies refuse, is taken for a duplicate, or a      *)
(* message times out while it is handled, a second consumer deletes it as  *)
(* a duplicate, and the first one then fails. Crashes, failing handlers,   *)
(* releases and deletes, and lost answers of SQS alone lose nothing, nor   *)
(* do timeouts and shutdowns alone.                                        *)
LossNeedsReservationRace ==
    /\ faults \cap {"reserve", "reserveLost", "policies"} = {}
    /\ "slow" \in faults => faults \cap {"crash", "audit"} = {}
    => EventNotLost

(* "Duplicates are silently ignored": an event sent and received more than  *)
(* once leaves one audit entry.                                             *)
DuplicatesIgnored ==
    \A e \in Events : \A m, n \in MessagesOf(e) :
        m # n => audits[m] + audits[n] <= 1

(* An orderly shutdown repeats nothing: each message that is handled at all *)
(* is audited by one receipt, because the process waits for its batch.      *)
ShutdownRepeatsNothing ==
    faults \subseteq {"shutdown"} =>
        /\ \A m \in Messages : audits[m] <= 1
        /\ \A c \in Consumers : \A m \in batch[c] : place[m] = "inflight"

(* Every message put on the queue leaves it, handled or dead-lettered.      *)
QueueDrains == \A m \in Messages : place[m] = "visible" ~> place[m] \in {"deleted", "dead"}

===============================================================================
