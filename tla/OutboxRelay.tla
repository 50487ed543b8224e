------------------------------ MODULE OutboxRelay ------------------------------
(***************************************************************************)
(* The outbox relay: the workers of src/src/outbox that move committed     *)
(* events from the table outbox_events to the SQS queue.                   *)
(*                                                                         *)
(* A worker process runs processOutbox on a timer, one cycle at a time: it *)
(* locks the oldest due rows (FOR UPDATE SKIP LOCKED), claims and loads    *)
(* them in the same transaction, then publishes them one by one, writing   *)
(* each outcome back to its row.  Every await is a step boundary here, so  *)
(* other workers, crashes, shutdowns and errors fall between any two.      *)
(*                                                                         *)
(* Events are numbered in the order of created_at, which is not the order  *)
(* in which their transactions commit.  Time is the number of ticks left   *)
(* until a row's next_attempt_at.                                          *)
(***************************************************************************)
EXTENDS Integers, FiniteSets

CONSTANTS
    Events,        \* events the application may commit, by created_at
    Workers,       \* processes that run an OutboxRelayService
    BatchSize,     \* sqs.outboxRelayBatchSize
    MaxAttempts,   \* sqs.outboxRelayMaxAttempts
    BaseDelay,     \* baseDelayMs, in ticks
    MaxDelay,      \* the 60000 ms cap, in ticks
    Jitter,        \* the largest random part of a backoff, in ticks
    FaultProfiles, \* the environments: which of FaultKinds occur together
    MaxOutages     \* bound on crashes and shutdowns together

FaultKinds == {"send",       \* SQS rejects a message
               "sendLost",   \* SQS accepts a message and the answer is lost
               "db",         \* a database call fails without effect
               "dbLost",     \* a database call takes effect, its answer is lost
               "crash",      \* a worker process dies
               "shutdown",   \* a worker process is told to stop
               "policies"}   \* the database role is subject to the tenant policies

ASSUME ConstantsAssumption ==
    /\ Events \subseteq Nat
    /\ IsFiniteSet(Events)
    /\ BatchSize \in Nat \ {0}
    /\ MaxAttempts \in Nat \ {0}
    /\ BaseDelay \in Nat /\ MaxDelay \in Nat /\ Jitter \in Nat
    /\ FaultProfiles \subseteq SUBSET FaultKinds
    /\ MaxOutages \in Nat

VARIABLES
    status,      \* status[e]: the row's status, ABSENT before its transaction
    attempts,    \* attempts[e]: the row's attempt_count
    wait,        \* wait[e]: ticks until the row's next_attempt_at
    sent,        \* sent[e]: publish calls the queue accepted for e (history);
                 \* what the SDK repeats inside one call is not counted
    pc,          \* pc[w]: where worker w's cycle stands
    timer,       \* timer[w]: the interval is armed
    held,        \* held[w]: rows w locks, or entities of its batch left to do
    copy,        \* copy[w]: attemptCount of the entities w loaded
    current,     \* current[w]: the singleton of the entity being relayed, or {}
    faults,      \* this environment, fixed from the start
    outages      \* crashes and shutdowns so far

rowVars    == <<status, attempts, wait>>
workerVars == <<pc, timer, held, copy, current>>
envVars    == <<faults, outages>>
vars       == <<status, attempts, wait, sent, pc, timer, held, copy, current, faults, outages>>

Statuses == {"ABSENT", "PENDING", "CLAIMED", "PUBLISHED", "FAILED"}

(* Stages of processOutbox.  "idle" is processing = false; "claiming" is    *)
(* inside the claim transaction; "relaying" is between two entities of the  *)
(* batch; "marking" has published and is about to write PUBLISHED;          *)
(* "recording" is in the catch block; "down" is no process at all.          *)
Stages     == {"down", "idle", "claiming", "relaying", "marking", "recording"}
BatchStages == {"relaying", "marking", "recording"}

NoCopy == [e \in Events |-> 0]

Init ==
    /\ status   = [e \in Events |-> "ABSENT"]
    /\ attempts = [e \in Events |-> 0]
    /\ wait     = [e \in Events |-> 0]
    /\ sent     = [e \in Events |-> 0]
    /\ pc       = [w \in Workers |-> "idle"]
    /\ timer    = [w \in Workers |-> TRUE]
    /\ held     = [w \in Workers |-> {}]
    /\ copy     = [w \in Workers |-> NoCopy]
    /\ current  = [w \in Workers |-> {}]
    /\ faults   \in FaultProfiles
    /\ outages  = 0

-------------------------------------------------------------------------------
(* Rows and batches *)

Locked == UNION {held[w] : w \in {v \in Workers : pc[v] = "claiming"}}

(* Seeded fault: the policies restrict what is written, not what is read. *)
SeenByAll == Events

(* The rows a query of a worker sees.  It runs outside any tenant context,  *)
(* so nothing sets app.current_tenant_id, and the policy of outbox_events   *)
(* shows a role that is subject to it no row at all.                        *)
Seen == IF "policies" \in faults THEN {} ELSE Events

Pending == {e \in Seen : status[e] = "PENDING" /\ wait[e] = 0}

(* Seeded fault: the claim query without SKIP LOCKED's exclusion. *)
DueIgnoringLocks == Pending

(* Seeded fault: a claim query that takes CLAIMED rows whatever their lease. *)
DueOrClaimed == {e \in Seen : status[e] \in {"PENDING", "CLAIMED"} /\ wait[e] = 0} \ Locked

(* The rows the claim query may return: due, and not skipped as locked. *)
Due == Pending \ Locked

(* ORDER BY created_at LIMIT BatchSize. *)
Batch(due) == {e \in due : Cardinality({d \in due : d < e}) < BatchSize}

Backoff(n) == LET delay == BaseDelay * 2^n
              IN  IF delay \in 0..MaxDelay THEN delay ELSE MaxDelay

(* Seeded fault: the attempt limit compared with > instead of >=. *)
OutcomeOneLate(n) == IF n > MaxAttempts THEN "FAILED" ELSE "PENDING"

OutcomeOf(n) == IF n >= MaxAttempts THEN "FAILED" ELSE "PENDING"

(* Worker w leaves the cycle, forgetting what it still held. *)
EndCycle(w, stage) ==
    /\ pc'      = [pc EXCEPT ![w] = stage]
    /\ held'    = [held EXCEPT ![w] = {}]
    /\ copy'    = [copy EXCEPT ![w] = NoCopy]
    /\ current' = [current EXCEPT ![w] = {}]

(* Seeded fault: the finally block is missing, processing is never reset. *)
FinishWithoutReset(w, e) ==
    /\ pc'      = [pc EXCEPT ![w] = "relaying"]
    /\ held'    = [held EXCEPT ![w] = @ \ {e}]
    /\ copy'    = [copy EXCEPT ![w][e] = 0]
    /\ current' = [current EXCEPT ![w] = {}]

(* Worker w is done with entity e: on to the next one, or the cycle ends. *)
Finish(w, e) ==
    IF held[w] = {e}
    THEN EndCycle(w, "idle")
    ELSE /\ pc'      = [pc EXCEPT ![w] = "relaying"]
         /\ held'    = [held EXCEPT ![w] = @ \ {e}]
         /\ copy'    = [copy EXCEPT ![w][e] = 0]
         /\ current' = [current EXCEPT ![w] = {}]

-------------------------------------------------------------------------------
(* The application and the clock *)

(* createWithOutbox: the aggregate's transaction commits its outbox row. *)
CommitEvent(e) ==
    /\ status[e] = "ABSENT"
    /\ status' = [status EXCEPT ![e] = "PENDING"]
    /\ UNCHANGED <<attempts, wait, sent, workerVars, envVars>>

Tick ==
    /\ \E e \in Events : wait[e] > 0
    /\ wait' = [e \in Events |-> IF wait[e] > 0 THEN wait[e] - 1 ELSE 0]
    /\ UNCHANGED <<status, attempts, sent, workerVars, envVars>>

-------------------------------------------------------------------------------
(* The claim transaction *)

(* The timer fires, processing is false, and the query locks rows.  When it *)
(* finds none the cycle ends as it began.                                   *)
LockBatch(w) ==
    /\ pc[w] = "idle"
    /\ timer[w]
    /\ Batch(Due) # {}
    /\ held' = [held EXCEPT ![w] = Batch(Due)]
    /\ pc'   = [pc EXCEPT ![w] = "claiming"]
    /\ UNCHANGED <<rowVars, sent, timer, copy, current, envVars>>

(* UPDATE to CLAIMED, load the entities, COMMIT. *)
ClaimRows(w) ==
    status' = [e \in Events |-> IF e \in held[w] THEN "CLAIMED" ELSE status[e]]

ClaimBatch(w) ==
    /\ pc[w] = "claiming"
    /\ ClaimRows(w)
    /\ copy' = [copy EXCEPT ![w] = [e \in Events |-> IF e \in held[w] THEN attempts[e] ELSE 0]]
    /\ pc'   = [pc EXCEPT ![w] = "relaying"]
    /\ UNCHANGED <<attempts, wait, sent, timer, held, current, envVars>>

(* A statement of the transaction fails: rollback, the error is logged. *)
AbortClaim(w) ==
    /\ "db" \in faults
    /\ pc[w] = "claiming"
    /\ EndCycle(w, "idle")
    /\ UNCHANGED <<rowVars, sent, timer, envVars>>

(* The COMMIT takes effect and its answer is lost: the worker believes the *)
(* claim failed, and the rows stay CLAIMED.                                *)
LoseClaim(w) ==
    /\ "dbLost" \in faults
    /\ pc[w] = "claiming"
    /\ ClaimRows(w)
    /\ EndCycle(w, "idle")
    /\ UNCHANGED <<attempts, wait, sent, timer, envVars>>

-------------------------------------------------------------------------------
(* relayEvent *)

(* getMany gives the loaded rows no order, so any of them may be next. *)
BeginRelay(w, e, stage) ==
    /\ pc[w] = "relaying"
    /\ e \in held[w]
    /\ current' = [current EXCEPT ![w] = {e}]
    /\ pc'      = [pc EXCEPT ![w] = stage]
    /\ UNCHANGED <<rowVars, timer, held, copy, envVars>>

Deliver(e) == sent' = [sent EXCEPT ![e] = @ + 1]

Publish(w, e) ==
    /\ BeginRelay(w, e, "marking")
    /\ Deliver(e)

(* Seeded fault: the queue adapter swallows the error instead of rethrowing. *)
PublishSwallowed(w, e) ==
    /\ "send" \in faults
    /\ BeginRelay(w, e, "marking")
    /\ UNCHANGED sent

PublishRejected(w, e) ==
    /\ "send" \in faults
    /\ BeginRelay(w, e, "recording")
    /\ UNCHANGED sent

PublishUnanswered(w, e) ==
    /\ "sendLost" \in faults
    /\ BeginRelay(w, e, "recording")
    /\ Deliver(e)

MarkPublished(w, e) ==
    /\ pc[w] = "marking"
    /\ e \in current[w]
    /\ status' = [status EXCEPT ![e] = "PUBLISHED"]
    /\ Finish(w, e)
    /\ UNCHANGED <<attempts, wait, sent, timer, envVars>>

(* The update throws after the message went out: the catch block treats it *)
(* like a failed publish.                                                  *)
MarkFails(w, e) ==
    /\ pc[w] = "marking"
    /\ e \in current[w]
    /\ \/ "db" \in faults /\ UNCHANGED status
       \/ "dbLost" \in faults /\ status' = [status EXCEPT ![e] = "PUBLISHED"]
    /\ pc' = [pc EXCEPT ![w] = "recording"]
    /\ UNCHANGED <<attempts, wait, sent, timer, held, copy, current, envVars>>

(* Seeded fault: the attempt is not counted. *)
WriteUncounted(w, e) ==
    LET n == copy[w][e]
    IN  \E j \in 0..Jitter :
            /\ attempts' = [attempts EXCEPT ![e] = n]
            /\ status'   = [status EXCEPT ![e] = OutcomeOf(n)]
            /\ wait'     = [wait EXCEPT ![e] = Backoff(n) + j]

(* The catch block's update by id: no owner, status or lease is compared. *)
WriteFailure(w, e) ==
    LET n == copy[w][e] + 1
    IN  \E j \in 0..Jitter :
            /\ attempts' = [attempts EXCEPT ![e] = n]
            /\ status'   = [status EXCEPT ![e] = OutcomeOf(n)]
            /\ wait'     = [wait EXCEPT ![e] = Backoff(n) + j]

(* Seeded fault: a failed event ends the whole cycle. *)
RecordAndReturn(w, e) ==
    /\ pc[w] = "recording"
    /\ e \in current[w]
    /\ WriteFailure(w, e)
    /\ EndCycle(w, "idle")
    /\ UNCHANGED <<sent, timer, envVars>>

RecordFailure(w, e) ==
    /\ pc[w] = "recording"
    /\ e \in current[w]
    /\ WriteFailure(w, e)
    /\ Finish(w, e)
    /\ UNCHANGED <<sent, timer, envVars>>

(* That update throws too: the error leaves the loop over the batch, and    *)
(* the entities not yet relayed are dropped with their rows still CLAIMED.  *)
RecordFails(w, e) ==
    /\ pc[w] = "recording"
    /\ e \in current[w]
    /\ \/ "db" \in faults /\ UNCHANGED rowVars
       \/ "dbLost" \in faults /\ WriteFailure(w, e)
    /\ EndCycle(w, "idle")
    /\ UNCHANGED <<sent, timer, envVars>>

-------------------------------------------------------------------------------
(* Processes *)

(* The process dies: an open transaction rolls back, memory is gone. *)
Crash(w) ==
    /\ "crash" \in faults
    /\ outages < MaxOutages
    /\ pc[w] # "down"
    /\ EndCycle(w, "down")
    /\ timer'   = [timer EXCEPT ![w] = FALSE]
    /\ outages' = outages + 1
    /\ UNCHANGED <<rowVars, sent, faults>>

(* onModuleDestroy: the interval is cleared, a running cycle goes on. *)
Stop(w) ==
    /\ "shutdown" \in faults
    /\ outages < MaxOutages
    /\ timer[w]
    /\ timer'   = [timer EXCEPT ![w] = FALSE]
    /\ outages' = outages + 1
    /\ UNCHANGED <<rowVars, sent, pc, held, copy, current, faults>>

(* After the shutdown hooks the process exits; nothing waited for the cycle. *)
Exit(w) ==
    /\ pc[w] # "down"
    /\ ~timer[w]
    /\ EndCycle(w, "down")
    /\ UNCHANGED <<rowVars, sent, timer, envVars>>

(* onModuleInit of a new process. *)
Restart(w) ==
    /\ pc[w] = "down"
    /\ pc'    = [pc EXCEPT ![w] = "idle"]
    /\ timer' = [timer EXCEPT ![w] = TRUE]
    /\ UNCHANGED <<rowVars, sent, held, copy, current, envVars>>

-------------------------------------------------------------------------------
Relay(w) ==
    \/ LockBatch(w)
    \/ ClaimBatch(w) \/ AbortClaim(w) \/ LoseClaim(w)
    \/ \E e \in Events :
          \/ Publish(w, e) \/ PublishRejected(w, e) \/ PublishUnanswered(w, e)
          \/ MarkPublished(w, e) \/ MarkFails(w, e)
          \/ RecordFailure(w, e) \/ RecordFails(w, e)

Process(w) == Crash(w) \/ Stop(w) \/ Exit(w) \/ Restart(w)

Next ==
    \/ \E e \in Events : CommitEvent(e)
    \/ Tick
    \/ \E w \in Workers : Relay(w) \/ Process(w)

Spec == Init /\ [][Next]_vars

(* The timer and the promise continuations keep an unfinished cycle moving, *)
(* the clock runs, a stopped process exits and is started again, and the    *)
(* database does not reject the same worker's claims for ever.              *)
Fairness ==
    /\ WF_vars(Tick)
    /\ \A w \in Workers : /\ WF_vars(Relay(w))
                          /\ SF_vars(ClaimBatch(w))
                          /\ WF_vars(Exit(w))
                          /\ WF_vars(Restart(w))

FairSpec == Spec /\ Fairness

-------------------------------------------------------------------------------
(* Properties *)

(* Every variable keeps its type; an attempt count never passes MaxAttempts *)
(* and no event is handed to the queue more than MaxAttempts times.         *)
TypeOK ==
    /\ status   \in [Events -> Statuses]
    /\ attempts \in [Events -> 0..MaxAttempts]
    /\ wait     \in [Events -> 0..(MaxDelay + Jitter)]
    /\ sent     \in [Events -> 0..MaxAttempts]
    /\ pc       \in [Workers -> Stages]
    /\ timer    \in [Workers -> BOOLEAN]
    /\ held     \in [Workers -> SUBSET Events]
    /\ copy     \in [Workers -> [Events -> 0..MaxAttempts]]
    /\ current  \in [Workers -> SUBSET Events]
    /\ faults   \in FaultProfiles
    /\ outages  \in 0..MaxOutages

(* No event is in the hands of two workers: neither two open claim          *)
(* transactions, nor a claim transaction and a batch being relayed, nor two *)
(* batches share a row, although no update compares claim_owner.            *)
ClaimExclusive ==
    \A v, w \in Workers : v # w => held[v] \cap held[w] = {}

(* Each accepted message is paid for by one attempt, whichever answers were *)
(* lost on the way: a row that is due or given up was never sent more often *)
(* than its attempt_count says, one more send can only be the one of the    *)
(* current claim, and a PUBLISHED row was sent at least once.               *)
SendsAccounted ==
    \A e \in Events :
        /\ sent[e] <= attempts[e] + 1
        /\ status[e] \in {"ABSENT", "PENDING", "FAILED"} => sent[e] <= attempts[e]
        /\ status[e] = "PUBLISHED" => sent[e] > 0

(* The tenant policies hold against the worker as well: the relay acts for  *)
(* no tenant, so under a role that is subject to them it claims, sends and  *)
(* changes no event of any tenant, whatever fails and however often it      *)
(* tries.  The price is that none is ever delivered.                        *)
PoliciesBindRelay ==
    "policies" \in faults =>
        \A e \in Events : status[e] \in {"ABSENT", "PENDING"} /\ attempts[e] + sent[e] = 0

Orphaned(e) == status[e] = "CLAIMED" /\ \A w \in Workers : e \notin held[w]

(* A claim that lost its worker stays CLAIMED for ever: lease_until is      *)
(* written and never read, so nothing takes the row back.                   *)
OrphansStay == [][\A e \in Events : Orphaned(e) => Orphaned(e)']_vars

(* As long as only SQS misbehaves, every claimed row is in some worker's    *)
(* batch: a failing publish, however it fails, strands no event.            *)
ClaimsAreHeld ==
    faults \subseteq {"send", "sendLost"} => \A e \in Events : ~Orphaned(e)

(* With no crash, shutdown or database error, and a database role exempt    *)
(* from the tenant policies, every committed event ends as PUBLISHED or     *)
(* FAILED, whatever SQS does and however batches interleave.  A role that   *)
(* is subject to the policies claims no event, ever.                        *)
Settles ==
    \A e \in Events :
        faults \subseteq {"send", "sendLost"} /\ status[e] = "PENDING"
            ~> status[e] \in {"PUBLISHED", "FAILED"}

(* The at-least-once promise: a committed event is eventually accepted by   *)
(* the queue, unless all its attempts were used up.                         *)
DeliveredAtLeastOnce ==
    \A e \in Events : status[e] = "PENDING" ~> (sent[e] > 0 \/ status[e] = "FAILED")

-------------------------------------------------------------------------------
(* Refinement: rows as the phases of the outbox contract *)

PhaseOf(st) == CASE st = "ABSENT"    -> "absent"
                 [] st = "PUBLISHED" -> "published"
                 [] st = "FAILED"    -> "failed"
                 [] OTHER            -> "queued"

Contract == INSTANCE OutboxContract
                WITH phase <- [e \in Events |-> PhaseOf(status[e])]

(* The relay implements the outbox contract: no send of an uncommitted, a   *)
(* published or a failed event, at most MaxAttempts of them, confirmation   *)
(* only after a send, FAILED final, through every fault.                    *)
ContractSpec == Contract!Spec

===============================================================================
