---------------------------- MODULE AdviceGeneration ----------------------------
(***************************************************************************)
(* POST /advice/generate: GenerateAdviceHandler and the transaction of     *)
(* TypeOrmAdviceRepository.createWithOutbox.  A request reads its match,   *)
(* evaluates it, stores the advice and its outbox event in one             *)
(* transaction on a pooled connection, writes an audit entry and publishes *)
(* a local event.  Each await is a step boundary: matches change, other    *)
(* requests run and calls fail in between.  A client whose request failed  *)
(* may send it again; each try makes an advice with a new id.              *)
(***************************************************************************)
EXTENDS AdvicePolicy, FiniteSets

CONSTANTS
    Matches,        \* matches that may be created
    Requests,       \* requests of clients
    Target,         \* Target[r]: the matchId of request r
    PoolSize,       \* connections of the database pool
    MaxTries,       \* bound on the tries of a request
    MaxVersion,     \* bound on a match's version
    MaxCrashes,     \* bound on crashes of the API process
    FaultProfiles   \* the environments: which kinds of fault may occur together

FaultKinds == {"read",       \* a query for the match fails
               "db",         \* a call of the transaction fails
               "dbLost",     \* the COMMIT takes effect, its answer is lost
               "audit",      \* an audit entry cannot be written
               "auditLost",  \* it is written, the answer is lost
               "crash"}      \* the API process dies

ASSUME ConstantsAssumption ==
    /\ Target \in [Requests -> Matches]
    /\ PoolSize \in Nat \ {0}
    /\ MaxTries \in Nat \ {0}
    /\ MaxVersion \in Nat \ {0}
    /\ MaxCrashes \in Nat
    /\ FaultProfiles \subseteq SUBSET FaultKinds

VARIABLES
    status, version, auditing, matchAudits,   \* the matches, see MatchLifecycle
    pc,         \* pc[r]: where the handler of request r stands
    try,        \* try[r]: tries of request r so far
    draft,      \* draft[r]: decision of the advice being stored, or NONE
    free,       \* connections left in the pool
    advice,     \* advice[id]: decision of the stored advice, or NONE
    events,     \* ids with an outbox event
    audits,     \* ids with an ADVICE_GENERATED audit entry of the handler
    announced,  \* ids published on the local event bus
    answer,     \* answer[r]: what the client knows of its last try
    faults,     \* the kinds of fault of this environment, fixed
    crashes     \* crashes so far

matchVars   == <<status, version, auditing, matchAudits>>
storeVars   == <<advice, events>>
traceVars   == <<audits, announced>>
envVars     == <<faults, crashes>>
vars == <<status, version, auditing, matchAudits, pc, try, draft, free, advice,
          events, audits, announced, answer, faults, crashes>>

Match == INSTANCE MatchLifecycle

(* "saving" inserts the advice and "recording" the event inside the         *)
(* transaction; "auditing" and "announcing" are past the commit.            *)
Stages    == {"idle", "reading", "connecting", "saving", "recording", "committing",
              "auditing", "announcing"}
InTransaction == {"saving", "recording", "committing"}

Answers  == {"none", "created", "notFound", "error"}
Ids      == Requests \X (1..MaxTries)
Id(r)    == <<r, try[r]>>

Init ==
    /\ Match!Init
    /\ pc        = [r \in Requests |-> "idle"]
    /\ try       = [r \in Requests |-> 0]
    /\ draft     = [r \in Requests |-> "NONE"]
    /\ free      = PoolSize
    /\ advice    = [id \in Ids |-> "NONE"]
    /\ events    = {}
    /\ audits    = {}
    /\ announced = {}
    /\ answer    = [r \in Requests |-> "none"]
    /\ faults    \in FaultProfiles
    /\ crashes   = 0

-------------------------------------------------------------------------------
(* A step of the matches. *)
MatchStep ==
    /\ Match!Next
    /\ UNCHANGED <<pc, try, draft, free, storeVars, traceVars, answer, envVars>>

(* A client sends its request, or sends it again after an error. *)
Send(r) ==
    /\ pc[r] = "idle" /\ answer[r] \in {"none", "error"}
    /\ try[r] < MaxTries
    /\ pc'     = [pc EXCEPT ![r] = "reading"]
    /\ try'    = [try EXCEPT ![r] = @ + 1]
    /\ answer' = [answer EXCEPT ![r] = "none"]
    /\ UNCHANGED <<matchVars, draft, free, storeVars, traceVars, envVars>>

(* The handler ends with an answer for the client. *)
Reply(r, a) ==
    /\ pc'     = [pc EXCEPT ![r] = "idle"]
    /\ draft'  = [draft EXCEPT ![r] = "NONE"]
    /\ answer' = [answer EXCEPT ![r] = a]

(* The handler goes on. *)
Goto(r, stage) ==
    /\ pc' = [pc EXCEPT ![r] = stage]
    /\ UNCHANGED answer

(* What the handler evaluates: its prediction and quote are fixed, and it   *)
(* claims a provider and a model whether or not there is one.               *)
Evidence(m) ==
    [hasProvider |-> TRUE, match |-> status[m], hasModel |-> TRUE,
     hasQuote |-> TRUE, suspended |-> FALSE, stale |-> FALSE,
     quality |-> 100, lower |-> 60, upper |-> 66, calibrated |-> 63, odds |-> 190,
     ties |-> {}]

ReadMatch(r) ==
    /\ pc[r] = "reading"
    /\ status[Target[r]] # "ABSENT"
    /\ draft' = [draft EXCEPT ![r] = Evaluate(Evidence(Target[r])).decision]
    /\ Goto(r, "connecting")
    /\ UNCHANGED <<matchVars, try, free, storeVars, traceVars, envVars>>

(* findById turns every error into null, which the handler reports as a     *)
(* match that does not exist.                                               *)
MatchNotFound(r) ==
    /\ pc[r] = "reading"
    /\ status[Target[r]] = "ABSENT" \/ "read" \in faults
    /\ Reply(r, "notFound")
    /\ UNCHANGED <<matchVars, try, free, storeVars, traceVars, envVars>>

-------------------------------------------------------------------------------
(* createWithOutbox *)

Connect(r) ==
    /\ pc[r] = "connecting"
    /\ free > 0
    /\ free' = free - 1
    /\ Goto(r, "saving")
    /\ UNCHANGED <<matchVars, try, draft, storeVars, traceVars, envVars>>

(* Seeded fault: a connection that was never taken is released. *)
ConnectFailsReleasing(r) ==
    /\ "db" \in faults
    /\ pc[r] = "connecting"
    /\ free' = free + 1
    /\ Reply(r, "error")
    /\ UNCHANGED <<matchVars, try, storeVars, traceVars, envVars>>

ConnectFails(r) ==
    /\ "db" \in faults
    /\ pc[r] = "connecting"
    /\ Reply(r, "error")
    /\ UNCHANGED <<matchVars, try, free, storeVars, traceVars, envVars>>

SaveAdvice(r) ==
    /\ pc[r] = "saving"
    /\ Goto(r, "recording")
    /\ UNCHANGED <<matchVars, try, draft, free, storeVars, traceVars, envVars>>

(* Seeded fault: the rows are saved outside the transaction. *)
SaveEventAtOnce(r) ==
    /\ pc[r] = "recording"
    /\ advice' = [advice EXCEPT ![Id(r)] = draft[r]]
    /\ events' = events \cup {Id(r)}
    /\ Goto(r, "committing")
    /\ UNCHANGED <<matchVars, try, draft, free, traceVars, envVars>>

SaveEvent(r) ==
    /\ pc[r] = "recording"
    /\ Goto(r, "committing")
    /\ UNCHANGED <<matchVars, try, draft, free, storeVars, traceVars, envVars>>

(* The transaction becomes visible and the connection returns to the pool. *)
Store(r) ==
    /\ advice' = [advice EXCEPT ![Id(r)] = draft[r]]
    /\ events' = events \cup {Id(r)}
    /\ free'   = free + 1

(* Seeded fault: the audit entry is written but not awaited. *)
CommitAndAnswer(r) ==
    /\ pc[r] = "committing"
    /\ Store(r)
    /\ Reply(r, "created")
    /\ UNCHANGED <<matchVars, try, traceVars, envVars>>

Commit(r) ==
    /\ pc[r] = "committing"
    /\ Store(r)
    /\ Goto(r, "auditing")
    /\ UNCHANGED <<matchVars, try, draft, traceVars, envVars>>

CommitUnanswered(r) ==
    /\ "dbLost" \in faults
    /\ pc[r] = "committing"
    /\ Store(r)
    /\ Reply(r, "error")
    /\ UNCHANGED <<matchVars, try, traceVars, envVars>>

(* Seeded fault: the connection is released on success only. *)
AbortLeaking(r) ==
    /\ "db" \in faults
    /\ pc[r] \in InTransaction
    /\ Reply(r, "error")
    /\ UNCHANGED <<matchVars, try, free, storeVars, traceVars, envVars>>

(* A call of the transaction fails: rollback, release, rethrow. *)
Abort(r) ==
    /\ "db" \in faults
    /\ pc[r] \in InTransaction
    /\ free' = free + 1
    /\ Reply(r, "error")
    /\ UNCHANGED <<matchVars, try, storeVars, traceVars, envVars>>

-------------------------------------------------------------------------------
(* After the transaction *)

Audit(r) ==
    /\ pc[r] = "auditing"
    /\ audits' = audits \cup {Id(r)}
    /\ Goto(r, "announcing")
    /\ UNCHANGED <<matchVars, try, draft, free, storeVars, announced, envVars>>

(* The client gets an error for an advice that exists and will be relayed. *)
AuditFails(r) ==
    /\ pc[r] = "auditing"
    /\ \/ "audit" \in faults /\ UNCHANGED audits
       \/ "auditLost" \in faults /\ audits' = audits \cup {Id(r)}
    /\ Reply(r, "error")
    /\ UNCHANGED <<matchVars, try, free, storeVars, announced, envVars>>

Announce(r) ==
    /\ pc[r] = "announcing"
    /\ announced' = announced \cup {Id(r)}
    /\ Reply(r, "created")
    /\ UNCHANGED <<matchVars, try, free, storeVars, audits, envVars>>

(* The API process dies and is started again: open transactions roll back,  *)
(* and every client with a request in progress sees an error.               *)
Crash ==
    /\ "crash" \in faults
    /\ crashes < MaxCrashes
    /\ crashes' = crashes + 1
    /\ pc'      = [r \in Requests |-> "idle"]
    /\ draft'   = [r \in Requests |-> "NONE"]
    /\ answer'  = [r \in Requests |-> IF pc[r] = "idle" THEN answer[r] ELSE "error"]
    /\ free'    = PoolSize
    /\ auditing' = {}
    /\ UNCHANGED <<status, version, matchAudits, try, storeVars, traceVars, faults>>

-------------------------------------------------------------------------------
(* The steps of a request but a failing connect: with an empty pool the     *)
(* request just waits.                                                      *)
Handle(r) ==
    \/ ReadMatch(r) \/ MatchNotFound(r)
    \/ Connect(r)
    \/ SaveAdvice(r) \/ SaveEvent(r)
    \/ Commit(r) \/ CommitUnanswered(r) \/ Abort(r)
    \/ Audit(r) \/ AuditFails(r) \/ Announce(r)

Next ==
    \/ MatchStep
    \/ Crash
    \/ \E r \in Requests : Send(r) \/ Handle(r) \/ ConnectFails(r)

Spec == Init /\ [][Next]_vars

(* Promise continuations run, and the pool hands a free connection to every *)
(* waiting request in turn.                                                 *)
Fairness == \A r \in Requests : WF_vars(Handle(r)) /\ SF_vars(Connect(r))

FairSpec == Spec /\ Fairness

-------------------------------------------------------------------------------
(* Properties *)

(* Every variable keeps its type, and the pool never holds more connections *)
(* than it has: each is taken by one request in a transaction, or free.     *)
TypeOK ==
    /\ status      \in [Matches -> Match!Statuses]
    /\ version     \in [Matches -> 0..MaxVersion]
    /\ auditing    \subseteq Matches
    /\ matchAudits \subseteq Matches
    /\ pc          \in [Requests -> Stages]
    /\ try         \in [Requests -> 0..MaxTries]
    /\ draft       \in [Requests -> Decisions \cup {"NONE"}]
    /\ free        \in 0..PoolSize
    /\ advice      \in [Ids -> Decisions \cup {"NONE"}]
    /\ events      \subseteq Ids
    /\ audits      \subseteq Ids
    /\ announced   \subseteq Ids
    /\ answer      \in [Requests -> Answers]
    /\ faults      \in FaultProfiles
    /\ crashes     \in 0..MaxCrashes

(* The traces of an advice never run ahead of it, and a client that was     *)
(* told "created" finds the advice, its event, its audit entry and the      *)
(* local publication, of the very try it was answered for.                  *)
TracesFollowCommit ==
    /\ announced \subseteq audits /\ audits \subseteq events
    /\ \A r \in Requests : answer[r] = "created" => Id(r) \in announced

(* A client that repeats a failed request multiplies its advice only when   *)
(* the failure came after the commit: a failing read, connection or         *)
(* transaction leaves nothing behind.                                       *)
OneAdvicePerRequest ==
    faults \cap {"dbLost", "audit", "auditLost", "crash"} = {} =>
        \A r \in Requests : Cardinality({id \in events : id[1] = r}) <= 1

(* Every request sent is answered: no failure leaks a connection until the  *)
(* pool is empty and the next requests wait for ever.                       *)
EveryRequestAnswered ==
    \A r \in Requests : pc[r] = "reading" ~> answer[r] # "none"

===============================================================================
