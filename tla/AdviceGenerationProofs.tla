------------------------- MODULE AdviceGenerationProofs -------------------------
(***************************************************************************)
(* Theorems about AdviceGeneration, for any matches, requests, pool size   *)
(* and mixture of faults.  The invariants of the properties are proved one *)
(* after the other, each from the types and from those before it.          *)
(***************************************************************************)
EXTENDS AdviceGeneration, AdvicePolicyProofs, FiniteSetTheorems

(* Where the handler holds an evaluated advice.                             *)
Evaluated == {"connecting", "saving", "recording", "committing"}
Committed == {"auditing", "announcing"}

(* TypeOK but for the pool, and what a request in progress knows.           *)
RequestTypes ==
    /\ pc     \in [Requests -> Stages]
    /\ try    \in [Requests -> 0..MaxTries]
    /\ draft  \in [Requests -> Decisions \cup {"NONE"}]
    /\ answer \in [Requests -> Answers]
    /\ \A r \in Requests : pc[r] # "idle" => try[r] > 0 /\ answer[r] = "none"
    /\ \A r \in Requests : pc[r] \in Evaluated => draft[r] \in Decisions

MatchTypes ==
    /\ status      \in [Matches -> Match!Statuses]
    /\ version     \in [Matches -> 0..MaxVersion]
    /\ auditing    \subseteq Matches
    /\ matchAudits \subseteq Matches

StoreTypes ==
    /\ advice    \in [Ids -> Decisions \cup {"NONE"}]
    /\ events    \subseteq Ids
    /\ audits    \subseteq Ids
    /\ announced \subseteq Ids

EnvTypes == faults \in FaultProfiles /\ crashes \in 0..MaxCrashes

Types == RequestTypes /\ MatchTypes /\ StoreTypes /\ EnvTypes

(* The connections of open transactions and the free ones are the pool.     *)
Transactions == {r \in Requests : pc[r] \in InTransaction}

PoolBalanced ==
    /\ free \in Nat
    /\ IsFiniteSet(Transactions)
    /\ free + Cardinality(Transactions) = PoolSize

-------------------------------------------------------------------------------
(* The steps of a request by what they do to the store *)

StoringStep(r) == Commit(r) \/ CommitUnanswered(r)

TracingStep(r) == Audit(r) \/ AuditFails(r) \/ Announce(r)

PlainStep(r) ==
    \/ Send(r) \/ ReadMatch(r) \/ MatchNotFound(r) \/ Connect(r) \/ ConnectFails(r)
    \/ SaveAdvice(r) \/ SaveEvent(r) \/ Abort(r)

LEMMA NextSplits ==
    Next => \/ MatchStep
            \/ Crash
            \/ \E r \in Requests : PlainStep(r) \/ StoringStep(r) \/ TracingStep(r)
BY DEF Next, Handle, PlainStep, StoringStep, TracingStep

LEMMA PlainKeeps ==
    ASSUME NEW r \in Requests, PlainStep(r)
    PROVE  UNCHANGED <<matchVars, storeVars, traceVars, envVars>>
BY DEF PlainStep, Send, ReadMatch, MatchNotFound, Connect, ConnectFails, SaveAdvice,
       SaveEvent, Abort, matchVars, storeVars, traceVars, envVars

LEMMA StoringKeeps ==
    ASSUME NEW r \in Requests, StoringStep(r)
    PROVE  pc[r] = "committing" /\ Store(r) /\ UNCHANGED <<matchVars, try, traceVars, envVars>>
BY DEF StoringStep, Commit, CommitUnanswered

LEMMA TracingKeeps ==
    ASSUME NEW r \in Requests, TracingStep(r)
    PROVE  /\ pc[r] \in Committed
           /\ UNCHANGED <<matchVars, try, free, storeVars, envVars>>
BY DEF TracingStep, Audit, AuditFails, Announce, Committed

(* The other requests do not notice.                                        *)
LEMMA OthersKept ==
    ASSUME NEW r \in Requests, RequestTypes, PlainStep(r) \/ StoringStep(r) \/ TracingStep(r),
           NEW q \in Requests \ {r}
    PROVE  /\ pc'[q] = pc[q] /\ try'[q] = try[q] /\ draft'[q] = draft[q]
           /\ answer'[q] = answer[q]
BY DEF PlainStep, StoringStep, TracingStep, Send, ReadMatch, MatchNotFound, Connect,
       ConnectFails, SaveAdvice, SaveEvent, Abort, Commit, CommitUnanswered, Audit,
       AuditFails, Announce, Reply, Goto, RequestTypes

-------------------------------------------------------------------------------
(* What the policy decides *)

LEMMA EvaluateDecides ==
    ASSUME NEW m \in Matches
    PROVE  Evaluate(Evidence(m)).decision \in Decisions
BY DEF Evaluate, Evidence, Decisions, Verdict, Abstain, Reject, NoMatch

-------------------------------------------------------------------------------
(* Types *)

LEMMA RequestTypesStep == Types /\ [Next]_vars => RequestTypes'
<1> SUFFICES ASSUME Types, [Next]_vars PROVE RequestTypes'
  OBVIOUS
<1> USE ConstantsAssumption
<1>1. CASE UNCHANGED vars \/ MatchStep
  BY <1>1 DEF vars, MatchStep, Types, RequestTypes
<1>2. CASE Crash
  BY <1>2 DEF Crash, Types, RequestTypes, Stages, Answers, Evaluated
<1>3. ASSUME NEW r \in Requests, PlainStep(r) \/ StoringStep(r) \/ TracingStep(r)
      PROVE  RequestTypes'
  <2>2. CASE Send(r)
    BY <2>2 DEF Send, Types, RequestTypes, Stages, Answers, Evaluated
  <2>3. CASE ReadMatch(r)
    <3>1. Target[r] \in Matches
      OBVIOUS
    <3>2. draft' \in [Requests -> Decisions \cup {"NONE"}] /\ draft'[r] \in Decisions
      BY <2>3, <3>1, EvaluateDecides DEF ReadMatch, Types, RequestTypes
    <3>3. \A q \in Requests \ {r} : draft'[q] = draft[q]
      BY <2>3 DEF ReadMatch, Types, RequestTypes
    <3>4. /\ pc' = [pc EXCEPT ![r] = "connecting"] /\ UNCHANGED <<try, answer>>
          /\ pc[r] = "reading"
      BY <2>3 DEF ReadMatch, Goto
    <3> QED
      BY <3>2, <3>3, <3>4 DEF Types, RequestTypes, Stages, Evaluated
  <2>4. ASSUME NEW to \in Stages, Goto(r, to), UNCHANGED <<try, draft>>, pc[r] # "idle",
               pc[r] \in Evaluated \/ to \in Committed
        PROVE  RequestTypes'
    BY <2>4 DEF Goto, Types, RequestTypes, Stages, Evaluated, Committed
  <2>5. ASSUME NEW a \in Answers, Reply(r, a), UNCHANGED try
        PROVE  RequestTypes'
    BY <2>5 DEF Reply, Types, RequestTypes, Stages, Evaluated
  <2>6. CASE Connect(r) \/ SaveAdvice(r) \/ SaveEvent(r) \/ Commit(r) \/ Audit(r)
    BY <2>4, <2>6 DEF Connect, SaveAdvice, SaveEvent, Commit, Audit, Stages, Evaluated, Committed
  <2>7. CASE \/ MatchNotFound(r) \/ ConnectFails(r) \/ Abort(r) \/ CommitUnanswered(r)
             \/ AuditFails(r) \/ Announce(r)
    BY <2>5, <2>7 DEF MatchNotFound, ConnectFails, Abort, CommitUnanswered, AuditFails,
      Announce, Answers
  <2> QED
    BY <1>3, <2>2, <2>3, <2>6, <2>7 DEF PlainStep, StoringStep, TracingStep
<1> QED
  BY <1>1, <1>2, <1>3, NextSplits

LEMMA MatchTypesStep == Types /\ [Next]_vars => MatchTypes'
<1> SUFFICES ASSUME Types, [Next]_vars PROVE MatchTypes'
  OBVIOUS
<1>1. CASE UNCHANGED vars
  BY <1>1 DEF vars, Types, MatchTypes
<1>2. CASE MatchStep
  <2>1. PICK m \in Matches :
          Match!Create(m) \/ Match!AuditMatch(m) \/ Match!AuditMatchFails(m) \/ Match!Transition(m)
    BY <1>2 DEF MatchStep, Match!Next
  <2>2. CASE Match!Create(m)
    BY <2>2, ConstantsAssumption DEF Match!Create, Types, MatchTypes, Match!Statuses
  <2>3. CASE Match!AuditMatch(m) \/ Match!AuditMatchFails(m)
    BY <2>3 DEF Match!AuditMatch, Match!AuditMatchFails, Types, MatchTypes
  <2>4. CASE Match!Transition(m)
    <3>1. PICK s \in Match!Allowed(status[m]) : status' = [status EXCEPT ![m] = s]
      BY <2>4 DEF Match!Transition
    <3>2. s \in Match!Statuses
      BY <3>1 DEF Match!Allowed, Match!Statuses
    <3> QED
      BY <2>4, <3>1, <3>2, ConstantsAssumption DEF Match!Transition, Types, MatchTypes
  <2> QED
    BY <2>1, <2>2, <2>3, <2>4
<1>3. CASE Crash
  BY <1>3 DEF Crash, Types, MatchTypes
<1>4. ASSUME NEW r \in Requests, PlainStep(r) \/ StoringStep(r) \/ TracingStep(r)
      PROVE  MatchTypes'
  BY <1>4, PlainKeeps, StoringKeeps, TracingKeeps DEF matchVars, Types, MatchTypes
<1> QED
  BY <1>1, <1>2, <1>3, <1>4, NextSplits

(* A request in progress has an id.                                         *)
LEMMA IdType ==
    ASSUME RequestTypes, NEW r \in Requests, pc[r] # "idle"
    PROVE  Id(r) \in Ids
<1>1. try[r] \in 1..MaxTries
  BY ConstantsAssumption DEF RequestTypes
<1> QED
  BY <1>1 DEF Id, Ids

LEMMA StoreTypesStep == Types /\ [Next]_vars => StoreTypes'
<1> SUFFICES ASSUME Types, [Next]_vars PROVE StoreTypes'
  OBVIOUS
<1>1. CASE UNCHANGED vars \/ MatchStep \/ Crash
  BY <1>1 DEF vars, MatchStep, Crash, storeVars, traceVars, Types, StoreTypes
<1>2. ASSUME NEW r \in Requests, PlainStep(r) PROVE StoreTypes'
  BY <1>2, PlainKeeps DEF storeVars, traceVars, Types, StoreTypes
<1>3. ASSUME NEW r \in Requests, StoringStep(r) PROVE StoreTypes'
  <2>1. pc[r] = "committing" /\ Store(r) /\ UNCHANGED traceVars
    BY <1>3, StoringKeeps
  <2>2. /\ Id(r) \in Ids
        /\ draft[r] \in Decisions
    BY <2>1, IdType DEF Types, RequestTypes, Evaluated
  <2> QED
    BY <2>1, <2>2 DEF Store, traceVars, Types, StoreTypes
<1>4. ASSUME NEW r \in Requests, TracingStep(r) PROVE StoreTypes'
  <2>1. Id(r) \in Ids
    BY <1>4, IdType, TracingKeeps DEF Committed, Types
  <2> QED
    BY <1>4, <2>1 DEF TracingStep, Audit, AuditFails, Announce, storeVars, Types, StoreTypes
<1> QED
  BY <1>1, <1>2, <1>3, <1>4, NextSplits

LEMMA EnvTypesStep == Types /\ [Next]_vars => EnvTypes'
<1> SUFFICES ASSUME Types, [Next]_vars PROVE EnvTypes'
  OBVIOUS
<1>1. CASE UNCHANGED vars \/ MatchStep
  BY <1>1 DEF vars, MatchStep, envVars, Types, EnvTypes
<1>2. CASE Crash
  BY <1>2, ConstantsAssumption DEF Crash, Types, EnvTypes
<1>3. ASSUME NEW r \in Requests, PlainStep(r) \/ StoringStep(r) \/ TracingStep(r)
      PROVE  EnvTypes'
  BY <1>3, PlainKeeps, StoringKeeps, TracingKeeps DEF envVars, Types, EnvTypes
<1> QED
  BY <1>1, <1>2, <1>3, NextSplits

LEMMA Typing == Spec => []Types
<1>1. Init => Types
  BY ConstantsAssumption DEF Init, Match!Init, Types, RequestTypes, MatchTypes, StoreTypes,
     EnvTypes, Match!Statuses, Stages, Answers, Evaluated
<1>2. Types /\ [Next]_vars => Types'
  BY RequestTypesStep, MatchTypesStep, StoreTypesStep, EnvTypesStep DEF Types
<1> QED
  BY <1>1, <1>2, PTL DEF Spec

-------------------------------------------------------------------------------
(* The pool: an open transaction holds one connection *)

LEMMA PoolStep == Types /\ Types' /\ PoolBalanced /\ [Next]_vars => PoolBalanced'
<1> SUFFICES ASSUME Types, Types', PoolBalanced, [Next]_vars PROVE PoolBalanced'
  OBVIOUS
<1>1. CASE UNCHANGED vars \/ MatchStep
  BY <1>1 DEF vars, MatchStep, PoolBalanced, Transactions
<1>2. CASE Crash
  <2>1. Transactions' = {}
    BY <1>2 DEF Crash, Transactions, InTransaction
  <2> QED
    BY <1>2, <2>1, FS_EmptySet, ConstantsAssumption DEF Crash, PoolBalanced
<1>3. ASSUME NEW r \in Requests, PlainStep(r) \/ StoringStep(r) \/ TracingStep(r)
      PROVE  PoolBalanced'
  <2>1. \A q \in Requests \ {r} : pc'[q] = pc[q]
    BY <1>3, OthersKept DEF Types
  <2>2. ASSUME pc[r] \notin InTransaction, pc'[r] \in InTransaction, free > 0, free' = free - 1
        PROVE  PoolBalanced'
    <3>1. Transactions' = Transactions \cup {r} /\ r \notin Transactions
      BY <2>1, <2>2 DEF Transactions
    <3>2. IsFiniteSet(Transactions) /\ Cardinality(Transactions) \in Nat
      BY FS_CardinalityType DEF PoolBalanced
    <3>3. /\ IsFiniteSet(Transactions \cup {r})
          /\ Cardinality(Transactions \cup {r}) = Cardinality(Transactions) + 1
      BY <3>1, <3>2, FS_AddElement
    <3>4. IsFiniteSet(Transactions') /\ Cardinality(Transactions') = Cardinality(Transactions) + 1
      BY <3>1, <3>3
    <3> QED
      BY <2>2, <3>2, <3>4, ConstantsAssumption DEF PoolBalanced
  <2>3. ASSUME pc[r] \in InTransaction, pc'[r] \notin InTransaction, free' = free + 1
        PROVE  PoolBalanced'
    <3>1. Transactions' = Transactions \ {r} /\ r \in Transactions
      BY <2>1, <2>3 DEF Transactions
    <3>2. IsFiniteSet(Transactions) /\ Cardinality(Transactions) \in Nat
      BY FS_CardinalityType DEF PoolBalanced
    <3>3. /\ IsFiniteSet(Transactions \ {r})
          /\ Cardinality(Transactions \ {r}) = Cardinality(Transactions) - 1
      BY <3>1, <3>2, FS_RemoveElement
    <3>4. IsFiniteSet(Transactions') /\ Cardinality(Transactions') = Cardinality(Transactions) - 1
      BY <3>1, <3>3
    <3> QED
      BY <2>3, <3>2, <3>4, ConstantsAssumption DEF PoolBalanced
  <2>4. ASSUME pc[r] \in InTransaction <=> pc'[r] \in InTransaction, free' = free
        PROVE  PoolBalanced'
    <3>1. Transactions' = Transactions
      BY <2>1, <2>4 DEF Transactions
    <3> QED
      BY <2>4, <3>1 DEF PoolBalanced
  <2> USE DEF Reply, Goto, Types, RequestTypes, InTransaction
  <2>5. CASE Connect(r)
    BY <2>2, <2>5 DEF Connect
  <2>6. CASE Commit(r) \/ CommitUnanswered(r) \/ Abort(r)
    BY <2>3, <2>6 DEF Commit, CommitUnanswered, Abort, Store
  <2>7. CASE \/ Send(r) \/ ReadMatch(r) \/ MatchNotFound(r) \/ ConnectFails(r)
             \/ SaveAdvice(r) \/ SaveEvent(r) \/ Audit(r) \/ AuditFails(r) \/ Announce(r)
    BY <2>4, <2>7 DEF Send, ReadMatch, MatchNotFound, ConnectFails, SaveAdvice, SaveEvent,
      Audit, AuditFails, Announce
  <2> QED
    BY <1>3, <2>5, <2>6, <2>7 DEF PlainStep, StoringStep, TracingStep
<1> QED
  BY <1>1, <1>2, <1>3, NextSplits

LEMMA PoolInvariant == Spec => []PoolBalanced
<1>1. Init => PoolBalanced
  <2>1. Init => Transactions = {}
    BY DEF Init, Transactions, InTransaction
  <2>2. Init => IsFiniteSet(Transactions) /\ Cardinality(Transactions) = 0
    BY <2>1, FS_EmptySet
  <2> QED
    BY <2>2, ConstantsAssumption DEF Init, PoolBalanced
<1> QED
  BY <1>1, PoolStep, Typing, PTL DEF Spec

(* TypeOK, the bound of the connection pool included: no failure, whatever  *)
(* it interrupts in createWithOutbox, releases a connection twice, and no   *)
(* transaction runs without one.                                            *)
THEOREM TypeCorrect == Spec => []TypeOK
<1>1. Types /\ PoolBalanced => TypeOK
  BY FS_CardinalityType, ConstantsAssumption
  DEF Types, RequestTypes, MatchTypes, StoreTypes, EnvTypes, PoolBalanced, TypeOK
<1> QED
  BY <1>1, Typing, PoolInvariant, PTL

(* The connections of open transactions and the free ones are the pool, so  *)
(* an empty pool means as many transactions in progress: none has leaked.   *)
THEOREM NoConnectionLeaks ==
    Spec => [](free + Cardinality({r \in Requests : pc[r] \in InTransaction}) = PoolSize)
<1>1. PoolBalanced => free + Cardinality({r \in Requests : pc[r] \in InTransaction}) = PoolSize
  BY DEF PoolBalanced, Transactions
<1> QED
  BY <1>1, PoolInvariant, PTL

-------------------------------------------------------------------------------
(* The traces of an advice, in the order they are written *)

TracesOrdered ==
    /\ TracesFollowCommit
    /\ \A r \in Requests : pc[r] \in Committed => Id(r) \in events
    /\ \A r \in Requests : pc[r] = "announcing" => Id(r) \in audits

LEMMA TracesStep == Types /\ TracesOrdered /\ [Next]_vars => TracesOrdered'
<1> SUFFICES ASSUME Types, TracesOrdered, [Next]_vars PROVE TracesOrdered'
  OBVIOUS
<1>1. CASE UNCHANGED vars \/ MatchStep
  BY <1>1 DEF vars, MatchStep, storeVars, traceVars, TracesOrdered, TracesFollowCommit, Id
<1>2. CASE Crash
  BY <1>2 DEF Crash, storeVars, traceVars, TracesOrdered, TracesFollowCommit, Id, Committed
<1>3. ASSUME NEW r \in Requests, PlainStep(r) \/ StoringStep(r) \/ TracingStep(r)
      PROVE  TracesOrdered'
  <2>1. \A q \in Requests \ {r} : /\ pc'[q] = pc[q] /\ Id(q)' = Id(q)
                                 /\ answer'[q] = answer[q]
    BY <1>3, OthersKept DEF Types, Id
  <2>2. /\ events \subseteq events' /\ audits \subseteq audits' /\ announced \subseteq announced'
    BY <1>3, PlainKeeps, StoringKeeps DEF TracingStep, Audit, AuditFails, Announce, Store,
      storeVars, traceVars
  <2>3. announced' \subseteq audits' /\ audits' \subseteq events'
    BY <1>3, PlainKeeps, StoringKeeps DEF TracingStep, Audit, AuditFails, Announce, Store,
      storeVars, traceVars, TracesOrdered, TracesFollowCommit, Committed
  <2>4. /\ answer'[r] = "created" => Id(r)' \in announced'
        /\ pc'[r] \in Committed => Id(r)' \in events'
        /\ pc'[r] = "announcing" => Id(r)' \in audits'
    <3> USE DEF Reply, Goto, Types, RequestTypes, Committed, Id
    <3>1. CASE PlainStep(r)
      BY <3>1 DEF PlainStep, Send, ReadMatch, MatchNotFound, Connect, ConnectFails,
        SaveAdvice, SaveEvent, Abort
    <3>2. CASE StoringStep(r)
      BY <3>2 DEF StoringStep, Commit, CommitUnanswered, Store
    <3>3. CASE TracingStep(r)
      BY <3>3 DEF TracingStep, Audit, AuditFails, Announce, storeVars, TracesOrdered
    <3> QED
      BY <1>3, <3>1, <3>2, <3>3
  <2> QED
    BY <2>1, <2>2, <2>3, <2>4 DEF TracesOrdered, TracesFollowCommit
<1> QED
  BY <1>1, <1>2, <1>3, NextSplits

(* The audit entry follows the commit and the local publication follows the *)
(* audit entry; a client told "created" finds all of them for its own try.  *)
THEOREM TracesNeverRunAhead == Spec => []TracesFollowCommit
<1>1. Init => TracesOrdered
  BY DEF Init, TracesOrdered, TracesFollowCommit, Committed
<1>2. TracesOrdered => TracesFollowCommit
  BY DEF TracesOrdered
<1> QED
  BY <1>1, <1>2, TracesStep, Typing, PTL DEF Spec

-------------------------------------------------------------------------------
(* One advice for each request *)

Quiet == faults \cap {"dbLost", "audit", "auditLost", "crash"} = {}

(* Without a failure after the commit, only the last try of a request may   *)
(* have stored an event, and then the request is past its commit for good.  *)
LastTryStored ==
    Quiet => \A id \in events :
                /\ id[2] = try[id[1]]
                /\ pc[id[1]] \in Committed \/ answer[id[1]] = "created"

LEMMA LastTryStep == Types /\ LastTryStored /\ [Next]_vars => LastTryStored'
<1> SUFFICES ASSUME Types, LastTryStored, [Next]_vars, Quiet' PROVE LastTryStored'
  BY DEF LastTryStored
<1>1. faults' = faults
  BY NextSplits, PlainKeeps, StoringKeeps, TracingKeeps DEF vars, MatchStep, Crash, envVars
<1>2. Quiet /\ \A id \in events : /\ id[2] = try[id[1]]
                                  /\ pc[id[1]] \in Committed \/ answer[id[1]] = "created"
  BY <1>1 DEF Quiet, LastTryStored
<1>3. \A id \in events : id[1] \in Requests /\ id = <<id[1], id[2]>>
  BY DEF Types, StoreTypes, Ids
<1>4. CASE UNCHANGED vars \/ MatchStep
  BY <1>2, <1>4 DEF vars, MatchStep, storeVars, LastTryStored
<1>5. CASE Crash
  BY <1>2, <1>5 DEF Crash, Quiet
<1>6. ASSUME NEW r \in Requests, PlainStep(r) \/ StoringStep(r) \/ TracingStep(r)
      PROVE  LastTryStored'
  <2>1. \A q \in Requests \ {r} : pc'[q] = pc[q] /\ try'[q] = try[q] /\ answer'[q] = answer[q]
    BY <1>6, OthersKept DEF Types
  <2>2. \A id \in events : id[1] # r =>
           /\ id[2] = try'[id[1]]
           /\ pc'[id[1]] \in Committed \/ answer'[id[1]] = "created"
    BY <1>2, <1>3, <2>1
  <2>3. CASE PlainStep(r)
    <3>1. pc[r] \notin Committed /\ answer[r] # "created"
      BY <2>3 DEF PlainStep, Send, ReadMatch, MatchNotFound, Connect, ConnectFails, SaveAdvice,
        SaveEvent, Abort, InTransaction, Committed, Types, RequestTypes
    <3>2. \A id \in events : id[1] # r
      BY <1>2, <3>1
    <3>3. events' = events
      BY <2>3, PlainKeeps DEF storeVars
    <3> QED
      BY <2>2, <3>2, <3>3 DEF LastTryStored
  <2>4. CASE StoringStep(r)
    <3>1. Commit(r)
      BY <1>2, <2>4 DEF StoringStep, CommitUnanswered, Quiet
    <3>2. /\ pc[r] = "committing" /\ pc' = [pc EXCEPT ![r] = "auditing"]
          /\ events' = events \cup {Id(r)} /\ try' = try
      BY <3>1 DEF Commit, Store, Goto
    <3>3. \A id \in events : id[1] # r
      BY <1>2, <3>2 DEF Committed, Types, RequestTypes
    <3>4. pc'[r] \in Committed /\ Id(r)[1] = r /\ Id(r)[2] = try'[r]
      BY <3>2 DEF Types, RequestTypes, Committed, Id
    <3> QED
      BY <2>2, <3>2, <3>3, <3>4 DEF LastTryStored
  <2>5. CASE TracingStep(r)
    <3>1. events' = events /\ try' = try
      BY <2>5, TracingKeeps DEF storeVars
    <3>2. pc'[r] \in Committed \/ answer'[r] = "created"
      BY <1>2, <2>5 DEF TracingStep, Audit, AuditFails, Announce, Reply, Goto, Quiet, Types,
        RequestTypes, Committed
    <3> QED
      BY <1>2, <2>2, <3>1, <3>2 DEF LastTryStored
  <2> QED
    BY <1>6, <2>3, <2>4, <2>5
<1> QED
  BY <1>4, <1>5, <1>6, NextSplits

(* Failures before the commit, however many and however often the client    *)
(* sends its request again, leave one advice at most.                       *)
THEOREM NoDuplicateAdvice == Spec => []OneAdvicePerRequest
<1>1. Init => LastTryStored
  BY DEF Init, LastTryStored
<1>2. Types /\ LastTryStored => OneAdvicePerRequest
  <2> SUFFICES ASSUME Types, LastTryStored, Quiet, NEW r \in Requests
               PROVE  Cardinality({id \in events : id[1] = r}) <= 1
    BY DEF OneAdvicePerRequest, Quiet
  <2> DEFINE Own == {id \in events : id[1] = r}
  <2>1. Own \subseteq {Id(r)}
    BY DEF LastTryStored, Types, StoreTypes, Ids, Id
  <2>2. Own = {} \/ Own = {Id(r)}
    BY <2>1
  <2>3. Cardinality(Own) = 0 \/ Cardinality(Own) = 1
    BY <2>2, FS_EmptySet, FS_Singleton
  <2> QED
    BY <2>3
<1> QED
  BY <1>1, <1>2, LastTryStep, Typing, PTL DEF Spec

===============================================================================
