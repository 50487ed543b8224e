------------------------- MODULE RequestPipelineProofs -------------------------
(***************************************************************************)
(* Theorems about RequestPipeline, for any requests, tokens, tenants,      *)
(* connections and deployments.  A step of the pipeline is one of the key  *)
(* cache or leaves it alone, so the theorems about the cache carry over;   *)
(* the rest is an invariant of each request and one of the pool.           *)
(***************************************************************************)
EXTENDS RequestPipeline, JwksCacheProofs

(* The step of request r in which it changes its stage or gets its answer.  *)
Forward(r) ==
    \/ GuardPublic(r) \/ GuardBySecret(r) \/ GuardByKey(r)
    \/ BodyRejected(r) \/ Begin(r) \/ Insert(r) \/ InsertFails(r)
    \/ Commit(r) \/ CommitFails(r) \/ Audit(r) \/ AuditFails(r)
    \/ List(r) \/ Get(r) \/ GetLive(r) \/ DatabaseFails(r)

(* A request's token and question do not change once it is sent, and are    *)
(* such as the deployment sees.                                             *)
RequestsTyped ==
    /\ env     \in Environments
    /\ pc      \in [Requests -> Stages2]
    /\ token   \in [Requests -> Tokens \cup {NoToken}]
    /\ ask     \in [Requests -> Asks \cup {NoAsk}]
    /\ DOMAIN context = Requests
    /\ known   \subseteq Requests
    /\ DOMAIN answer = Requests

LEMMA StatusValues ==
    /\ StatusOf("notFound") = 404
    /\ StatusOf("database") = 503
    /\ StatusOf("other") = 500
BY DEF StatusOf

-------------------------------------------------------------------------------
(* The types, as far as they do not depend on what happens to a request *)

LEMMA NextSplits ==
    Next => \/ ProviderStep
            \/ \E r \in Requests : Send(r) \/ GuardAsksKey(r) \/ FetchStep(r) \/ Forward(r)
BY DEF Next, Handle, Forward

LEMMA ForwardKeeps ==
    ASSUME NEW r \in Requests, Forward(r)
    PROVE  UNCHANGED <<token, ask, context, known, env>>
BY DEF Forward, GuardPublic, GuardBySecret, GuardByKey, BodyRejected, Begin, Insert,
       InsertFails, Commit, CommitFails, Audit, AuditFails, List, Get, GetLive, DatabaseFails

(* Forward answers the request or moves it on to a next stage.              *)
LEMMA ForwardMoves ==
    ASSUME NEW r \in Requests, Forward(r)
    PROVE  \/ \E status, result : Reply(r, status, result)
           \/ \E to \in Stages2 \ {"new"} : Goto(r, to)
<1> DEFINE Moved == \/ \E status, result : Reply(r, status, result)
                    \/ \E to \in Stages2 \ {"new"} : Goto(r, to)
<1>1. CASE GuardPublic(r) \/ Begin(r) \/ Insert(r) \/ Commit(r)
  BY <1>1 DEF GuardPublic, Begin, Insert, Commit, Stages2
<1>2. ASSUME NEW fits \in BOOLEAN, Judge(r, fits) PROVE Moved
  BY <1>2 DEF Judge, Pass, Stages2, Guards
<1>3. CASE GuardBySecret(r)
  BY <1>2, <1>3 DEF GuardBySecret
<1>4. CASE GuardByKey(r)
  BY <1>2, <1>4 DEF GuardByKey
<1>5. CASE InsertFails(r) \/ CommitFails(r) \/ AuditFails(r) \/ DatabaseFails(r) \/ Get(r)
  BY <1>5 DEF InsertFails, CommitFails, AuditFails, DatabaseFails, Get, Throw
<1>6. CASE BodyRejected(r) \/ Audit(r) \/ List(r) \/ GetLive(r)
  BY <1>6 DEF BodyRejected, Audit, List, GetLive, Throw
<1> QED
  BY <1>1, <1>3, <1>4, <1>5, <1>6 DEF Forward

LEMMA TypedStep == RequestsTyped /\ [Next]_vars => RequestsTyped'
<1> SUFFICES ASSUME RequestsTyped, [Next]_vars PROVE RequestsTyped'
  OBVIOUS
<1>1. CASE UNCHANGED vars \/ ProviderStep
  BY <1>1 DEF vars, requestVars, ProviderStep, RequestsTyped
<1>2. ASSUME NEW r \in Requests, GuardAsksKey(r) \/ FetchStep(r) PROVE RequestsTyped'
  BY <1>2 DEF GuardAsksKey, FetchStep, requestVars, RequestsTyped
<1>3. ASSUME NEW r \in Requests, Send(r) PROVE RequestsTyped'
  <2>1. PICK t \in env.tokens, a \in env.asks :
           /\ token' = [token EXCEPT ![r] = t]
           /\ ask'   = [ask EXCEPT ![r] = a]
           /\ context' = [context EXCEPT ![r] = Sanitize[Claim(t, a)]]
           /\ known' \subseteq known \cup {r}
           /\ Reply(r, 401, {}) \/ Goto(r, "appGuards")
    BY <1>3 DEF Send
  <2>2. t \in Tokens /\ a \in Asks /\ env' = env
    BY <1>3, PipelineAssumption DEF Send, RequestsTyped
  <2>3. pc' \in [Requests -> Stages2] /\ DOMAIN answer' = Requests
    BY <2>1 DEF Reply, Goto, Stages2, Guards, RequestsTyped
  <2> QED
    BY <2>1, <2>2, <2>3 DEF RequestsTyped
<1>4. ASSUME NEW r \in Requests, Forward(r) PROVE RequestsTyped'
  <2>1. pc' \in [Requests -> Stages2] /\ DOMAIN answer' = Requests
    BY <1>4, ForwardMoves DEF Reply, Goto, Stages2, RequestsTyped
  <2> QED
    BY <1>4, <2>1, ForwardKeeps DEF RequestsTyped
<1> QED
  BY <1>1, <1>2, <1>3, <1>4, NextSplits

THEOREM RequestTypes == Spec => []RequestsTyped
<1>1. Init => RequestsTyped
  BY DEF Init, RequestsTyped, Stages2
<1> QED
  BY <1>1, TypedStep, PTL DEF Spec

-------------------------------------------------------------------------------
(* The pipeline uses the key cache as JwksSpec describes it *)

LEMMA CacheStep == RequestsTyped /\ [Next]_vars => [JwksNext]_jwksVars
<1> SUFFICES ASSUME RequestsTyped, [Next]_vars PROVE [JwksNext]_jwksVars
  OBVIOUS
<1>1. CASE UNCHANGED vars
  BY <1>1 DEF vars
<1>2. CASE ProviderStep
  BY <1>2 DEF ProviderStep, JwksNext
<1>3. ASSUME NEW r \in Requests, FetchStep(r) PROVE JwksNext
  BY <1>3 DEF FetchStep, Fetch, JwksNext
<1>4. ASSUME NEW r \in Requests, GuardAsksKey(r) PROVE JwksNext
  <2>1. token[r].alg = "RS"
    BY <1>4 DEF GuardAsksKey
  <2>2. NoToken.alg = "absent"
    BY DEF NoToken
  <2>3. token[r] \in Tokens
    BY <2>1, <2>2 DEF RequestsTyped
  <2>4. token[r].kid \in Kids
    BY <2>1, <2>3, PipelineAssumption
  <2> QED
    BY <1>4, <2>4 DEF GuardAsksKey, JwksNext
<1>5. ASSUME NEW r \in Requests, Send(r) PROVE UNCHANGED jwksVars
  BY <1>5 DEF Send
<1>6. ASSUME NEW r \in Requests, Forward(r) PROVE [JwksNext]_jwksVars
  <2>1. CASE GuardByKey(r)
    BY <2>1 DEF GuardByKey, JwksNext
  <2> QED
    BY <1>6, <2>1 DEF Forward, GuardPublic, GuardBySecret, BodyRejected, Begin, Insert,
      InsertFails, Commit, CommitFails, Audit, AuditFails, List, Get, GetLive, DatabaseFails
<1> QED
  BY <1>1, <1>2, <1>3, <1>4, <1>5, <1>6, NextSplits

(* Every behaviour of the pipeline is one of the key cache: guards ask for  *)
(* keys, wait for them and take the outcome as the cache's callers do.      *)
THEOREM PipelineUsesCache == Spec => JwksSpec
<1>1. Init => JwksInit
  BY DEF Init
<1> QED
  BY <1>1, RequestTypes, CacheStep, PTL DEF Spec, JwksSpec

(* Whatever the requests do, a key published throughout a lookup is found.  *)
THEOREM PipelineFindsKeys == Spec => []PublishedKeyFound
BY PipelineUsesCache, PublishedKeysAreFound, PTL

(* Whatever the requests do, a withdrawn key expires.                       *)
THEOREM PipelineRefusesOldKeys == Spec => WithdrawnKeysExpire
BY PipelineUsesCache, WithdrawnKeysAreRefused, PTL

-------------------------------------------------------------------------------
(* Key lookups *)

(* Only a request in a guard, with a token that names a key, has a lookup.  *)
LookupInv ==
    \A r \in Requests :
        stage[r] # "none" =>
            pc[r] \in Guards /\ ask[r].route # "live" /\ token[r].alg = "RS"

LEMMA GuardByKeyStage ==
    ASSUME NEW r \in Requests, LookupInv, GuardByKey(r)
    PROVE  pc[r] \in Guards /\ ask[r].route # "live"
BY DEF LookupInv, GuardByKey, Leave, Outcomes

LEMMA LookupStep == JwksInv /\ RequestsTyped /\ LookupInv /\ [Next]_vars => LookupInv'
<1> SUFFICES ASSUME JwksInv, RequestsTyped, LookupInv, [Next]_vars PROVE LookupInv'
  OBVIOUS
<1>1. CASE UNCHANGED vars \/ ProviderStep
  BY <1>1 DEF vars, requestVars, jwksVars, ProviderStep, Publish, Tick, LookupInv
<1>2. ASSUME NEW r \in Requests, FetchStep(r) PROVE LookupInv'
  <2>1. \A q \in Requests : stage'[q] # "none" => stage[q] # "none"
    BY <1>2 DEF FetchStep, Fetch, Serve, StoreKeys, FetchFails, JwksInv, JwksTypeOK, AgeInv, Fetching
  <2> QED
    BY <1>2, <2>1 DEF FetchStep, requestVars, LookupInv
<1>3. ASSUME NEW r \in Requests, GuardAsksKey(r) PROVE LookupInv'
  <2>1. \A q \in Requests : q # r => stage'[q] = stage[q]
    BY <1>3 DEF GuardAsksKey, GetSigningKey, JwksInv, JwksTypeOK
  <2> QED
    BY <1>3, <2>1 DEF GuardAsksKey, requestVars, LookupInv
<1>4. ASSUME NEW r \in Requests, Send(r) PROVE LookupInv'
  <2>1. stage' = stage /\ stage[r] = "none"
    BY <1>4 DEF Send, jwksVars, LookupInv, Guards
  <2>2. \A q \in Requests : q # r => pc'[q] = pc[q] /\ ask'[q] = ask[q] /\ token'[q] = token[q]
    <3>1. PICK t, a : /\ token' = [token EXCEPT ![r] = t]
                      /\ ask'   = [ask EXCEPT ![r] = a]
                      /\ Reply(r, 401, {}) \/ Goto(r, "appGuards")
      BY <1>4 DEF Send
    <3>2. PICK to : pc' = [pc EXCEPT ![r] = to]
      BY <3>1 DEF Reply, Goto
    <3> QED
      BY <3>1, <3>2 DEF RequestsTyped
  <2> QED
    BY <2>1, <2>2 DEF LookupInv
<1>5. ASSUME NEW r \in Requests, Forward(r) PROVE LookupInv'
  <2>1. stage'[r] = "none"
    <3>1. CASE GuardByKey(r)
      BY <3>1 DEF GuardByKey, Leave, JwksInv, JwksTypeOK
    <3>2. CASE GuardBySecret(r) \/ GuardPublic(r)
      BY <3>2 DEF GuardBySecret, GuardPublic, jwksVars, LookupInv
    <3>3. CASE pc[r] \notin Guards /\ stage' = stage
      BY <3>3 DEF LookupInv
    <3> QED
      BY <1>5, <3>1, <3>2, <3>3 DEF Forward, BodyRejected, Begin, Insert, InsertFails, Commit,
        CommitFails, Audit, AuditFails, List, Get, GetLive, DatabaseFails, Guards, jwksVars
  <2>2. \A q \in Requests : q # r => pc'[q] = pc[q] /\ stage'[q] = stage[q]
    <3>1. \A q \in Requests : q # r => pc'[q] = pc[q]
      BY <1>5, ForwardMoves DEF Reply, Goto, RequestsTyped
    <3>2. CASE GuardByKey(r)
      BY <3>1, <3>2 DEF GuardByKey, Leave, JwksInv, JwksTypeOK
    <3>3. CASE stage' = stage
      BY <3>1, <3>3
    <3> QED
      BY <1>5, <3>2, <3>3 DEF Forward, GuardPublic, GuardBySecret, BodyRejected, Begin, Insert,
        InsertFails, Commit, CommitFails, Audit, AuditFails, List, Get, GetLive, DatabaseFails,
        jwksVars
  <2> QED
    BY <1>5, <2>1, <2>2, ForwardKeeps DEF LookupInv
<1> QED
  BY <1>1, <1>2, <1>3, <1>4, <1>5, NextSplits

-------------------------------------------------------------------------------
(* The pool *)

InTransaction(r) == pc[r] \in {"inserting", "committing"}

(* A transaction has a connection of its own, on which its tenant is set;   *)
(* nobody else holds one, and elsewhere nothing is set.                     *)
PoolInv ==
    /\ DOMAIN conn = Requests
    /\ DOMAIN setting = Connections
    /\ \A r \in Requests :
          IF InTransaction(r)
          THEN \E c \in Connections : /\ conn[r] = {c}
                                      /\ \A q \in Requests \ {r} : c \notin conn[q]
          ELSE conn[r] = {}
    /\ \A r \in Requests : \A c \in conn[r] : setting[c] = LocalSetting(r)
    /\ \A c \in Connections : (\A r \in Requests : c \notin conn[r]) => setting[c] = ""

(* A step that leaves the database alone, into or out of no transaction.    *)
LEMMA PoolKept ==
    ASSUME PoolInv, UNCHANGED <<conn, setting, env>>,
           \A r \in Requests : InTransaction(r)' <=> InTransaction(r),
           \A r \in Requests : conn[r] # {} => context'[r] = context[r]
    PROVE  PoolInv'
<1>1. \A r \in Requests : conn[r] # {} => LocalSetting(r)' = LocalSetting(r)
  BY DEF LocalSetting, GetTenantId
<1> QED
  BY <1>1 DEF PoolInv

LEMMA ConnectionsOwned ==
    ASSUME PoolInv, NEW r \in Requests
    PROVE  /\ conn[r] \subseteq Connections
           /\ \A q \in Requests \ {r} : conn[r] \cap conn[q] = {}
           /\ ~InTransaction(r) => conn[r] = {}
           /\ InTransaction(r) => \E c \in Connections : conn[r] = {c}
<1>1. CASE InTransaction(r)
  <2>1. PICK c \in Connections : conn[r] = {c} /\ \A q \in Requests \ {r} : c \notin conn[q]
    BY <1>1 DEF PoolInv
  <2> QED
    BY <1>1, <2>1
<1>2. CASE ~InTransaction(r)
  <2>1. conn[r] = {}
    BY <1>2 DEF PoolInv
  <2> QED
    BY <1>2, <2>1
<1> QED
  BY <1>1, <1>2

LEMMA BeginPool ==
    ASSUME NEW r \in Requests, RequestsTyped, PoolInv, Begin(r)
    PROVE  PoolInv'
<1>1. PICK c \in Free : /\ conn'    = [conn EXCEPT ![r] = {c}]
                        /\ setting' = [setting EXCEPT ![c] = LocalSetting(r)]
  BY DEF Begin
<1>2. pc' = [pc EXCEPT ![r] = "inserting"] /\ pc[r] = "handling" /\ context' = context /\ env' = env
  BY DEF Begin, Goto
<1>3. c \in Connections /\ \A q \in Requests : c \notin conn[q]
  BY DEF Free
<1>4. /\ InTransaction(r)' /\ conn'[r] = {c}
      /\ \A q \in Requests \ {r} : /\ InTransaction(q)' <=> InTransaction(q)
                                   /\ conn'[q] = conn[q]
  BY <1>1, <1>2 DEF InTransaction, PoolInv, RequestsTyped
<1>5. \A q \in Requests : LocalSetting(q)' = LocalSetting(q)
  BY <1>2 DEF LocalSetting, GetTenantId
<1>6. \A d \in Connections : setting'[d] = IF d = c THEN LocalSetting(r) ELSE setting[d]
  BY <1>1, <1>3 DEF PoolInv
<1>7. \A q \in Requests :
         IF InTransaction(q)'
         THEN \E d \in Connections : /\ conn'[q] = {d}
                                     /\ \A p \in Requests \ {q} : d \notin conn'[p]
         ELSE conn'[q] = {}
  <2> SUFFICES ASSUME NEW q \in Requests
               PROVE  IF InTransaction(q)'
                      THEN \E d \in Connections : /\ conn'[q] = {d}
                                                  /\ \A p \in Requests \ {q} : d \notin conn'[p]
                      ELSE conn'[q] = {}
    OBVIOUS
  <2>1. CASE q = r
    BY <1>3, <1>4, <2>1
  <2>2. CASE q # r
    <3>1. \A p \in Requests \ {q} : conn[q] \cap conn'[p] = {}
      BY <1>3, <1>4, <2>2, ConnectionsOwned
    <3>2. CASE InTransaction(q)
      <4>1. PICK d \in Connections : conn[q] = {d}
        BY <3>2, ConnectionsOwned
      <4> QED
        BY <1>4, <2>2, <3>1, <3>2, <4>1
    <3>3. CASE ~InTransaction(q)
      BY <1>4, <2>2, <3>3, ConnectionsOwned
    <3> QED
      BY <3>2, <3>3
  <2> QED
    BY <2>1, <2>2
<1>8. \A q \in Requests : \A d \in conn'[q] : setting'[d] = LocalSetting(q)'
  <2> SUFFICES ASSUME NEW q \in Requests, NEW d \in conn'[q] PROVE setting'[d] = LocalSetting(q)
    BY <1>5
  <2>1. CASE q = r
    BY <1>3, <1>4, <1>6, <2>1
  <2>2. CASE q # r
    <3>1. d \in conn[q] /\ d # c /\ d \in Connections
      BY <1>3, <1>4, <2>2, ConnectionsOwned
    <3> QED
      BY <1>6, <3>1 DEF PoolInv
  <2> QED
    BY <2>1, <2>2
<1>9. ASSUME NEW d \in Connections, \A q \in Requests : d \notin conn'[q]
      PROVE  setting'[d] = ""
  <2>1. d # c
    BY <1>4, <1>9
  <2>2. \A q \in Requests : d \notin conn[q]
    <3>1. conn[r] = {}
      BY <1>2 DEF PoolInv, InTransaction
    <3> QED
      BY <1>4, <1>9, <3>1
  <2> QED
    BY <1>6, <2>1, <2>2 DEF PoolInv
<1> QED
  BY <1>1, <1>7, <1>8, <1>9 DEF PoolInv

(* COMMIT or ROLLBACK leaves the connection as the pool wants it.           *)
LEMMA EndPool ==
    ASSUME NEW r \in Requests, RequestsTyped, PoolInv, EndTransaction(r),
           UNCHANGED <<context, env>>,
           NEW to \in Stages2, pc' = [pc EXCEPT ![r] = to],
           to \notin {"inserting", "committing"}
    PROVE  PoolInv'
<1>1. ~InTransaction(r)' /\ conn'[r] = {}
  BY DEF InTransaction, EndTransaction, PoolInv, RequestsTyped
<1>2. \A q \in Requests \ {r} : (InTransaction(q)' <=> InTransaction(q)) /\ conn'[q] = conn[q]
  BY DEF InTransaction, EndTransaction, PoolInv, RequestsTyped
<1>3. \A q \in Requests : LocalSetting(q)' = LocalSetting(q)
  BY DEF LocalSetting, GetTenantId
<1>4. \A d \in Connections : setting'[d] = IF d \in conn[r] THEN "" ELSE setting[d]
  BY DEF EndTransaction
<1>5. \A q \in Requests :
         IF InTransaction(q)'
         THEN \E d \in Connections : /\ conn'[q] = {d}
                                     /\ \A p \in Requests \ {q} : d \notin conn'[p]
         ELSE conn'[q] = {}
  <2> SUFFICES ASSUME NEW q \in Requests, q # r
               PROVE  IF InTransaction(q)'
                      THEN \E d \in Connections : /\ conn'[q] = {d}
                                                  /\ \A p \in Requests \ {q} : d \notin conn'[p]
                      ELSE conn'[q] = {}
    BY <1>1
  <2>1. \A p \in Requests \ {q} : conn[q] \cap conn'[p] = {}
    BY <1>1, <1>2, ConnectionsOwned
  <2>2. CASE InTransaction(q)
    <3>1. PICK d \in Connections : conn[q] = {d}
      BY <2>2, ConnectionsOwned
    <3> QED
      BY <1>2, <2>1, <2>2, <3>1
  <2>3. CASE ~InTransaction(q)
    BY <1>2, <2>3, ConnectionsOwned
  <2> QED
    BY <2>2, <2>3
<1>6. \A q \in Requests : \A d \in conn'[q] : setting'[d] = LocalSetting(q)'
  <2> SUFFICES ASSUME NEW q \in Requests, NEW d \in conn'[q] PROVE setting'[d] = LocalSetting(q)
    BY <1>3
  <2>1. q # r /\ d \in conn[q]
    BY <1>1, <1>2
  <2>2. d \in Connections /\ d \notin conn[r]
    BY <2>1, ConnectionsOwned
  <2> QED
    BY <1>4, <2>1, <2>2 DEF PoolInv
<1>7. ASSUME NEW d \in Connections, \A q \in Requests : d \notin conn'[q]
      PROVE  setting'[d] = ""
  <2>1. \A q \in Requests \ {r} : d \notin conn[q]
    BY <1>2, <1>7
  <2> QED
    BY <1>4, <2>1 DEF PoolInv
<1> QED
  BY <1>5, <1>6, <1>7 DEF PoolInv, EndTransaction

LEMMA PoolStep == RequestsTyped /\ LookupInv /\ PoolInv /\ [Next]_vars => PoolInv'
<1> SUFFICES ASSUME RequestsTyped, LookupInv, PoolInv, [Next]_vars PROVE PoolInv'
  OBVIOUS
<1>1. CASE UNCHANGED vars \/ ProviderStep
  BY <1>1, PoolKept DEF vars, requestVars, dbVars, ProviderStep, InTransaction
<1>2. ASSUME NEW r \in Requests, GuardAsksKey(r) \/ FetchStep(r) PROVE PoolInv'
  BY <1>2, PoolKept DEF GuardAsksKey, FetchStep, requestVars, dbVars, InTransaction
<1>3. ASSUME NEW r \in Requests, Send(r) PROVE PoolInv'
  <2>1. UNCHANGED <<conn, setting, env>> /\ pc[r] = "new" /\ conn[r] = {}
    BY <1>3 DEF Send, dbVars, PoolInv, InTransaction
  <2>2. \E to \in {"done", "appGuards"} : pc' = [pc EXCEPT ![r] = to]
    BY <1>3 DEF Send, Reply, Goto
  <2>3. \A q \in Requests \ {r} : context'[q] = context[q]
    BY <1>3 DEF Send, RequestsTyped
  <2> QED
    BY <2>1, <2>2, <2>3, PoolKept DEF InTransaction, RequestsTyped
<1>4. ASSUME NEW r \in Requests, Begin(r) PROVE PoolInv'
  BY <1>4, BeginPool
<1>5. ASSUME NEW r \in Requests, Commit(r) \/ InsertFails(r) \/ CommitFails(r) PROVE PoolInv'
  <2>1. EndTransaction(r) /\ UNCHANGED <<context, env>>
    BY <1>5 DEF Commit, InsertFails, CommitFails
  <2>2. \E to \in {"auditing", "done"} : pc' = [pc EXCEPT ![r] = to]
    BY <1>5 DEF Commit, InsertFails, CommitFails, Throw, Reply, Goto
  <2> QED
    BY <2>1, <2>2, EndPool DEF Stages2
<1>6. ASSUME NEW r \in Requests, Insert(r) PROVE PoolInv'
  <2>1. UNCHANGED <<conn, setting, env, context>>
    BY <1>6 DEF Insert, dbVars
  <2>2. pc[r] = "inserting" /\ pc' = [pc EXCEPT ![r] = "committing"]
    BY <1>6 DEF Insert, Goto
  <2> QED
    BY <2>1, <2>2, PoolKept DEF InTransaction, RequestsTyped
<1>7. ASSUME NEW r \in Requests,
             \/ GuardPublic(r) \/ GuardBySecret(r) \/ GuardByKey(r) \/ BodyRejected(r)
             \/ Audit(r) \/ AuditFails(r) \/ List(r) \/ Get(r) \/ GetLive(r) \/ DatabaseFails(r)
      PROVE  PoolInv'
  <2>1. UNCHANGED <<conn, setting, env, context>>
    BY <1>7 DEF GuardPublic, GuardBySecret, GuardByKey, BodyRejected, Audit, AuditFails, List,
                Get, GetLive, DatabaseFails, dbVars
  <2>2. ~InTransaction(r)
    <3>1. CASE GuardByKey(r)
      BY <3>1, GuardByKeyStage DEF Guards, InTransaction
    <3> QED
      BY <1>7, <3>1 DEF GuardPublic, GuardBySecret, BodyRejected, Audit, AuditFails, List,
                        Get, GetLive, DatabaseFails, Guards, InTransaction
  <2>3. \E to \in {"routeGuards", "handling", "done"} : pc' = [pc EXCEPT ![r] = to]
    BY <1>7 DEF GuardPublic, GuardBySecret, GuardByKey, BodyRejected, Audit, AuditFails, List,
                Get, GetLive, DatabaseFails, Judge, Pass, Throw, Reply, Goto
  <2> QED
    BY <2>1, <2>2, <2>3, PoolKept DEF InTransaction, RequestsTyped
<1> QED
  BY <1>1, <1>2, <1>3, <1>4, <1>5, <1>6, <1>7, NextSplits DEF Forward

-------------------------------------------------------------------------------
(* What a request has been through *)

NoAnswer == [status |-> 0, rows |-> {}]

Creates == {"inserting", "committing", "auditing"}

Entitled(r) ==
    /\ token[r].genuine /\ token[r].claims
    /\ Scope[ask[r].route] \subseteq token[r].scopes

(* The tenant a request acts in, once the guards have let it pass.          *)
Acting(r) == IF WavedThrough(r) THEN "public" ELSE TenantOf(r)

(* A request on its way has no answer; it acts in the tenant the middleware *)
(* chose; and what follows the first guards has been judged by them.        *)
RequestInv(r) ==
    /\ pc[r] # "done" => answer[r] = NoAnswer
    /\ pc[r] \in Creates => ask[r].route = "createMatch"
    /\ pc[r] \notin {"new", "done"} =>
          context[r] # "" /\ context[r] = Sanitize[Claim(token[r], ask[r])]
    /\ ask[r].route # "live" /\ pc[r] \notin {"new", "appGuards", "done"} =>
          Entitled(r) /\ token[r].tenant # ""

RequestsInv == \A r \in Requests : RequestInv(r)

LEMMA OthersKept ==
    ASSUME NEW r \in Requests, NEW q \in Requests \ {r}, RequestsTyped, Send(r) \/ Forward(r)
    PROVE  /\ pc'[q] = pc[q] /\ answer'[q] = answer[q]
           /\ token'[q] = token[q] /\ ask'[q] = ask[q] /\ context'[q] = context[q]
<1>1. CASE Send(r)
  <2>1. \E t, a, tenant : /\ token' = [token EXCEPT ![r] = t]
                          /\ ask' = [ask EXCEPT ![r] = a]
                          /\ context' = [context EXCEPT ![r] = tenant]
                          /\ Reply(r, 401, {}) \/ Goto(r, "appGuards")
    BY <1>1 DEF Send
  <2>2. token'[q] = token[q] /\ ask'[q] = ask[q] /\ context'[q] = context[q]
    BY <2>1 DEF RequestsTyped
  <2>3. pc'[q] = pc[q] /\ answer'[q] = answer[q]
    BY <2>1 DEF Reply, Goto, RequestsTyped
  <2> QED
    BY <2>2, <2>3
<1>2. CASE Forward(r)
  <2>1. pc'[q] = pc[q] /\ answer'[q] = answer[q]
    BY <1>2, ForwardMoves DEF Reply, Goto, RequestsTyped
  <2> QED
    BY <1>2, <2>1, ForwardKeeps
<1> QED
  BY <1>1, <1>2

(* A guard turns the request away, or lets an entitled one pass.            *)
LEMMA GuardOutcome ==
    ASSUME NEW r \in Requests, LookupInv, GuardBySecret(r) \/ GuardByKey(r)
    PROVE  /\ pc[r] \in Guards /\ ask[r].route # "live" /\ rows' = rows
           /\ \/ Reply(r, 401, {}) \/ Reply(r, 403, {})
              \/ Pass(r) /\ Entitled(r) /\ token[r].tenant # ""
<1>1. \E fits \in BOOLEAN : Judge(r, fits)
  BY DEF GuardBySecret, GuardByKey
<1>2. \/ Reply(r, 401, {}) \/ Reply(r, 403, {})
      \/ Pass(r) /\ Entitled(r) /\ token[r].tenant # ""
  BY <1>1 DEF Judge, Verifies, Entitled
<1>3. pc[r] \in Guards /\ ask[r].route # "live"
  BY GuardByKeyStage DEF GuardBySecret
<1>4. rows' = rows
  BY DEF GuardBySecret, GuardByKey, dbVars
<1> QED
  BY <1>2, <1>3, <1>4

(* The middleware puts a request into a tenant, or refuses it.              *)
LEMMA SendInv ==
    ASSUME NEW r \in Requests, RequestsTyped, RequestInv(r), Send(r)
    PROVE  RequestInv(r)'
<1>1. PICK t \in env.tokens, a \in env.asks :
         LET tenant == Sanitize[Claim(t, a)] IN
         /\ token' = [token EXCEPT ![r] = t]
         /\ ask'   = [ask EXCEPT ![r] = a]
         /\ context' = [context EXCEPT ![r] = tenant]
         /\ IF tenant = "" THEN Reply(r, 401, {}) ELSE Goto(r, "appGuards")
  BY DEF Send
<1>2. CASE Reply(r, 401, {})
  BY <1>2 DEF Reply, RequestsTyped, RequestInv, Creates
<1>3. CASE Sanitize[Claim(t, a)] # "" /\ Goto(r, "appGuards")
  <2>1. token'[r] = t /\ ask'[r] = a /\ context'[r] = Sanitize[Claim(t, a)]
    BY <1>1 DEF RequestsTyped
  <2>2. pc'[r] = "appGuards" /\ answer'[r] = NoAnswer
    BY <1>3 DEF Goto, RequestsTyped, RequestInv, Send
  <2>3. Claim(token[r], ask[r])' = Claim(t, a)
    <3>1. env' = env
      BY DEF Send
    <3> QED
      BY <2>1, <3>1 DEF Claim, MiddlewareVerifies
  <2> QED
    BY <1>3, <2>1, <2>2, <2>3 DEF RequestInv, Creates
<1> QED
  BY <1>1, <1>2, <1>3

(* What the middleware chose stays chosen.                                  *)
LEMMA ClaimKept ==
    ASSUME NEW r \in Requests, token'[r] = token[r], ask'[r] = ask[r], env' = env
    PROVE  /\ Claim(token[r], ask[r])' = Claim(token[r], ask[r])
           /\ WavedThrough(r)' <=> WavedThrough(r)
           /\ Entitled(r)' <=> Entitled(r)
           /\ TenantOf(r)' = TenantOf(r)
           /\ Acting(r)' = Acting(r)
<1>1. MiddlewareVerifies(token[r])' <=> MiddlewareVerifies(token[r])
  BY DEF MiddlewareVerifies
<1>2. WavedThrough(r)' <=> WavedThrough(r)
  BY <1>1 DEF WavedThrough
<1>3. TenantOf(r)' = TenantOf(r)
  BY DEF TenantOf
<1> QED
  BY <1>1, <1>2, <1>3 DEF Claim, Entitled, Acting

LEMMA ForwardInv ==
    ASSUME NEW r \in Requests, RequestsTyped, LookupInv, RequestInv(r), Forward(r)
    PROVE  RequestInv(r)'
<1>1. /\ token'[r] = token[r] /\ ask'[r] = ask[r] /\ context'[r] = context[r]
      /\ Claim(token[r], ask[r])' = Claim(token[r], ask[r])
      /\ Entitled(r)' <=> Entitled(r)
  BY ForwardKeeps, ClaimKept
<1>2. ASSUME NEW status, NEW result, Reply(r, status, result) PROVE RequestInv(r)'
  BY <1>2 DEF Reply, RequestsTyped, RequestInv, Creates
<1>3. CASE GuardPublic(r)
  BY <1>1, <1>3 DEF GuardPublic, Goto, RequestsTyped, RequestInv, Creates
<1>4. CASE GuardBySecret(r) \/ GuardByKey(r)
  <2>1. CASE Reply(r, 401, {}) \/ Reply(r, 403, {})
    BY <1>2, <2>1
  <2>2. CASE Pass(r) /\ Entitled(r) /\ token[r].tenant # ""
    <3>1. pc[r] \in Guards
      BY <1>4, GuardOutcome
    <3>2. pc'[r] \in {"routeGuards", "handling"} /\ answer'[r] = answer[r]
      BY <2>2 DEF Pass, Goto, RequestsTyped
    <3> QED
      BY <1>1, <2>2, <3>1, <3>2 DEF RequestInv, Creates, Guards
  <2> QED
    BY <1>4, <2>1, <2>2, GuardOutcome
<1>5. CASE Begin(r) \/ Insert(r) \/ Commit(r)
  <2>1. /\ pc[r] \in {"handling", "inserting", "committing"}
        /\ pc'[r] \in Creates /\ answer'[r] = answer[r]
    BY <1>5 DEF Begin, Insert, Commit, Goto, RequestsTyped, Creates
  <2>2. ask[r].route = "createMatch"
    BY <1>5 DEF Begin, Insert, Commit, RequestInv, Creates
  <2> QED
    BY <1>1, <2>1, <2>2 DEF RequestInv, Creates
<1>6. CASE \/ BodyRejected(r) \/ InsertFails(r) \/ CommitFails(r) \/ Audit(r) \/ AuditFails(r)
           \/ List(r) \/ Get(r) \/ GetLive(r) \/ DatabaseFails(r)
  BY <1>2, <1>6 DEF BodyRejected, InsertFails, CommitFails, Audit, AuditFails, List, Get,
                    GetLive, DatabaseFails, Throw
<1> QED
  BY <1>3, <1>4, <1>5, <1>6 DEF Forward

LEMMA RequestsStep == RequestsTyped /\ LookupInv /\ RequestsInv /\ [Next]_vars => RequestsInv'
<1> SUFFICES ASSUME RequestsTyped, LookupInv, RequestsInv, [Next]_vars,
                    NEW q \in Requests
             PROVE  RequestInv(q)'
  BY DEF RequestsInv
<1>1. RequestInv(q)
  BY DEF RequestsInv
<1>2. CASE UNCHANGED <<requestVars, env, answer>>
  <2>1. /\ Claim(token[q], ask[q])' = Claim(token[q], ask[q])
        /\ Entitled(q)' <=> Entitled(q)
    BY <1>2, ClaimKept DEF requestVars
  <2> QED
    BY <1>1, <1>2, <2>1 DEF requestVars, RequestInv
<1>3. ASSUME NEW r \in Requests, Send(r) \/ Forward(r) PROVE RequestInv(q)'
  <2>1. CASE q = r
    BY <1>1, <1>3, <2>1, SendInv, ForwardInv
  <2>2. CASE q # r
    <3>1. /\ pc'[q] = pc[q] /\ answer'[q] = answer[q] /\ context'[q] = context[q]
          /\ token'[q] = token[q] /\ ask'[q] = ask[q]
      BY <1>3, <2>2, OthersKept
    <3>2. env' = env
      BY <1>3, ForwardKeeps DEF Send
    <3>3. /\ Claim(token[q], ask[q])' = Claim(token[q], ask[q])
          /\ Entitled(q)' <=> Entitled(q)
      BY <3>1, <3>2, ClaimKept
    <3> QED
      BY <1>1, <3>1, <3>3 DEF RequestInv
  <2> QED
    BY <2>1, <2>2
<1> QED
  BY <1>2, <1>3, NextSplits DEF vars, ProviderStep, GuardAsksKey, FetchStep

(* The stages after the guards, for a route that is not public.             *)
LEMMA OwnAnswer ==
    ASSUME NEW r \in Requests, RequestInv(r), ask[r].route # "live",
           pc[r] \in {"handling", "inserting", "committing", "auditing"}
    PROVE  Entitled(r) /\ GetTenantId(r) = Acting(r) /\ Acting(r) # ""
<1>1. /\ Entitled(r) /\ token[r].tenant # "" /\ context[r] # ""
      /\ context[r] = Sanitize[Claim(token[r], ask[r])]
  BY DEF RequestInv
<1>2. CASE MiddlewareVerifies(token[r])
  BY <1>1, <1>2 DEF Claim, Acting, WavedThrough, TenantOf, GetTenantId
<1>3. CASE ~MiddlewareVerifies(token[r])
  <2>1. Claim(token[r], ask[r]) = IF ask[r].health THEN "public" ELSE ""
    BY <1>3 DEF Claim
  <2>2. ask[r].health
    BY <1>1, <2>1, PipelineAssumption
  <2> QED
    BY <1>1, <1>3, <2>1, <2>2, PipelineAssumption DEF Acting, WavedThrough, GetTenantId
<1> QED
  BY <1>2, <1>3

-------------------------------------------------------------------------------
(* What is stored *)

Stored(r) == \E x \in rows : x.id = r

(* A row made by a request is of the tenant it acts in, and is there exactly *)
(* from the commit on; a row is never lost.                                 *)
RowsInv ==
    /\ Seeds \subseteq rows
    /\ \A x \in rows : x \in Seeds \/ /\ x.id \in Requests /\ x.tenant = Acting(x.id)
                                      /\ pc[x.id] \in {"auditing", "done"}
    /\ \A r \in Requests : pc[r] = "auditing" => Stored(r)
    /\ \A r \in known :
          /\ pc[r] # "new"
          /\ \E x \in rows : /\ x.id = ask[r].item /\ x.table = Table(ask[r].route)
                             /\ x.tenant = TenantOf(r)

(* Rows appear with the commit, at once or without its answer.              *)
LEMMA ForwardRows ==
    ASSUME NEW r \in Requests, RequestsTyped, Forward(r)
    PROVE  \/ rows' = rows /\ pc'[r] # "auditing"
           \/ /\ pc[r] = "committing"
              /\ rows' = rows \cup {Row(r)}
              /\ Goto(r, "auditing") \/ Reply(r, 503, {})
<1>1. CASE Commit(r)
  BY <1>1 DEF Commit
<1>2. CASE CommitFails(r)
  <2>1. pc[r] = "committing" /\ rows' \in {rows, rows \cup {Row(r)}} /\ Reply(r, 503, {})
    BY <1>2, StatusValues DEF CommitFails, Throw
  <2> QED
    BY <2>1 DEF Reply, RequestsTyped
<1>3. CASE GuardPublic(r) \/ GuardBySecret(r) \/ GuardByKey(r) \/ Begin(r) \/ Insert(r)
  <2>1. rows' = rows
    BY <1>3 DEF GuardPublic, GuardBySecret, GuardByKey, Begin, Insert, dbVars
  <2>2. (\E status, result : Reply(r, status, result))
          \/ (\E to \in {"routeGuards", "handling", "inserting", "committing"} : Goto(r, to))
    BY <1>3 DEF GuardPublic, GuardBySecret, GuardByKey, Begin, Insert, Judge, Pass
  <2> QED
    BY <2>1, <2>2 DEF Reply, Goto, RequestsTyped
<1>4. CASE \/ BodyRejected(r) \/ InsertFails(r) \/ Audit(r) \/ AuditFails(r)
           \/ List(r) \/ Get(r) \/ GetLive(r) \/ DatabaseFails(r)
  <2>1. rows' = rows
    BY <1>4 DEF BodyRejected, InsertFails, Audit, AuditFails, List, Get, GetLive,
                DatabaseFails, dbVars
  <2>2. \E status, result : Reply(r, status, result)
    BY <1>4 DEF BodyRejected, InsertFails, Audit, AuditFails, List, Get, GetLive,
                DatabaseFails, Throw
  <2> QED
    BY <2>1, <2>2 DEF Reply, RequestsTyped
<1> QED
  BY <1>1, <1>2, <1>3, <1>4 DEF Forward

(* After the commit there is only the audit entry.                          *)
LEMMA LastStep ==
    ASSUME NEW r \in Requests, RequestsTyped, LookupInv, Forward(r),
           pc[r] \in {"auditing", "done"}
    PROVE  pc'[r] = "done"
<1>1. ~GuardByKey(r)
  BY GuardByKeyStage DEF Guards
<1>2. Audit(r) \/ AuditFails(r)
  BY <1>1 DEF Forward, GuardPublic, GuardBySecret, BodyRejected, Begin, Insert, InsertFails,
              Commit, CommitFails, List, Get, GetLive, DatabaseFails, Guards
<1>3. \E status, result : Reply(r, status, result)
  BY <1>2 DEF Audit, AuditFails, Throw
<1> QED
  BY <1>3 DEF Reply, RequestsTyped

LEMMA RowsStep ==
    RequestsTyped /\ LookupInv /\ RequestsInv /\ RowsInv /\ [Next]_vars => RowsInv'
<1> SUFFICES ASSUME RequestsTyped, LookupInv, RequestsInv, RowsInv, [Next]_vars PROVE RowsInv'
  OBVIOUS
<1>1. CASE UNCHANGED <<requestVars, rows, env>>
  <2>1. \A q \in Requests : Acting(q)' = Acting(q) /\ TenantOf(q)' = TenantOf(q)
    BY <1>1, ClaimKept DEF requestVars
  <2> QED
    BY <1>1, <2>1 DEF requestVars, RowsInv, Stored, RequestsTyped
<1>2. ASSUME NEW r \in Requests, Send(r) PROVE RowsInv'
  <2>1. PICK t \in env.tokens, a \in env.asks :
           /\ token' = [token EXCEPT ![r] = t]
           /\ ask'   = [ask EXCEPT ![r] = a]
           /\ known' = IF \E x \in rows : /\ x.id = a.item /\ x.table = Table(a.route)
                                          /\ x.tenant = Sanitize[t.tenant]
                       THEN known \cup {r} ELSE known
           /\ Reply(r, 401, {}) \/ Goto(r, "appGuards")
    BY <1>2 DEF Send
  <2>2. rows' = rows /\ pc[r] = "new" /\ r \notin known /\ \A x \in rows : x.id # r
    <3>1. rows' = rows /\ pc[r] = "new"
      BY <1>2 DEF Send, dbVars
    <3>2. r \notin known
      BY <3>1 DEF RowsInv
    <3>3. ASSUME NEW x \in rows PROVE x.id # r
      <4>1. x \in Seeds \/ pc[x.id] \in {"auditing", "done"}
        BY DEF RowsInv
      <4>2. x \in Seeds => x.id # r
        BY PipelineAssumption
      <4> QED
        BY <3>1, <4>1, <4>2
    <3> QED
      BY <3>1, <3>2, <3>3
  <2>3. token'[r] = t /\ ask'[r] = a /\ pc'[r] \in {"done", "appGuards"}
    BY <2>1 DEF Reply, Goto, RequestsTyped
  <2>4. \A q \in Requests \ {r} : pc'[q] = pc[q] /\ token'[q] = token[q] /\ ask'[q] = ask[q]
    BY <1>2, OthersKept
  <2>5. \A q \in Requests \ {r} : Acting(q)' = Acting(q)
    BY <1>2, <2>4, ClaimKept DEF Send
  <2>6. \A x \in rows' : x \in Seeds \/ /\ x.id \in Requests /\ x.tenant = Acting(x.id)'
                                        /\ pc'[x.id] \in {"auditing", "done"}
    <3>1. ASSUME NEW x \in rows', x \notin Seeds
          PROVE  /\ x.id \in Requests /\ x.tenant = Acting(x.id)'
                 /\ pc'[x.id] \in {"auditing", "done"}
      <4>1. /\ x.id \in Requests /\ x.tenant = Acting(x.id)
            /\ pc[x.id] \in {"auditing", "done"}
        BY <2>2, <3>1 DEF RowsInv
      <4>2. x.id \in Requests \ {r}
        BY <2>2, <3>1, <4>1
      <4>3. Acting(x.id)' = Acting(x.id)
        BY <2>5, <4>2
      <4> QED
        BY <2>4, <4>1, <4>2, <4>3
    <3> QED
      BY <3>1
  <2>7. \A q \in Requests : pc'[q] = "auditing" => \E x \in rows' : x.id = q
    BY <2>2, <2>3, <2>4 DEF RowsInv, Stored
  <2>8. ASSUME NEW q \in known'
        PROVE  /\ pc'[q] # "new"
               /\ \E x \in rows' : /\ x.id = ask'[q].item /\ x.table = Table(ask'[q].route)
                                   /\ x.tenant = Sanitize[token'[q].tenant]
    <3>1. CASE q = r
      BY <2>1, <2>2, <2>3, <2>8, <3>1
    <3>2. CASE q # r
      <4>1. q \in known
        BY <2>1, <2>8, <3>2
      <4>2. q \in Requests \ {r}
        BY <4>1, <3>2 DEF RequestsTyped
      <4> QED
        BY <2>2, <2>4, <4>1, <4>2 DEF RowsInv, TenantOf
    <3> QED
      BY <3>1, <3>2
  <2> QED
    BY <2>2, <2>6, <2>7, <2>8 DEF RowsInv, Stored, TenantOf
<1>3. ASSUME NEW r \in Requests, Forward(r) PROVE RowsInv'
  <2>1. UNCHANGED <<token, ask, known>>
    BY <1>3, ForwardKeeps
  <2>2. \A q \in Requests : Acting(q)' = Acting(q)
    BY <1>3, ForwardKeeps, ClaimKept
  <2>3. \A q \in Requests \ {r} : pc'[q] = pc[q]
    BY <1>3, OthersKept
  <2>4. pc'[r] # "new"
    BY <1>3, ForwardMoves DEF Reply, Goto, RequestsTyped
  <2>5. CASE rows' = rows /\ pc'[r] # "auditing"
    <3>1. \A x \in rows : x \notin Seeds /\ x.id = r => pc'[r] = "done"
      BY <1>3, LastStep DEF RowsInv
    <3> QED
      BY <2>1, <2>2, <2>3, <2>4, <2>5, <3>1 DEF RowsInv, Stored, TenantOf, RequestsTyped
  <2>6. CASE /\ pc[r] = "committing" /\ rows' = rows \cup {Row(r)}
             /\ Goto(r, "auditing") \/ Reply(r, 503, {})
    <3>1. pc'[r] \in {"auditing", "done"}
      BY <2>6 DEF Goto, Reply, RequestsTyped
    <3>2. Row(r).id = r /\ Row(r).tenant = Acting(r)
      BY <2>6, OwnAnswer DEF Row, RequestsInv, RequestInv, Creates
    <3> QED
      BY <2>1, <2>2, <2>3, <2>4, <2>6, <3>1, <3>2 DEF RowsInv, Stored, TenantOf, RequestsTyped
  <2> QED
    BY <1>3, <2>5, <2>6, ForwardRows
<1> QED
  BY <1>1, <1>2, <1>3, NextSplits DEF vars, dbVars, ProviderStep, GuardAsksKey, FetchStep

-------------------------------------------------------------------------------
(* What is answered *)

(* The rows of the request's tenant are not for it to see.                  *)
Hidden(r) == env.enforced \/ (WavedThrough(r) /\ TenantOf(r) # "public")

(* StoredRowFound and ServerErrorsExplained, of one request.                *)
FoundOrNot(r) ==
    answer[r].status \in {200, 404} /\ ask[r].route \in {"getMatch", "getAdvice"} =>
        (answer[r].status = 404 <=> Hidden(r))

Excused(r) ==
    \/ ~ask[r].fits /\ ask[r].route \notin {"live", "listMatches"}
    \/ /\ ask[r].route = "createMatch"
       /\ \/ env.enforced /\ (~env.injected \/ TenantOf(r) = "public" \/ WavedThrough(r))
          \/ Taken(ask[r].ext)

(* An answer tells the truth, shows rows of the request's tenant only, and  *)
(* has a reason when it is an error.                                        *)
AnswerInv(r) ==
    /\ \A x \in answer[r].rows : x.tenant = Acting(r)
    /\ answer[r].status = 201 => Stored(r)
    /\ answer[r].status \in 400..499 => ~Stored(r) /\ pc[r] = "done"
    /\ r \in known => FoundOrNot(r)
    /\ answer[r].status >= 500 /\ "db" \notin env.faults => Excused(r)
    /\ ask[r].route # "live" /\ answer[r].status \notin {0, 401, 403} => Entitled(r)

AnswersInv == \A r \in Requests : AnswerInv(r)

(* Without an answer there is nothing to say.                               *)
LEMMA Unanswered ==
    ASSUME NEW r \in Requests, answer'[r] = NoAnswer
    PROVE  AnswerInv(r)'
BY DEF AnswerInv, FoundOrNot, NoAnswer

(* A refusal by the middleware, a guard or the validation of the body.      *)
LEMMA Refused ==
    ASSUME NEW r \in Requests, RequestsTyped, ~Stored(r), rows' = rows,
           NEW status \in {400, 401, 403}, Reply(r, status, {}),
           status = 400 => Entitled(r)'
    PROVE  AnswerInv(r)'
<1>1. answer'[r] = [status |-> status, rows |-> {}] /\ pc'[r] = "done"
  BY DEF Reply, RequestsTyped
<1> QED
  BY <1>1 DEF AnswerInv, FoundOrNot, Stored

LEMMA NotYetStored ==
    ASSUME NEW r \in Requests, RowsInv, pc[r] \notin {"auditing", "done"}
    PROVE  ~Stored(r)
BY PipelineAssumption DEF RowsInv, Stored

(* The answer of a create.                                                  *)
LEMMA CreateAnswer ==
    ASSUME NEW r \in Requests, RequestsTyped, RequestInv(r), PoolInv, RowsInv,
           \/ BodyRejected(r) \/ InsertFails(r) \/ CommitFails(r) \/ Audit(r) \/ AuditFails(r)
    PROVE  AnswerInv(r)'
<1>1. ask[r].route = "createMatch"
  BY DEF BodyRejected, InsertFails, CommitFails, Audit, AuditFails, RequestInv, Creates
<1>2. Entitled(r) /\ GetTenantId(r) = Acting(r)
  BY <1>1, OwnAnswer DEF BodyRejected, InsertFails, CommitFails, Audit, AuditFails
<1>3. UNCHANGED <<token, ask, context, known, env>>
  BY ForwardKeeps DEF Forward
<1>4. /\ Entitled(r)' /\ Acting(r)' = Acting(r)
      /\ TenantOf(r)' = TenantOf(r) /\ (WavedThrough(r)' <=> WavedThrough(r))
  BY <1>2, <1>3, ClaimKept
<1>5. CASE BodyRejected(r)
  <2>1. Reply(r, 400, {}) /\ rows' = rows /\ ~Stored(r)
    BY <1>5, NotYetStored DEF BodyRejected, dbVars
  <2> QED
    BY <1>4, <2>1, Refused
<1>6. CASE InsertFails(r)
  <2>1. answer'[r] = [status |-> 503, rows |-> {}] /\ rows' = rows
    BY <1>6, StatusValues DEF InsertFails, Throw, Reply, RequestsTyped
  <2>2. ASSUME NEW c \in conn[r], ~Policy(c, GetTenantId(r))
        PROVE  env.enforced /\ (~env.injected \/ TenantOf(r) = "public" \/ WavedThrough(r))
    <3>1. setting[c] = LocalSetting(r)
      BY <2>2 DEF PoolInv
    <3> QED
      BY <1>2, <2>2, <3>1 DEF Policy, LocalSetting, Acting
  <2>3. Excused(r) \/ "db" \in env.faults
    <3>1. \/ \E c \in conn[r] : ~Policy(c, GetTenantId(r))
          \/ ~ask[r].fits \/ Taken(ask[r].ext) \/ "db" \in env.faults
      BY <1>6 DEF InsertFails
    <3> QED
      BY <1>1, <2>2, <3>1 DEF Excused
  <2>4. Excused(r)' <=> Excused(r)
    BY <1>3, <1>4, <2>1 DEF Excused, Taken
  <2> QED
    BY <1>3, <1>4, <2>1, <2>3, <2>4 DEF AnswerInv, FoundOrNot
<1>7. CASE CommitFails(r) \/ AuditFails(r)
  <2>1. answer'[r] = [status |-> 503, rows |-> {}] /\ "db" \in env.faults
    BY <1>7, StatusValues DEF CommitFails, AuditFails, Throw, Reply, RequestsTyped
  <2> QED
    BY <1>3, <1>4, <2>1 DEF AnswerInv, FoundOrNot
<1>8. CASE Audit(r)
  <2>1. answer'[r] = [status |-> 201, rows |-> {Row(r)}] /\ rows' = rows /\ pc[r] = "auditing"
    BY <1>8 DEF Audit, Reply, RequestsTyped, dbVars
  <2>2. Stored(r)' /\ Row(r).tenant = Acting(r)
    BY <1>2, <2>1 DEF RowsInv, Stored, Row
  <2> QED
    BY <1>4, <2>1, <2>2 DEF AnswerInv, FoundOrNot
<1> QED
  BY <1>5, <1>6, <1>7, <1>8

(* A row found by its id is of the tenant the request acts in; under the    *)
(* policies none is found, as no tenant is set on a connection of the pool. *)
FoundBy(r, c) == {x \in Visible(r, c) : x.id = ask[r].item}

LEMMA FoundOrHidden ==
    ASSUME NEW r \in Requests, RequestInv(r), PoolInv, RowsInv,
           ask[r].route # "live", pc[r] = "handling", NEW c \in Free
    PROVE  r \in known =>
               (FoundBy(r, c) = {} <=> Hidden(r))
<1> SUFFICES ASSUME r \in known
             PROVE  FoundBy(r, c) = {} <=> Hidden(r)
  OBVIOUS
<1>1. GetTenantId(r) = Acting(r) /\ Acting(r) # ""
  BY OwnAnswer
<1>2. setting[c] = ""
  <2>1. c \in Connections /\ \A q \in Requests : c \notin conn[q]
    BY DEF Free
  <2> QED
    BY <2>1 DEF PoolInv
<1>3. PICK x \in rows : /\ x.id = ask[r].item /\ x.table = Table(ask[r].route)
                        /\ x.tenant = TenantOf(r)
  BY DEF RowsInv
<1>4. ASSUME FoundBy(r, c) = {} PROVE Hidden(r)
  BY <1>1, <1>3, <1>4 DEF FoundBy, Visible, Policy, Acting, Hidden
<1>5. ASSUME NEW y \in FoundBy(r, c)
      PROVE  ~Hidden(r)
  <2>1. /\ y \in rows /\ y.id = x.id /\ y.table = x.table
        /\ y.tenant = Acting(r) /\ (env.enforced => setting[c] = y.tenant)
    BY <1>1, <1>3 DEF FoundBy, Visible, Policy
  <2>2. CASE x \in Seeds /\ y \in Seeds
    BY <1>1, <1>2, <1>3, <2>1, <2>2, PipelineAssumption DEF Acting, Hidden
  <2>3. CASE x \notin Seeds /\ y \notin Seeds
    <3>1. x.tenant = Acting(x.id) /\ y.tenant = Acting(x.id)
      BY <2>1, <2>3 DEF RowsInv
    <3> QED
      BY <1>1, <1>2, <1>3, <2>1, <3>1 DEF Acting, Hidden
  <2>4. x \in Seeds <=> y \in Seeds
    <3>1. \A z \in rows : z \in Seeds <=> z.id \notin Requests
      BY PipelineAssumption DEF RowsInv
    <3> QED
      BY <2>1, <3>1
  <2> QED
    BY <2>2, <2>3, <2>4
<1>6. FoundBy(r, c) = {} \/ \E y \in FoundBy(r, c) : TRUE
  OBVIOUS
<1> QED
  BY <1>4, <1>5, <1>6

(* The answer of a read.                                                    *)
LEMMA ReadAnswer ==
    ASSUME NEW r \in Requests, RequestsTyped, RequestInv(r), PoolInv, RowsInv, List(r) \/ Get(r)
    PROVE  AnswerInv(r)'
<1>1. ask[r].route \in {"listMatches", "listAdvice", "getMatch", "getAdvice"}
  BY DEF List, Get
<1>2. pc[r] = "handling" /\ rows' = rows
  BY DEF List, Get, dbVars
<1>3. Entitled(r) /\ GetTenantId(r) = Acting(r) /\ ~Stored(r)
  BY <1>1, <1>2, OwnAnswer, NotYetStored
<1>4. UNCHANGED <<token, ask, context, known, env>>
  BY ForwardKeeps DEF Forward
<1>5. /\ Entitled(r)' /\ Acting(r)' = Acting(r) /\ ~Stored(r)'
      /\ TenantOf(r)' = TenantOf(r) /\ (WavedThrough(r)' <=> WavedThrough(r))
  BY <1>2, <1>3, <1>4, ClaimKept DEF Stored
<1>6. ASSUME NEW c \in Connections, NEW found \in SUBSET Visible(r, c), Reply(r, 200, found),
             r \in known => FoundOrNot(r)'
      PROVE  AnswerInv(r)'
  <2>1. answer'[r] = [status |-> 200, rows |-> found]
    BY <1>6 DEF Reply, RequestsTyped
  <2>2. \A x \in found : x.tenant = Acting(r)
    BY <1>3, <1>6 DEF Visible
  <2> QED
    BY <1>4, <1>5, <1>6, <2>1, <2>2 DEF AnswerInv
<1>7. ASSUME ~ask[r].fits, ask[r].route # "listMatches", Throw(r, "database")
      PROVE  AnswerInv(r)'
  <2>1. answer'[r] = [status |-> 503, rows |-> {}]
    BY <1>7, StatusValues DEF Throw, Reply, RequestsTyped
  <2>2. Excused(r)'
    BY <1>1, <1>4, <1>7 DEF Excused
  <2> QED
    BY <1>5, <2>1, <2>2 DEF AnswerInv, FoundOrNot
<1>8. CASE List(r)
  <2>1. PICK c \in Free : \/ /\ ask[r].route = "listAdvice" /\ ~ask[r].fits
                             /\ Throw(r, "database")
                          \/ Reply(r, 200, Visible(r, c))
    BY <1>8 DEF List
  <2>2. FoundOrNot(r)'
    BY <1>4, <1>8 DEF List, FoundOrNot
  <2> QED
    BY <1>6, <1>7, <2>1, <2>2 DEF Free
<1>9. CASE Get(r)
  <2>1. PICK c \in Free : \/ ~ask[r].fits /\ Throw(r, "database")
                          \/ FoundBy(r, c) = {} /\ Throw(r, "notFound")
                          \/ FoundBy(r, c) # {} /\ Reply(r, 200, FoundBy(r, c))
    BY <1>9 DEF Get, FoundBy
  <2>2. ask[r].route # "listMatches" /\ ask[r].route # "live"
    BY <1>9 DEF Get
  <2>3. r \in known =>
           (FoundBy(r, c) = {} <=> Hidden(r))
    BY <1>2, <2>2, FoundOrHidden
  <2>4. CASE FoundBy(r, c) = {} /\ Throw(r, "notFound")
    <3>1. answer'[r] = [status |-> 404, rows |-> {}] /\ pc'[r] = "done"
      BY <2>4, StatusValues DEF Throw, Reply, RequestsTyped
    <3>2. r \in known => FoundOrNot(r)'
      BY <1>4, <1>5, <2>3, <2>4, <3>1 DEF FoundOrNot, Hidden
    <3> QED
      BY <1>4, <1>5, <3>1, <3>2 DEF AnswerInv
  <2>5. CASE FoundBy(r, c) # {} /\ Reply(r, 200, FoundBy(r, c))
    <3>1. answer'[r].status = 200
      BY <2>5 DEF Reply, RequestsTyped
    <3>2. r \in known => FoundOrNot(r)'
      BY <1>4, <1>5, <2>3, <2>5, <3>1 DEF FoundOrNot, Hidden
    <3> QED
      BY <1>6, <2>5, <3>2 DEF Free, FoundBy
  <2> QED
    BY <1>7, <2>1, <2>2, <2>4, <2>5
<1> QED
  BY <1>8, <1>9

LEMMA ForwardAnswer ==
    ASSUME NEW r \in Requests, RequestsTyped, LookupInv, RequestInv(r), PoolInv, RowsInv,
           Forward(r)
    PROVE  AnswerInv(r)'
<1>1. UNCHANGED <<token, ask, context, known, env>>
  BY ForwardKeeps
<1>2. CASE GuardPublic(r) \/ Begin(r) \/ Insert(r) \/ Commit(r)
  <2>1. answer'[r] = NoAnswer
    BY <1>2 DEF GuardPublic, Begin, Insert, Commit, Goto, RequestInv
  <2> QED
    BY <2>1, Unanswered
<1>3. CASE GuardBySecret(r) \/ GuardByKey(r)
  <2>1. pc[r] \in Guards /\ rows' = rows
    BY <1>3, GuardOutcome
  <2>2. ~Stored(r)
    BY <2>1, NotYetStored DEF Guards
  <2>3. CASE Reply(r, 401, {}) \/ Reply(r, 403, {})
    BY <2>1, <2>2, <2>3, Refused
  <2>4. CASE Pass(r)
    <3>1. answer'[r] = NoAnswer
      BY <2>1, <2>4 DEF Pass, Goto, RequestInv, Guards
    <3> QED
      BY <3>1, Unanswered
  <2> QED
    BY <1>3, <2>3, <2>4, GuardOutcome
<1>4. CASE GetLive(r)
  <2>1. answer'[r] = [status |-> 200, rows |-> {}] /\ ask'[r].route = "live"
    BY <1>1, <1>4 DEF GetLive, Reply, RequestsTyped
  <2> QED
    BY <2>1 DEF AnswerInv, FoundOrNot
<1>5. CASE DatabaseFails(r)
  <2>1. PICK status \in {500, 503} : Reply(r, status, {})
    BY <1>5, StatusValues DEF DatabaseFails, Throw
  <2>2. answer'[r] = [status |-> status, rows |-> {}]
    BY <2>1 DEF Reply, RequestsTyped
  <2>3. "db" \in env'.faults
    BY <1>1, <1>5 DEF DatabaseFails
  <2>4. pc[r] = "handling" /\ ask[r].route # "live"
    BY <1>5 DEF DatabaseFails
  <2>5. Entitled(r)
    BY <2>4, OwnAnswer
  <2>6. Entitled(r)'
    BY <1>1, <2>5 DEF Entitled
  <2> QED
    BY <2>2, <2>3, <2>6 DEF AnswerInv, FoundOrNot
<1> QED
  BY <1>2, <1>3, <1>4, <1>5, CreateAnswer, ReadAnswer DEF Forward

(* What other requests do takes nothing from an answer.                     *)
LEMMA OthersAnswer ==
    ASSUME NEW r \in Requests, NEW q \in Requests \ {r}, RequestsTyped, AnswerInv(q),
           Send(r) \/ Forward(r)
    PROVE  AnswerInv(q)'
<1>1. /\ pc'[q] = pc[q] /\ answer'[q] = answer[q] /\ token'[q] = token[q] /\ ask'[q] = ask[q]
      /\ env' = env
  BY OthersKept, ForwardKeeps DEF Send
<1>2. q \in known' <=> q \in known
  BY ForwardKeeps DEF Send
<1>3. rows \subseteq rows' /\ rows' \subseteq rows \cup {Row(r)}
  BY ForwardRows DEF Send, dbVars
<1>4. Stored(q)' <=> Stored(q)
  BY <1>3 DEF Stored, Row
<1>5. Taken(ask[q].ext) => Taken(ask[q].ext)'
  BY <1>1, <1>3 DEF Taken
<1>6. /\ (Entitled(q)' <=> Entitled(q)) /\ (WavedThrough(q)' <=> WavedThrough(q))
      /\ TenantOf(q)' = TenantOf(q) /\ Acting(q)' = Acting(q)
  BY <1>1, ClaimKept
<1>7. /\ Excused(q) => Excused(q)'
      /\ FoundOrNot(q) => FoundOrNot(q)'
  BY <1>1, <1>5, <1>6 DEF Excused, FoundOrNot, Hidden
<1> QED
  BY <1>1, <1>2, <1>4, <1>6, <1>7 DEF AnswerInv

LEMMA AnswersStep ==
    /\ RequestsTyped /\ LookupInv /\ RequestsInv /\ PoolInv /\ RowsInv /\ AnswersInv
    /\ [Next]_vars
    => AnswersInv'
<1> SUFFICES ASSUME RequestsTyped, LookupInv, RequestsInv, PoolInv, RowsInv, AnswersInv,
                    [Next]_vars, NEW q \in Requests
             PROVE  AnswerInv(q)'
  BY DEF AnswersInv
<1>1. AnswerInv(q) /\ RequestInv(q)
  BY DEF AnswersInv, RequestsInv
<1>2. CASE UNCHANGED <<requestVars, rows, env, answer>>
  <2>1. /\ Entitled(q)' <=> Entitled(q)
        /\ WavedThrough(q)' <=> WavedThrough(q)
        /\ TenantOf(q)' = TenantOf(q) /\ Acting(q)' = Acting(q)
    BY <1>2, ClaimKept DEF requestVars
  <2>2. /\ Stored(q)' <=> Stored(q)
        /\ Taken(ask[q].ext)' <=> Taken(ask[q].ext)
    BY <1>2 DEF requestVars, Stored, Taken
  <2>3. Excused(q)' <=> Excused(q)
    BY <1>2, <2>1, <2>2 DEF requestVars, Excused
  <2>4. FoundOrNot(q)' <=> FoundOrNot(q)
    BY <1>2, <2>1 DEF requestVars, FoundOrNot, Hidden
  <2> QED
    BY <1>1, <1>2, <2>1, <2>2, <2>3, <2>4 DEF requestVars, AnswerInv
<1>3. ASSUME Send(q) PROVE AnswerInv(q)'
  <2>1. rows' = rows /\ ~Stored(q)
    BY <1>3, NotYetStored DEF Send, dbVars
  <2>2. CASE Reply(q, 401, {})
    BY <2>1, <2>2, Refused
  <2>3. CASE Goto(q, "appGuards")
    <3>1. answer'[q] = NoAnswer
      BY <1>1, <1>3, <2>3 DEF Send, Goto, RequestInv
    <3> QED
      BY <3>1, Unanswered
  <2>4. Reply(q, 401, {}) \/ Goto(q, "appGuards")
    BY <1>3 DEF Send
  <2> QED
    BY <2>2, <2>3, <2>4
<1>4. ASSUME NEW r \in Requests, Send(r) \/ Forward(r) PROVE AnswerInv(q)'
  <2>1. CASE q = r
    BY <1>1, <1>3, <1>4, <2>1, ForwardAnswer
  <2>2. CASE q # r
    BY <1>1, <1>4, <2>2, OthersAnswer
  <2> QED
    BY <2>1, <2>2
<1> QED
  BY <1>2, <1>4, NextSplits DEF vars, dbVars, ProviderStep, GuardAsksKey, FetchStep

-------------------------------------------------------------------------------
(* The theorems *)

PipelineInv ==
    /\ RequestsTyped /\ LookupInv /\ RequestsInv
    /\ PoolInv /\ RowsInv /\ AnswersInv

THEOREM PipelineInvariance == Spec => []PipelineInv
<1>1. Init => PipelineInv
  <2> SUFFICES ASSUME Init PROVE PipelineInv
    OBVIOUS
  <2>1. RequestsTyped
    BY DEF Init, RequestsTyped, Stages2
  <2>2. LookupInv
    BY DEF Init, JwksInit, LookupInv
  <2>3. RequestsInv
    BY DEF Init, RequestsInv, RequestInv, NoAnswer, Creates
  <2>4. PoolInv
    BY DEF Init, PoolInv, InTransaction
  <2>5. RowsInv
    BY PipelineAssumption DEF Init, RowsInv
  <2>6. AnswersInv
    <3> SUFFICES ASSUME NEW r \in Requests PROVE AnswerInv(r)
      BY DEF AnswersInv
    <3>1. answer[r].status = 0 /\ answer[r].rows = {}
      BY DEF Init
    <3> QED
      BY <3>1 DEF AnswerInv, FoundOrNot
  <2> QED
    BY <2>1, <2>2, <2>3, <2>4, <2>5, <2>6 DEF PipelineInv
<1>2. JwksInv /\ PipelineInv /\ [Next]_vars => PipelineInv'
  BY TypedStep, LookupStep, RequestsStep, PoolStep, RowsStep, AnswersStep DEF PipelineInv
<1> QED
  BY <1>1, <1>2, PipelineUsesCache, Invariance, PTL DEF Spec

(* Every variable keeps its type, and a transaction has a connection to     *)
(* itself.                                                                  *)
THEOREM PipelineTypes == Spec => []TypeOK
<1>1. JwksInv /\ PipelineInv => TypeOK
  <2> SUFFICES ASSUME JwksInv, PipelineInv PROVE TypeOK
    OBVIOUS
  <2>1. \A r \in Requests :
           IF pc[r] \in {"inserting", "committing"}
           THEN \E c \in Connections : /\ conn[r] = {c}
                                       /\ \A q \in Requests \ {r} : c \notin conn[q]
           ELSE conn[r] = {}
    BY DEF PipelineInv, PoolInv, InTransaction
  <2> QED
    BY <2>1 DEF TypeOK, JwksInv, PipelineInv, RequestsTyped, PoolInv, RowsInv
<1> QED
  BY <1>1, PipelineInvariance, PipelineUsesCache, Invariance, PTL

(* No tenant's setting outlives its transaction on a pooled connection.     *)
THEOREM PoolIsClean == Spec => []PoolForgetsTenant
<1>1. PipelineInv => PoolForgetsTenant
  <2> SUFFICES ASSUME PipelineInv, NEW c \in Connections, \A r \in Requests : c \notin conn[r]
               PROVE  setting[c] = ""
    BY DEF PoolForgetsTenant, Free
  <2> QED
    BY DEF PipelineInv, PoolInv
<1> QED
  BY <1>1, PipelineInvariance, PTL

(* Tenants stay apart, with and without row-level security, except that a   *)
(* request waved through on a "health" URL acts in tenant "public".         *)
THEOREM TenantsApart == Spec => []OwnRowsOnly
<1>1. PipelineInv => OwnRowsOnly
  <2> SUFFICES ASSUME PipelineInv, NEW r \in Requests,
                      NEW x \in answer[r].rows \cup {y \in rows : y.id = r}
               PROVE  x.tenant = Acting(r)
    BY DEF OwnRowsOnly, Acting
  <2>1. CASE x \in answer[r].rows
    BY <2>1 DEF PipelineInv, AnswersInv, AnswerInv
  <2>2. CASE x \in rows /\ x.id = r
    <3>1. x \notin Seeds
      BY <2>2, PipelineAssumption
    <3> QED
      BY <2>2, <3>1 DEF PipelineInv, RowsInv
  <2> QED
    BY <2>1, <2>2
<1> QED
  BY <1>1, PipelineInvariance, PTL

(* A row the tenant has is found, unless the policies apply to the role or  *)
(* the request was waved through into another tenant; then it is not.       *)
THEOREM RowsAreFound == Spec => []StoredRowFound
<1>1. PipelineInv => StoredRowFound
  BY DEF PipelineInv, RequestsTyped, AnswersInv, AnswerInv, FoundOrNot, Hidden, StoredRowFound
<1> QED
  BY <1>1, PipelineInvariance, PTL

(* 201 means stored and 4xx means not stored.                               *)
THEOREM AnswersAreTrue == Spec => []AnswersTruthful
<1>1. PipelineInv => AnswersTruthful
  BY DEF PipelineInv, AnswersInv, AnswerInv, Stored, AnswersTruthful
<1> QED
  BY <1>1, PipelineInvariance, PTL

(* While the database works, a server error has one of three reasons: a value *)
(* it cannot take, an external id taken, or a policy that finds no tenant    *)
(* set, since the subscriber has no context or the tenant is "public".       *)
THEOREM ErrorsHaveReasons == Spec => []ServerErrorsExplained
<1>1. PipelineInv => ServerErrorsExplained
  BY DEF PipelineInv, AnswersInv, AnswerInv, Excused, ServerErrorsExplained
<1> QED
  BY <1>1, PipelineInvariance, PTL

(* Nobody gets past the guards without the scope, issuer and audience.      *)
THEOREM OnlyTheEntitledPass == Spec => []EntitledOnly
<1>1. PipelineInv => EntitledOnly
  BY DEF PipelineInv, AnswersInv, AnswerInv, Entitled, EntitledOnly
<1> QED
  BY <1>1, PipelineInvariance, PTL

===============================================================================
