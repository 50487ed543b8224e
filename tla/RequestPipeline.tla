---------------------------- MODULE RequestPipeline ----------------------------
(***************************************************************************)
(* An HTTP request on its way through the API: TenantMiddleware, the       *)
(* global guards and the same guards again on the controller, the handlers *)
(* that create and read rows in the tenant's context, row-level security,  *)
(* and GlobalExceptionFilter.  Requests run concurrently in one process    *)
(* and share the JWKS cache and the pool of connections; each await is a   *)
(* step boundary.                                                          *)
(***************************************************************************)
EXTENDS JwksCache, FiniteSets

CONSTANTS
    Tokens,       \* tokens there are
    Asks,         \* what requests may ask for: [route, ext, item, health, fits]
    Sanitize,     \* Sanitize[n]: the tenant id made of the claim n, "" if nothing is left
    Connections,  \* connections of the database pool
    Seeds,        \* rows stored before
    Environments  \* deployments, with the traffic and the kinds of fault they see

ASSUME PipelineAssumption ==
    /\ \A t \in Tokens : t.alg = "RS" => t.kid \in Kids
    /\ \A e \in Environments : e.tokens \subseteq Tokens /\ e.asks \subseteq Asks
    /\ \A a \in Asks : a.health \in BOOLEAN /\ (a.route = "live" => a.health)
    /\ \A x \in Seeds : x.id \notin Requests
    /\ \A x, y \in Seeds : x.id = y.id /\ x.table = y.table => x.tenant = y.tenant
    /\ Sanitize[""] = "" /\ Sanitize["public"] = "public"

VARIABLES
    env,      \* the deployment, fixed: secret, injected, enforced, faults, tokens, asks
    pc,       \* pc[r]: the stage of request r
    token,    \* token[r]: the token it carries
    ask,      \* ask[r]: what it asks for
    context,  \* context[r]: the tenant in its AsyncLocalStorage, "" for none
    known,    \* requests for a row that was there before they were sent (history)
    conn,     \* conn[r]: connections its transaction holds, one at most
    setting,  \* setting[c]: app.current_tenant_id on connection c, "" if not set
    rows,     \* committed rows
    answer    \* answer[r]: status and rows it was answered with, status 0 before

requestVars == <<pc, token, ask, context, known>>
dbVars      == <<conn, setting, rows>>
vars        == <<jwksVars, requestVars, dbVars, env, answer>>

Routes  == {"live", "createMatch", "getMatch", "listMatches", "getAdvice", "listAdvice"}
Reads   == Routes \ {"live", "createMatch"}
Guards  == {"appGuards", "routeGuards"}
Stages2 == {"new"} \cup Guards \cup {"handling", "inserting", "committing", "auditing", "done"}

Scope ==
    [createMatch |-> {"matches:write"}, getMatch |-> {"matches:read"},
     listMatches |-> {"matches:read"}, getAdvice |-> {"advice:read"},
     listAdvice |-> {"advice:read"}, live |-> {}]

Table(route) == IF route \in {"getAdvice", "listAdvice"} THEN "advice" ELSE "matches"

NoToken == [alg |-> "absent", kid |-> NoKey, genuine |-> FALSE, claims |-> FALSE,
            age |-> "fresh", tenant |-> "", scopes |-> {}]

(* health: the URL, its query string included, contains "health".           *)
(* fits: an id in it is a UUID, and the database takes every value of the   *)
(* body: the DTO sets no bound on the strings of VARCHAR(255) columns.      *)
NoAsk == [route |-> "live", ext |-> "", item |-> NoKey, health |-> TRUE, fits |-> TRUE]

Init ==
    /\ JwksInit
    /\ env     \in Environments
    /\ pc      = [r \in Requests |-> "new"]
    /\ token   = [r \in Requests |-> NoToken]
    /\ ask     = [r \in Requests |-> NoAsk]
    /\ context = [r \in Requests |-> ""]
    /\ known   = {}
    /\ conn    = [r \in Requests |-> {}]
    /\ setting = [c \in Connections |-> ""]
    /\ rows    = Seeds
    /\ answer  = [r \in Requests |-> [status |-> 0, rows |-> {}]]

-------------------------------------------------------------------------------
(* GlobalExceptionFilter: the status for each kind of exception.            *)
StatusOf(kind) ==
    CASE kind = "notFound"    -> 404
      [] kind = "notProvided" -> 503
      [] kind = "invalid"     -> 422
      [] kind = "domain"      -> 400
      [] kind \in {"database", "redis", "aws"} -> 503
      [] OTHER -> 500

Reply(r, status, result) ==
    /\ answer' = [answer EXCEPT ![r] = [status |-> status, rows |-> result]]
    /\ pc'     = [pc EXCEPT ![r] = "done"]

(* Seeded fault: an error of the database is blamed on the request. *)
ThrowAsDomain(r, kind) ==
    Reply(r, StatusOf(IF kind = "database" THEN "domain" ELSE kind), {})

Throw(r, kind) == Reply(r, StatusOf(kind), {})

Goto(r, to) ==
    /\ pc' = [pc EXCEPT ![r] = to]
    /\ UNCHANGED answer

-------------------------------------------------------------------------------
(* TenantMiddleware *)

(* jwt.verify with jwt.secret, a shared secret or one public key of the     *)
(* provider: a key of the wrong type for the token's algorithm is refused.  *)
(* Issuer and audience are not looked at.                                   *)
MiddlewareVerifies(t) ==
    /\ t.genuine /\ t.age = "fresh"
    /\ \/ env.secret = "shared" /\ t.alg = "HS"
       \/ t.alg = "RS" /\ t.kid = env.secret

(* The claim the tenant is made of: on a URL that contains "health" a token *)
(* that is refused, or names no tenant, goes on as one of tenant "public".  *)
Claim(t, a) ==
    IF MiddlewareVerifies(t) /\ t.tenant # "" THEN t.tenant
    ELSE IF a.health THEN "public" ELSE ""

Send(r) ==
    /\ pc[r] = "new"
    /\ \E t \in env.tokens, a \in env.asks :
          LET tenant == Sanitize[Claim(t, a)] IN
          /\ token' = [token EXCEPT ![r] = t]
          /\ ask'   = [ask EXCEPT ![r] = a]
          /\ known' = IF \E x \in rows : /\ x.id = a.item /\ x.table = Table(a.route)
                                         /\ x.tenant = Sanitize[t.tenant]
                      THEN known \cup {r} ELSE known
          /\ context' = [context EXCEPT ![r] = tenant]
          /\ IF tenant = "" THEN Reply(r, 401, {}) ELSE Goto(r, "appGuards")
    /\ UNCHANGED <<jwksVars, dbVars, env>>

-------------------------------------------------------------------------------
(* JwtAuthGuard and PermissionsGuard, first as global guards, then again as *)
(* the controller's.                                                        *)

(* Seeded fault: issuer and audience are left to the middleware. *)
AnyIssuer(t) == t.genuine /\ t.age \in {"fresh", "late"}

(* jwt.verify with the right key: signature, issuer, audience, and expiry   *)
(* within the clock skew.                                                   *)
Verifies(t) == t.genuine /\ t.claims /\ t.age \in {"fresh", "late"}

Pass(r) == Goto(r, IF pc[r] = "appGuards" THEN "routeGuards" ELSE "handling")

(* The token is judged, then its scopes. *)
Judge(r, keyFits) ==
    IF ~(keyFits /\ Verifies(token[r]) /\ token[r].tenant # "")
        THEN Reply(r, 401, {})
    ELSE IF ~(Scope[ask[r].route] \subseteq token[r].scopes)
        THEN Reply(r, 403, {})
    ELSE Pass(r)

(* A public route: the health controller has no guards of its own. *)
GuardPublic(r) ==
    /\ pc[r] = "appGuards" /\ ask[r].route = "live"
    /\ Goto(r, "handling")
    /\ UNCHANGED <<jwksVars, token, ask, context, known, dbVars, env>>

(* A shared secret decides at once.  It has to be one: jwt.verify does not  *)
(* take a public key for HS256.                                             *)
GuardBySecret(r) ==
    /\ pc[r] \in Guards /\ ask[r].route # "live"
    /\ token[r].alg # "RS"
    /\ Judge(r, env.secret = "shared" /\ token[r].alg = "HS")
    /\ UNCHANGED <<jwksVars, token, ask, context, known, dbVars, env>>

GuardAsksKey(r) ==
    /\ pc[r] \in Guards /\ ask[r].route # "live"
    /\ token[r].alg = "RS"
    /\ GetSigningKey(r, token[r].kid)
    /\ UNCHANGED <<requestVars, dbVars, env, answer>>

GuardByKey(r) ==
    /\ Leave(r)
    /\ Judge(r, stage[r] = "found")
    /\ UNCHANGED <<token, ask, context, known, dbVars, env>>

-------------------------------------------------------------------------------
(* The tenant's rows *)

(* Seeded fault: the tenant claim as the token spells it. *)
RawTenantId(r) == token[r].tenant

(* Seeded fault: one context for the process, whoever asks. *)
AnyTenantId(r) ==
    LET others == {q \in Requests \ {r} : pc[q] \notin {"new", "done"}} IN
    context[CHOOSE q \in (IF others = {} THEN {r} ELSE others) : TRUE]

GetTenantId(r) == context[r]

Free == Connections \ UNION {conn[r] : r \in Requests}

(* The policy of every table, for a role it applies to. *)
Policy(c, tenant) == env.enforced => setting[c] = tenant

(* Seeded fault: the subscriber sets nothing. *)
NoSetting(r) == ""

(* afterTransactionStart, for a subscriber that was given a TenantContext. *)
LocalSetting(r) ==
    IF env.injected /\ GetTenantId(r) # "public" THEN GetTenantId(r) ELSE ""

Begin(r) ==
    /\ pc[r] = "handling" /\ ask[r].route = "createMatch"
    /\ \E c \in Free :
          /\ conn'    = [conn EXCEPT ![r] = {c}]
          /\ setting' = [setting EXCEPT ![c] = LocalSetting(r)]
    /\ Goto(r, "inserting")
    /\ UNCHANGED <<jwksVars, token, ask, context, known, rows, env>>

(* ValidationPipe. *)
BodyRejected(r) ==
    /\ pc[r] = "handling" /\ ask[r].route = "createMatch"
    /\ Reply(r, 400, {})
    /\ UNCHANGED <<jwksVars, token, ask, context, known, dbVars, env>>

(* Seeded fault: the connection is not released. *)
KeepConnection(r) ==
    /\ setting' = [c \in Connections |-> IF c \in conn[r] THEN "" ELSE setting[c]]
    /\ UNCHANGED conn

(* Seeded fault: the setting outlives the transaction. *)
KeepSetting(r) ==
    /\ conn' = [conn EXCEPT ![r] = {}]
    /\ UNCHANGED setting

(* COMMIT or ROLLBACK; the connection goes back to the pool. *)
EndTransaction(r) ==
    /\ conn'    = [conn EXCEPT ![r] = {}]
    /\ setting' = [c \in Connections |-> IF c \in conn[r] THEN "" ELSE setting[c]]

Row(r) == [id |-> r, table |-> "matches", tenant |-> GetTenantId(r), ext |-> ask[r].ext]

(* external_id is unique in the table, over all tenants. *)
Taken(ext) == ext # "" /\ \E x \in rows : x.ext = ext

(* An insert waits for a transaction that is inserting the same external id.*)
Insert(r) ==
    /\ pc[r] = "inserting"
    /\ \A c \in conn[r] : Policy(c, GetTenantId(r))
    /\ ask[r].fits /\ ~Taken(ask[r].ext)
    /\ \A q \in Requests : pc[q] = "committing" /\ ask[q].ext # "" => ask[q].ext # ask[r].ext
    /\ Goto(r, "committing")
    /\ UNCHANGED <<jwksVars, token, ask, context, known, dbVars, env>>

(* The policy, a column or the unique index refuses the row, or the query   *)
(* fails.                                                                   *)
InsertFails(r) ==
    /\ pc[r] = "inserting"
    /\ \/ \E c \in conn[r] : ~Policy(c, GetTenantId(r))
       \/ ~ask[r].fits \/ Taken(ask[r].ext)
       \/ "db" \in env.faults
    /\ EndTransaction(r)
    /\ Throw(r, "database")
    /\ UNCHANGED <<jwksVars, token, ask, context, known, rows, env>>

Commit(r) ==
    /\ pc[r] = "committing"
    /\ rows' = rows \cup {Row(r)}
    /\ EndTransaction(r)
    /\ Goto(r, "auditing")
    /\ UNCHANGED <<jwksVars, token, ask, context, known, env>>

(* COMMIT fails, or only its answer is lost. *)
CommitFails(r) ==
    /\ pc[r] = "committing"
    /\ "db" \in env.faults
    /\ rows' \in {rows, rows \cup {Row(r)}}
    /\ EndTransaction(r)
    /\ Throw(r, "database")
    /\ UNCHANGED <<jwksVars, token, ask, context, known, env>>

Audit(r) ==
    /\ pc[r] = "auditing"
    /\ Reply(r, 201, {Row(r)})
    /\ UNCHANGED <<jwksVars, token, ask, context, known, dbVars, env>>

AuditFails(r) ==
    /\ pc[r] = "auditing"
    /\ "db" \in env.faults
    /\ Throw(r, "database")
    /\ UNCHANGED <<jwksVars, token, ask, context, known, dbVars, env>>

(* find and findOne, outside any transaction.  An id that is no UUID        *)
(* reaches the database unchecked, which refuses the query.                 *)
Visible(r, c) ==
    {x \in rows : /\ x.table = Table(ask[r].route) /\ x.tenant = GetTenantId(r)
                  /\ Policy(c, x.tenant)}

List(r) ==
    /\ pc[r] = "handling" /\ ask[r].route \in {"listMatches", "listAdvice"}
    /\ \E c \in Free :
          IF ask[r].route = "listAdvice" /\ ~ask[r].fits THEN Throw(r, "database")
          ELSE Reply(r, 200, Visible(r, c))
    /\ UNCHANGED <<jwksVars, token, ask, context, known, dbVars, env>>

Get(r) ==
    /\ pc[r] = "handling" /\ ask[r].route \in {"getMatch", "getAdvice"}
    /\ \E c \in Free :
          LET found == {x \in Visible(r, c) : x.id = ask[r].item} IN
          IF ~ask[r].fits THEN Throw(r, "database")
          ELSE IF found = {} THEN Throw(r, "notFound")
          ELSE Reply(r, 200, found)
    /\ UNCHANGED <<jwksVars, token, ask, context, known, dbVars, env>>

(* No connection can be had: the message of the driver is an error of the   *)
(* database to the filter, or not.  Or the query fails.                     *)
DatabaseFails(r) ==
    /\ pc[r] = "handling" /\ ask[r].route # "live"
    /\ "db" \in env.faults
    /\ \E kind \in {"database", "other"} : Throw(r, kind)
    /\ UNCHANGED <<jwksVars, token, ask, context, known, dbVars, env>>

GetLive(r) ==
    /\ pc[r] = "handling" /\ ask[r].route = "live"
    /\ Reply(r, 200, {})
    /\ UNCHANGED <<jwksVars, token, ask, context, known, dbVars, env>>

-------------------------------------------------------------------------------
(* A step of a request's own; with an empty pool it just waits. *)
Handle(r) ==
    \/ GuardPublic(r) \/ GuardBySecret(r) \/ GuardAsksKey(r) \/ GuardByKey(r)
    \/ BodyRejected(r) \/ Begin(r)
    \/ Insert(r) \/ InsertFails(r) \/ Commit(r) \/ CommitFails(r)
    \/ Audit(r) \/ AuditFails(r)
    \/ List(r) \/ Get(r) \/ GetLive(r)

Fetch(r) == Serve(r) \/ StoreKeys(r) \/ ("jwks" \in env.faults /\ FetchFails(r))

FetchStep(r) == Fetch(r) /\ UNCHANGED <<requestVars, dbVars, env, answer>>

ProviderStep ==
    /\ \/ "rotate" \in env.faults /\ Publish
       \/ Tick
    /\ UNCHANGED <<requestVars, dbVars, env, answer>>

Next ==
    \/ ProviderStep
    \/ \E r \in Requests : Send(r) \/ Handle(r) \/ DatabaseFails(r) \/ FetchStep(r)

Spec == Init /\ [][Next]_vars

(* Callbacks run and fetches end.  Weak fairness is enough for the pool and *)
(* the unique index: every request is sent once, so whoever holds them      *)
(* leaves them for good.                                                    *)
Fairness == \A r \in Requests : WF_vars(Handle(r)) /\ WF_vars(FetchStep(r))

FairSpec == Spec /\ Fairness

-------------------------------------------------------------------------------
(* Properties *)

TenantOf(r) == Sanitize[token[r].tenant]

(* The middleware refused the token and let the request go on all the same. *)
WavedThrough(r) == ask[r].health /\ ~MiddlewareVerifies(token[r])

(* Every variable keeps its type, and a request holds one connection while  *)
(* its transaction is open, its own, and none before or after.              *)
TypeOK ==
    /\ JwksTypeOK
    /\ env     \in Environments
    /\ pc      \in [Requests -> Stages2]
    /\ token   \in [Requests -> Tokens \cup {NoToken}]
    /\ ask     \in [Requests -> Asks \cup {NoAsk}]
    /\ DOMAIN context = Requests
    /\ known   \subseteq Requests
    /\ \A r \in Requests :
          IF pc[r] \in {"inserting", "committing"}
          THEN \E c \in Connections : /\ conn[r] = {c}
                                      /\ \A q \in Requests \ {r} : c \notin conn[q]
          ELSE conn[r] = {}
    /\ DOMAIN setting = Connections
    /\ Seeds   \subseteq rows
    /\ DOMAIN answer = Requests

(* What a request stores or is shown belongs to the tenant of its token,    *)
(* whatever requests of other tenants run meanwhile on the same connections *)
(* and whether or not row-level security helps.  The one exception is a     *)
(* token only the guards accept, on a URL that contains "health": it acts   *)
(* in tenant "public", and never in that of another token.                  *)
OwnRowsOnly ==
    \A r \in Requests : \A x \in answer[r].rows \cup {y \in rows : y.id = r} :
        x.tenant = TenantOf(r) \/ (WavedThrough(r) /\ x.tenant = "public")

(* A row its tenant could see before the request was sent is found, except  *)
(* in just two cases, and in these never: the role is subject to row-level  *)
(* security, since reads run outside the transactions that set the tenant;  *)
(* or the request was waved through into another tenant.                    *)
StoredRowFound ==
    \A r \in known :
        answer[r].status \in {200, 404} /\ ask[r].route \in {"getMatch", "getAdvice"} =>
            (answer[r].status = 404
             <=> env.enforced \/ (WavedThrough(r) /\ TenantOf(r) # "public"))

(* A create answered 201 is stored; one answered with a client error left   *)
(* no row.  Only a 5xx leaves open which.                                   *)
AnswersTruthful ==
    \A r \in Requests :
        LET stored == \E x \in rows : x.id = r IN
        /\ answer[r].status = 201 => stored
        /\ answer[r].status \in 400..499 => ~stored

(* While the database works, a server error is met only by a request whose  *)
(* values it cannot take (an id that is no UUID, a string too long), by a   *)
(* create whose external id is taken, by any tenant, and by a create of a   *)
(* role subject to a policy nobody set the tenant for: the subscriber has   *)
(* no context, or the tenant is "public", the request's own or the one it   *)
(* was waved through into.                                                  *)
ServerErrorsExplained ==
    \A r \in Requests :
        answer[r].status >= 500 /\ "db" \notin env.faults =>
            \/ ~ask[r].fits /\ ask[r].route \notin {"live", "listMatches"}
            \/ /\ ask[r].route = "createMatch"
               /\ \/ env.enforced /\ \/ ~env.injected
                                      \/ TenantOf(r) = "public" \/ WavedThrough(r)
                  \/ Taken(ask[r].ext)

(* A connection in the pool is free of the tenant that used it last. *)
PoolForgetsTenant == \A c \in Free : setting[c] = ""

(* Past the guards comes only a token with a good signature, issuer and     *)
(* audience and the scope of the route, although the middleware and the two *)
(* rounds of guards each check only a part.                                 *)
EntitledOnly ==
    \A r \in Requests :
        ask[r].route # "live" /\ answer[r].status \notin {0, 401, 403} =>
            /\ token[r].genuine /\ token[r].claims
            /\ Scope[ask[r].route] \subseteq token[r].scopes

(* Every request sent is answered: key lookups end, and so does the wait    *)
(* for a connection and for another transaction's index entry.              *)
EveryRequestAnswered ==
    \A r \in Requests : pc[r] = "appGuards" ~> answer[r].status # 0

(* What README section 4 and ADR-003 promise: a good token of the OIDC      *)
(* provider, signed with a key it publishes, is not refused.  Under a       *)
(* shared secret the middleware refuses it on every URL that does not       *)
(* contain "health".                                                        *)
ProviderTokenAccepted ==
    \A r \in Requests :
        LET t == token[r] IN
        /\ t.alg = "RS" /\ t.kid \in published \cap Certified /\ t.genuine /\ t.claims
        /\ t.age = "fresh" /\ TenantOf(r) # ""
        /\ "jwks" \notin env.faults
        => answer[r].status # 401

===============================================================================
