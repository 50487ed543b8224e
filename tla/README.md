# Verification of bet-advise

TLA+ models of the parts of bet-advise (NestJS, PostgreSQL, Redis, S3, SQS)
whose correctness depends on the order in which things happen, TLC
configurations that check them on small instances, and TLAPS proofs for every
instance.

## 1. The system

One code base runs as two processes. The **API** process verifies a token,
resolves the tenant, and lets a user create matches and generate advice. The
**worker** process relays events to SQS and consumes them. They meet in the
database and in the queue only. Two scripts, the *bootstrap* and the *doctor*,
provision and try out the emulated AWS resources both processes use locally; the
doctor borrows the worker's queue for a test message.

```
 HTTP -> middleware -> guards, guards again -> handlers of matches and advice
           (tenant)    (keys from JWKS cache)    |  GenerateAdviceHandler:
                                                 |  one transaction, RLS
                                 +---------------+
                                 v
                   advice row + outbox_events row (PENDING)
                                 |  OutboxRelayService, on a timer
                                 v
                            SQS queue  --(too many receives)-->  DLQ
                                 |  SqsConsumerService, a poll loop
                                 v
              inbox_messages row, audit_logs row, DeleteMessage
```

### Components

| component | state it keeps | operations | what can go wrong | what makes it correct |
|---|---|---|---|---|
| Outbox relay (`outbox/application`) | `outbox_events` (status, attempts, next attempt, claim), the `processing` flag, timer, the batch in memory | `processOutbox`, `relayEvent`, `backoffMs`, start and stop | workers race for rows; a process dies between two awaits; a call takes effect and its answer is lost | one holder per row, sends bounded and accounted for, no event forgotten |
| SQS consumer and inbox (`shared/infrastructure/queue`) | `inbox_messages`, poll loop, received batch | `pollLoop`, `processMessageWithRetry`, `deleteMessage`, `pruneOldInboxMessages`, start and stop | redelivery, visibility timeout during the work, failing reservation, poison messages | no event lost, no handling repeated without need |
| SQS publishing adapter | none | `publish`, `publishBatch` (no caller) | partial failure of a batch | errors reach the relay |
| Advice generation (`advice/application`, repository) | `advice`, `outbox_events`, pooled connections | read match, evaluate, `createWithOutbox`, audit, local event | the audit entry is outside the transaction; a stale match status; retry after a lost answer | advice and event commit together |
| Advice policy (`Advice.evaluate`) | none | seven ordered gates | boundaries, order of gates | RECOMMENDED only behind all gates |
| Coupon risk model (`coupons/domain`) | none | `CouponDraft.create` | counting limits | no approved draft over a limit |
| Match lifecycle (`matches`) | `matches` | create, get, list, `transitionTo` | creation and audit are two writes; an external id that is unique over all tenants | terminal states stay, an answer says truly what was stored |
| Audit log | `audit_logs` | one insert, by each caller | it is never in the transaction it reports on | a failing entry is not mistaken for a failing request |
| Odds, predictions, no-vig | none | value validation | ranges | invalid values never constructed |
| Providers | registry in memory | register, get; unconfigured adapters throw | none registered | fail closed |
| JWT and JWKS cache (`auth`) | key map, time of the last fetch | `verifyToken`, `getSigningKey`, `fetchJwks` | overlapping fetches, late answers, expiry, key rotation | a published key is found, a withdrawn one expires |
| Guards and tenant middleware | none | `use`, `canActivate` | three checks of one token by two sets of rules | nobody unentitled passes, nobody entitled is refused |
| Tenant context and row-level security | async-local tenant, setting of a pooled connection | run in tenant, get tenant, `SET LOCAL` at the start of a transaction | interleaved requests, pooled connections, reads outside transactions | rows of one tenant only, and all of them |
| Exception filter | none | `catch` | the kind of an error is guessed from its message | a server error is not blamed on the client |
| Health checks | none | `getLive`, `getReady` | what readiness does not ask | ready when the stack is provisioned |
| Bootstrap script | resources of the emulator, `.env` files | `run()`: twelve calls and writes in order | it dies halfway, is run again or twice at once | completed means provisioned |
| Doctor script | test object, test message | `run()`: ten checks in order | it shares the queue with the worker | it costs no event, and fails only for a reason |
| Redis cache | cached values | get, set, delete, `remember` | stale write after a delete | no value older than its deletion |
| S3 storage, configuration | none | single calls | none of order | not modelled |

`PROJECT.json` gives every component's status and the list of hazards, each
with the source line and the properties that watch it.

## 2. Modules

| module | models | source |
|---|---|---|
| `OutboxContract` | what an outbox promises: commit, at most `MaxAttempts` sends, confirm, retract, give up | abstract |
| `OutboxRelay` | the relay, row by row and await by await | `outbox-relay.service.ts`, `sqs-message-queue.adapter.ts`, `createWithOutbox` |
| `OutboxRelayProofs` | theorems about `OutboxRelay` | |
| `InboxConsumer` | the consumer with the queue it polls | `sqs-consumer.service.ts`, queue attributes of `bootstrap-ministack.ts` |
| `InboxConsumerProofs` | theorems about it | |
| `EventDelivery` | relay and consumers joined by the queue | both |
| `EventDeliveryProofs` | it implements both of its components; theorems about what that gives | |
| `AdvicePolicy` | the gates of `Advice.evaluate`, as operators | `advice.entity.ts`, the constructors of its inputs |
| `AdvicePolicyProofs` | theorems about them | |
| `MatchLifecycle` | creation and status of matches | `match.entity.ts`, `create-match.handler.ts`, `typeorm-match.repository.ts` |
| `JwksCache` | lookups of signing keys that overlap, with rotation at the provider and time | `jwt-token.service.ts` |
| `JwksCacheProofs` | theorems about it | |
| `RequestPipeline` | an HTTP request from the middleware to its answer; extends `JwksCache` | `tenant.middleware.ts`, `jwt-auth.guard.ts`, `permissions.guard.ts`, `tenant-context.ts`, `tenant-rls.subscriber.ts`, `global-exception.filter.ts`, the handlers and repositories of matches, the reads of advice |
| `RequestPipelineProofs` | theorems about it, and that it uses the key cache as `JwksSpec` says | |
| `LocalStack` | bootstrap, doctor, consumer and readiness check around one emulator | `bootstrap-ministack.ts`, `doctor-ministack.ts`, `health.controller.ts` |
| `LocalStackProofs` | theorems about it | |
| `AdviceGeneration` | requests for advice, from the read of the match to the answer; instantiates `MatchLifecycle` | `generate-advice.handler.ts`, `typeorm-advice.repository.ts`, `matches-module.api.ts` |
| `AdviceGenerationProofs` | theorems about it | |
| `MC*` | instances for TLC | |

### Correspondence

**OutboxRelay.** A row is `status`, `attempts` and `wait` (ticks until
`next_attempt_at`). Events are numbered by `created_at`, which is not the order
of their commits. Each worker has a stage `pc`: *idle* is `processing = false`,
*claiming* is inside the claim transaction and holds the row locks, *relaying*
is between two entities of the batch, *marking* has published and is about to
write PUBLISHED, *recording* is in the catch block, *down* is no process. Every
`await` is a step boundary. `held` is what the worker locks or still has to
relay, `copy` the `attemptCount` of its loaded entities (the failure path
computes the next count from this copy, not from the row). `sent` counts the
`publish` calls the queue accepted; a call within which the AWS SDK sends again,
because the first answer was lost, counts once. The claim owner and the lease are not variables: the code
writes them and reads neither. `Seen` is what the policies of `outbox_events` let a
query of the worker see: everything, or for a role subject to them nothing, since
the relay runs outside any tenant.

**InboxConsumer.** `save` of an entity that carries its primary key is a SELECT
followed by an INSERT only when nothing was found; these are two steps
(`LookUp`, `Insert`), and an existing row makes `save` succeed. Every error of
`save` is treated as a duplicate. The reservation runs before the tenant's context
is entered, so the policy of `inbox_messages` refuses every INSERT of a role subject
to it (`Refused`). A receive may take effect and lose its answer (`ReceiveLost`). A
receipt handle is the receive count at which
it was obtained; SQS may or may not honour an old one. `Prune` removes old inbox
rows only when no message of the key is left, because the queue's retention is
shorter than the seven days of the code. The body of a message is abstracted to
its `kind`: advice, another type, no type, no usable tenant, not JSON.

**EventDelivery.** The k-th message accepted for event e is `<<e, k>>`; the
relay's send and the message's appearance are one step.

**AdvicePolicy.** Probabilities, scores and odds are hundredths, so every
comparison is exact except where the code compares a floating-point result with
its limit; there `ties` says on which side it landed, and nothing is assumed
about it. A verdict is the decision and the reason; the texts are left out.

**AdviceGeneration.** `pc[r]` is the await at which the handler of request `r`
stands: *reading* the match, *connecting* to the pool, *saving* the advice,
*recording* the event and *committing* inside the transaction, *auditing* and
*announcing* after it. The rows of an open transaction are in `draft` and appear
in `advice` and `events` at the commit. `free` counts the connections of the
pool that transactions use. A match never
changes in the code yet; `MatchLifecycle` applies `transitionTo` as its owner
would. A client may send a failed request again, which makes a new advice id.

**JwksCache.** `keys` is `jwksKeys`, `keysAge` the time since `lastFetchTime`. A
lookup is *refreshing* while it awaits the fetch that an empty or expired cache
asks for, *retrying* while it awaits the one made because its key was not in
the cache, and then has an outcome. The code has no lock and no shared promise, so
each lookup has a fetch of its own. `served` is an answer between the provider
and the process; it is what the provider published when it was asked. The fetch
stores whatever arrives and restarts the clock, however old it is. `gone`
and `steady` are history variables the properties speak about.

**RequestPipeline.** `pc[r]` is where request `r` stands: *new*; *appGuards* and
*routeGuards*, the same two guards registered globally and on the controllers,
each of which verifies the token anew; *handling*; for a create also *inserting*
and *committing* inside the transaction and *auditing* after it; *done*. The
middleware verifies synchronously and by its own rules (`MiddlewareVerifies`: only
`jwt.secret`, no issuer, no audience, no clock skew), the guards by `verifyToken`
(`Verifies`, with a shared secret for HS256 and the JWKS otherwise). `context` is
the tenant in the request's AsyncLocalStorage, `setting[c]` is
`app.current_tenant_id` of the pooled connection `c`. A token is what the checks
tell apart: algorithm, key, genuine signature, issuer and audience right
(`claims`), age, tenant claim, scopes. `Sanitize` is a table from claims to tenant
ids, lower case and without foreign characters; two claims may be one tenant.
Of a request's URL and body the model keeps the route, the id and external id, and
two bits the code's branches turn on: `health`, whether the URL contains "health"
anywhere, query string included, for then the middleware lets a refused token go on as
one of tenant `public` (`Claim`, `WavedThrough`); and `fits`, whether an id is a UUID
and the strings are no longer than their columns, which nothing checks before the
database does.

**LocalStack.** `bpc[b]` and `dpc[d]` name the call a script is about to make.
Each call succeeds, fails, or takes effect and loses its answer; a failing
call of the bootstrap ends it, a failing check of the doctor skips to the next
function (`SkipTo`) and is remembered in `ok`. A file is *torn* between the opening
and the end of its write, and stays so if the writer dies. `made` and `up`
separate an instance that exists from one whose port is open. The consumer is
the queue side of `InboxConsumer` without its database: receive, delete, fail,
time out. A receive, the doctor's or the consumer's, may lose its answer too;
`unseen` counts those of an event. What AWS and the emulator do is external code,
modelled as the scripts rely on it: creating a resource that exists is the error the
scripts catch, and the visibility timeout and dead-lettering of SQS are as in
`InboxConsumer`.

### Environments

Faults are not constants but a variable chosen once in `Init` from
`FaultProfiles` (relay), `Scenarios` (consumer) or `Environments` (requests and
local stack): a set of kinds of fault that may occur together. One run covers
several environments, and a property that holds only under some faults names
them as its hypothesis.

One kind is no fault but a property of the database role, `policies`: the migration
forces row-level security on `outbox_events` and `inbox_messages` as well, and the
worker sets a tenant for neither. Under a role subject to the policies the relay claims
no row and the consumer deletes every message unhandled. The safety properties of the
relay hold there as well, and `PoliciesBindRelay` is about nothing else; `Settles`,
`EndToEnd`, `LossNeedsReservationRace` and `PublishedNotLost` assume a role that is
exempt.

For `RequestPipeline` an environment is a deployment as well. `secret` is what
`jwt.secret` holds, a shared secret or one public key of the provider. `injected`
says whether the row-level security subscriber was given a `TenantContext`:
TypeORM builds subscribers with its own container, which gives it none unless
told otherwise. `enforced` says whether the database role is subject to the
policies; superusers and, without `FORCE`, owners are not. Neither follows from the
repository alone, so both values are explored.

## 3. Runs

| run | instance | checks |
|---|---|---|
| `relay_safety` | 3 events, 2 workers, batch 2, 2 attempts, every fault, 1 crash or shutdown; a role exempt from the policies, one subject to them | `TypeOK`, `ClaimExclusive`, `SendsAccounted`, `PoliciesBindRelay`, `OrphansStay`, refinement of `OutboxContract` |
| `relay_live` | the same with jitter, only SQS fails; both roles | `ClaimsAreHeld`, `Settles` |
| `relay_crash` | 1 worker, 1 event, 1 crash | `DeliveredAtLeastOnce` is violated |
| `inbox_safety` | 2 consumers, 2 messages, 2 receives, ten environments | `TypeOK`, `AuditsPerReceipt`, `LossNeedsReservationRace`, `ShutdownRepeatsNothing` |
| `inbox_duplicates` | no fault at all | `DuplicatesIgnored` is violated |
| `inbox_reserve_error` | a failing reservation query | `EventNotLost` is violated |
| `delivery_safety` | 2 workers, 2 consumers, 1 event, 2 attempts and receives, five environments | `AuditedOnce`, `PublishedNotLost` |
| `delivery_live` | 1 worker, 1 consumer, two environments | `EndToEnd`, `QueueDrains` |
| `advice` | 2 requests for 1 match, 1 connection, 2 tries, three environments | `TypeOK`, `TracesFollowCommit`, `OneAdvicePerRequest`, `EveryRequestAnswered` |
| `requests` | 2 requests, 11 tokens, 15 things to ask for, 3 tenants, 2 keys, 1 connection, nine deployments | `TypeOK`, `PublishedKeyFound`, `WithdrawnKeysExpire`, `OwnRowsOnly`, `StoredRowFound`, `AnswersTruthful`, `ServerErrorsExplained`, `PoolForgetsTenant`, `EntitledOnly`, `EveryRequestAnswered` |
| `oidc_tokens` | 1 request, no fault, the shared secret of the configuration | `ProviderTokenAccepted` is violated |
| `local_stack` | 2 bootstraps, 2 doctors, 1 event, ten environments | `TypeOK`, `CompletedMeansProvisioned`, `BootstrapsRepeat`, `EventsSurviveDoctor`, `CheckFailuresExplained` |

Run one with `tlc -config <run>.cfg <module>.tla`, the module being the one
`PROJECT.json` names. Every property of a passing run has a seeded fault in the
modules (the operators marked *Seeded fault*): with it in place of the
definition it imitates, the run fails.

### The bounds, and why they are enough

- **Two workers, two consumers.** Interference between processes is pairwise:
  over one row, one message, one inbox key. The theorems of section 5 confirm it
  for the relay with any number of workers.
- **Three events, batch of two.** The smallest instance in which a batch leaves
  a row behind and `ORDER BY created_at` matters against the order of commits.
- **Two attempts** instead of five: one retry and one final failure.
- **Waiting in ticks.** `MaxDelay` is small; a backoff reaches its cap on the
  second attempt, and jitter makes two rows due at different times.
- **Two receives** instead of five before the dead-letter queue: a message is
  redelivered once and then dead-lettered.
- **One crash or shutdown** per run. A second one starts from a state the first
  one already reached, except that two processes may be down; neither reads what
  the other was doing.
- **Two messages of one event** or one beside a message the consumer discards:
  duplicates and a poisoned batch. Two events never share an inbox key.
- **One connection, two requests.** The pool is at its limit as soon as one
  request holds a connection, so one leak is a deadlock.
- **Two versions of a match.** One transition between the read and the commit is
  the only change a request can meet; it reads the match once.
- **Two requests, one connection, two keys of which one has a certificate.**
  Requests meet in the context, the key cache, the connection and the unique index,
  each time two at once. With one connection the second always follows the first
  on it, the case `PoolForgetsTenant` is about. Cache period and fetch latency
  are one tick each: a fetch begun before a rotation can end after it, and its
  answer can expire. The theorems of section 5 hold without these bounds.
- **The first deployment takes every pair of tokens and asks**; the
  others take the tokens and asks their difference bears on (creates and reads for
  row-level security and failing queries, provider tokens for the key cache, tokens
  only the guards accept for URLs that contain "health").
- **Two bootstraps, two doctors, one event.** A script meets what one other
  left half done or does at the same time; a third meets the same leftovers. Two tries of the
  health check (30 in the script), two receives, one reset. A doctor's message can
  be taken by the other doctor or the consumer, and the event by either doctor or both.

### Deadlock

`CHECK_DEADLOCK FALSE` everywhere: all these systems come to rest once every
event is settled, every message has left the queue, or the bound on crashes or
versions is used up.

## 4. Fairness

- *A process that runs goes on.* Timers fire, promise continuations are run and
  network calls end, with a result or an error: weak fairness of `Relay(w)`,
  `Receive(c)`, `Work(c)`, `Handle(r)`. Which of the two ends is left open, so
  liveness holds although any call may fail every time it is made within the
  bound of attempts or receives.
- *Time passes*: `Tick`, `Expire`.
- *Down processes come back* (`Exit`, `Restart`): the deployment restarts them.
- *The database lets a worker claim again and again if it keeps asking* (strong
  fairness of `ClaimBatch(w)`). Weak fairness is too little: the other worker may
  lock the row each time, so the claim is not continuously possible.
- *The pool serves its queue in turn* (strong fairness of `Connect(r)`).
- *SQS moves a message that was received too often to the dead-letter queue.*

`EndToEnd` and `QueueDrains` are checked with one worker and one consumer only. More
consumers share the receives of a message, which bound how often it comes back.

No fairness is assumed of faults, of clients, or of a failing `connect`: a
request facing an empty pool just waits, otherwise a leaked connection would
show as an error and not as a request that hangs.

`RequestPipeline` needs weak fairness of `Handle(r)` and of the fetches only.
Every request is sent once, so whoever holds the connection or an index entry
gives it up for good, and a request that waits for it is enabled from then on.
`DatabaseFails` is left out of `Handle` for the reason above. Time (`Tick`) and
rotation are not fair; no request waits for them. `LocalStack` has no liveness
property: the scripts bound their own waits, and nobody restarts them.

## 5. What is proved

`OutboxRelayProofs`, for any set of events and workers, any batch size, attempt
limit, backoff and mixture of faults. Assumed is `ConstantsAssumption` of
`OutboxRelay`, which TLC evaluates in every run of the relay.

| theorem | statement |
|---|---|
| `TypeCorrectness` | `Spec => []TypeOK`; no event is sent more than `MaxAttempts` times |
| `Exclusiveness` | `Spec => []ClaimExclusive` |
| `SendAccounting` | `Spec => []SendsAccounted` |
| `PoliciesStopRelay` | `Spec => []PoliciesBindRelay` |
| `OrphansAreStuck` | `Spec => OrphansStay` |
| `QueueFaultsStrandNothing` | `Spec => []ClaimsAreHeld` |
| `RelayImplementsContract` | `Spec => ContractSpec` |
| `CrashesSendOnce` | while SQS answers and the database works, `sent[e] <= 1` for every event |

The inductive invariant is `IInv`. None of the three safety properties is
inductive alone. `ClaimExclusive` needs to know that whoever holds a row in a
claim transaction holds a PENDING one and whoever relays it a CLAIMED one
(`HeldInv`), so that a due row has no holder. `SendsAccounted` needs that the
attempt count a worker copied at its claim is still the row's (`HeldInv`), which
in turn needs exclusiveness: nobody else wrote it. `TypeOK` bounds `sent` by
`MaxAttempts`, which needs `SendsAccounted` and that only a FAILED row has used
all its attempts (`AttemptsInv`). `StageInv` ties a worker's stage to what it
holds. One lemma per action shows each conjunct preserved.

`PoliciesStopRelay` has an invariant of its own, `BoundInv`: every worker is idle or
down. `QuietInv` adds, for the environments in which only SQS fails, that claimed rows
have a holder; it rests on the environment being fixed. The refinement maps
PENDING and CLAIMED to *queued*; each action of the relay is a send, a
confirmation, a retraction (the update to PUBLISHED took effect but its answer
was lost, and the catch block put the row back), a surrender or a stutter.
`CrashesSendOnce` adds `OnceSent`: a row whose message is out is held, if at all, by
a worker about to mark it, so nobody can send it again. It bounds what
at-least-once can mean here: only a lost answer or a failing update repeats
a message, a crash never does (it strands the row instead).

`AdvicePolicyProofs`, for every input in whole hundredths and every rounding:
the expected-value gate decides only at odds of 1.66
and less (`ValueGateNeedsShortOdds`), because a 3% edge at longer odds is already
a 5% value; a recommended bet is worth 5% and no mere long shot
(`RecommendationPays`); and better data keep a recommendation
(`BetterDataKeepsRecommendation`) *provided* rounding treats equal values alike.
Without the proviso that is not true of the code: two ranges of 0.15 pass or fail
by their end points.

`JwksCacheProofs`, for any number of lookups and keys, any cache period and
latency, assuming `JwksAssumption` (certified keys are keys, a fetch may take a
tick), which TLC evaluates in the runs of `RequestPipeline`:

| theorem | statement |
|---|---|
| `TypeCorrectness` | `JwksSpec => []JwksTypeOK` |
| `PublishedKeysAreFound` | `JwksSpec => []PublishedKeyFound` |
| `WithdrawnKeysAreRefused` | `JwksSpec => WithdrawnKeysExpire` |

The inductive invariant is `JwksInv`. `SteadyInv` says that an answer on its
way to a lookup holds the key the lookup wants if that key was
published throughout: the provider was asked after the lookup began. So a lookup
depends on its own answer only, never on what others put into the cache. `AgeInv`
bounds how long ago a key in an answer, or in the cache, can have been withdrawn: no
longer than the fetch has taken, or the age of the cache plus one fetch. That is
why a late answer adds the latency and no more, although it restarts the clock.
`MaxLatency` is an assumption about the network: the code gives its `fetch` no timeout.

`RequestPipelineProofs`, for any requests, tokens, tenants, connections, rows and
deployments. Assumed is `PipelineAssumption`: a token signed by the provider
names a key id, deployments see the tokens and questions there are, no row
is older than the request that makes it, and no tenant id is made of an empty
claim. TLC evaluates it in both runs of the pipeline.

| theorem | statement |
|---|---|
| `PipelineUsesCache` | `Spec => JwksSpec`; with it `PipelineFindsKeys` and `PipelineRefusesOldKeys` |
| `PipelineTypes` | `Spec => []TypeOK` |
| `TenantsApart` | `Spec => []OwnRowsOnly` |
| `RowsAreFound` | `Spec => []StoredRowFound` |
| `AnswersAreTrue` | `Spec => []AnswersTruthful` |
| `ErrorsHaveReasons` | `Spec => []ServerErrorsExplained` |
| `PoolIsClean` | `Spec => []PoolForgetsTenant` |
| `OnlyTheEntitledPass` | `Spec => []EntitledOnly` |

The refinement comes first: every step is one of `JwksNext` or leaves the cache
alone, for which only the types of tokens are needed, and its invariant `JwksInv` is
used in what follows. The inductive invariant is `PipelineInv`. `LookupInv` says that
only a request in a guard waits for a key, so no late answer acts on a request that
has moved on. `RequestInv` says what each stage stands for: past the middleware the
context is the tenant of the token, or `public` if the request was waved through
(`WavedThrough`), although the middleware verified by other rules than the guards; past the first guards the token is entitled. `PoolInv` says a
transaction has a connection of its own, on which its own tenant is set, and that
nothing is set elsewhere; so the policies refuse an insert only for the reasons
`ErrorsHaveReasons` names. `RowsInv` ties a row to the stage of the request that made it:
it is there from the commit on and not before. `AnswerInv` joins what is claimed of
answers, which rests on the four before.
A lemma for each group of actions shows them preserved, and `OthersKept`
and `OthersAnswer` that a request's step leaves the others' parts alone.

`InboxConsumerProofs`, for any consumers, messages, batch size, receive limit and
scenarios. Assumed are `ConstantsAssumption` and `CopiesAgree` of `InboxConsumer`,
which TLC evaluates in the three runs of the consumer. `CopiesAgree` says that
two messages of one key that are handled at all have the same type: the relay takes
`eventId` and `type` from one outbox row (`outbox-relay.service.ts:135-137`).
Without it `LossNeedsReservationRace` would be false, for a message of a type
nobody audits could write the inbox row of an advice.

| theorem | statement |
|---|---|
| `TypeCorrect` | `Spec => []TypeOK` |
| `ReceiptsPayForAudits` | `Spec => []AuditsPerReceipt` |
| `OneConsumerHolds` | without visibility timeouts a message is in one batch at most |
| `OrderlyShutdown` | `Spec => []ShutdownRepeatsNothing` |
| `LossesExplained` | `Spec => []LossNeedsReservationRace` |

`Types` and `Held` (what each stage of a poll loop has in its batch, at work and as
receipt handles) are inductive together. `AuditsPerReceipt` is not: a
consumer may already hold the receipt it will audit by. `AllAccounted` counts these
consumers too (`Owing`): audit entries of a message and consumers that may still write
one for their receipt never exceed its receives. `TypeOK` bounds audits by the redrive
limit and so needs it.
`OneHolder` (no timeouts: whoever holds a message holds it alone and it is in
flight) gives `ShutdownRepeatsNothing` through `AuditedAndGone`. The loss theorem
has two arguments, one for each way it can be met. Without timeouts, `BackedInv`: a
deleted message, or an inbox row, of an unaudited event has a message behind it that
nobody is deleting; a duplicate is only found by an INSERT, and one
holder cannot race with itself. With timeouts, but neither crashes nor failing
handlers, `WorkedInv`: whoever wrote the row is at work and will audit. Neither
holds in the other's case, and with timeouts *and* failing handlers the event is
lost, as section 6 says.

`EventDeliveryProofs`, for any events, workers, consumers, limits and faults. Assumed
is `ConstantsAssumption` of `EventDelivery`, the assumptions of its two components,
evaluated in both delivery runs; `CopiesAgree` is not assumed but
derived, since every message of the composition is an advice.

| theorem | statement |
|---|---|
| `ImplementsRelay` | `Spec => Relay!Spec` |
| `ImplementsConsumer` | `Spec => Inbox!Spec` |
| `ConfirmationsAreTrue` | `Spec => []PublishedNotLost` |
| `AuditsAreUnique` | `Spec => []AuditedOnce` |

The first is a matter of form. The second is not: the composition sends the message
numbered `sent'[e]`, and that it is a message of the consumer's specification
takes the relay's invariant that no event is sent more than `MaxAttempts` times.
With both, the invariants of the components' proof modules hold of the
composition. `QueueInv` joins them: message `<<e, k>>` has been put on the queue exactly when
`k <= sent[e]`, and what was not sent was not received. `PublishedNotLost` follows
from it, `SendsAccounted` (a PUBLISHED row was sent) and the consumer's
loss theorem; `AuditedOnce` from `CrashesSendOnce` (one message) and
`OrderlyShutdown` (one entry for it).

`AdviceGenerationProofs`, for any requests, matches, connections, tries, versions
and faults. Assumed is `ConstantsAssumption` of `AdviceGeneration`, evaluated in
its run.

| theorem | statement |
|---|---|
| `TypeCorrect` | `Spec => []TypeOK` |
| `NoConnectionLeaks` | free connections and open transactions add up to `PoolSize` |
| `TracesNeverRunAhead` | `Spec => []TracesFollowCommit` |
| `NoDuplicateAdvice` | `Spec => []OneAdvicePerRequest` |

`PoolBalanced` counts transactions by the cardinality of their set; the bounds of
`free` in `TypeOK` rest on it. `TracesOrdered` and `LastTryStored` add where a
request stands when its last try has stored something: past the commit
or answered *created*.

`LocalStackProofs`, for any bootstraps, doctors, events, limits and environments.
Assumed is `LocalStackAssumption`: limits are natural numbers, events, doctors and the
marker of an empty receive are different things, and the doctors are finitely many.

| theorem | statement |
|---|---|
| `TypeCorrect` | `Spec => []TypeOK` |
| `DoctorCostsNoEvent` | `Spec => []EventsSurviveDoctor` |
| `BootstrapIsRepeatable` | `Spec => []BootstrapsRepeat` |
| `CompletionIsTrue` | `Spec => []CompletedMeansProvisioned` |
| `DoctorIsTruthful` | `Spec => []CheckFailuresExplained` |

`MessageInv` counts receives: those of an event are the consumer's attempts, the
doctors that took it and the receives whose answer was lost (`Counted`), and a doctor deletes its own message only
(`OwnMessage`). `MadeInv` says what a bootstrap's stage stands for: everything made
before it is there, unless the emulator was reset since. A creation that finds the
resource made by another is no failure (`FailInv`), which makes bootstrapping
repeatable. `FileInv` says who may leave a file torn: the generated one
somebody writing or dead, the copy nobody when bootstraps neither overlap nor die
(`Alone`: without overlap at most one script is at work). `GroundInv` follows
one doctor after another over a provisioned stack: the queue is free of
others' messages whenever one starts (`QuietQueue`), so what it receives is its own.
`GroundHasUrl` shows that on such a stack the generated file is whole, by `MadeInv`
and `FileInv`. `ReadyInv` is the counterpart of `GroundInv` for readiness.

**Only model-checked**: liveness, that is `Settles`, `EndToEnd`, `QueueDrains` and the
two properties `EveryRequestAnswered`. They rest on fairness, thus on ENABLED, which is
beyond the prover. Every safety property of a passing run is a theorem.
The properties of the four runs that are expected to fail are false of the code and
stay with TLC, which shows how. The modules define nothing by recursion, so
no theorem is missing for want of induction over data.

## 6. Where code and documents differ

1. **A claim is never taken back** (`relay_crash`). The query takes PENDING rows
   only and `lease_until` is written and never read. A worker that dies, is
   stopped, or loses the answer of its claim's commit leaves its rows CLAIMED and
   their events unsent, against the at-least-once promise of ADR-006. The theorem
   `OrphansAreStuck` says the same of every instance.
2. **Duplicates are handled twice** (`inbox_duplicates`). `save` of an existing
   key is an update and no error, so the reservation only stops two consumers
   that insert at the same moment. README section 8 says duplicates are ignored.
3. **A failing reservation deletes the message** (`inbox_reserve_error`). Every
   error is taken for a duplicate, a lost connection included.
4. **Tokens of the OIDC provider are refused** (`oidc_tokens`). The tenant
   middleware verifies every token with `jwt.secret` and never asks the JWKS, so a
   token the guards would accept is answered 401 before they see it. README
   section 4 says the tenant comes from claims verified against the OIDC JWKS,
   ADR-003 that the provider's tokens are validated on every request.
   The deployments in which `jwt.secret` is a public key of the provider
   let its tokens in until the provider signs with another key. And on a URL that
   contains "health" the middleware lets every token go on, as one of tenant `public`.

ADR-007 demands an ABSTAINED decision when no provider is configured; the handler
passes `hasProvider: true` and built-in odds (`generate-advice.handler.ts:71`). A
constant of the code has no behaviours to explore, so this has no run.

Behaviour the models contain that no document contradicts outright, but that is
worth knowing:

- The catch block of `relayEvent` may itself fail; the error leaves the loop and
  the rest of the batch stays CLAIMED.
- A message that is not JSON throws out of the loop over its batch; the other
  messages wait for their visibility timeout. They are not lost, and the bad one
  ends in the dead-letter queue.
- A message that times out while it is handled, is deleted as a duplicate by a
  second consumer, and whose handler then fails, is lost.
  `LossNeedsReservationRace` says that nothing less loses an event.
- A failing read of the match is answered as *not found*.
- An audit entry that fails after the advice committed makes the client see an
  error; its next try makes a second advice and a second event.
  `OneAdvicePerRequest` says when this cannot happen.
- Under a role subject to the tenant policies nothing is ever delivered: the relay
  finds no row (`PoliciesBindRelay`, without an error that could be logged) and the
  consumer takes every refused reservation for a duplicate and deletes the message.
  README section 4 says every transaction sets `app.current_tenant_id`; those of the
  worker's relay and reservation do not.

About requests:

- A key the provider publishes without `x5c`, as Cognito does, is never usable:
  `formatPublicKey` needs a certificate (`Certified`).
- An unreachable provider ends in 401, not in 503: the guard takes every error for
  a bad token. An unreachable database may end in 500, because the filter knows an
  error of the database by its message.
- A token within the clock skew passes the guards and fails at the middleware, unless
  the URL contains "health", in its query string for instance: then the guards let it
  pass and it acts in tenant `public`. README section 4 says "default fallbacks are
  strictly blocked". `OwnRowsOnly` and `StoredRowFound` say exactly what this costs: such
  a request stores and sees rows of `public`, misses its own tenant's, and reaches
  no third tenant's.
- An id that is no UUID, and a string over 255 characters, are answered 503: only the
  database looks at them.
- README section 4 says every transaction sets `app.current_tenant_id`. That takes
  a subscriber with a context; without it, a role subject to the policies can store
  nothing (`ServerErrorsExplained`). Reads run outside transactions, so such a role
  finds nothing either way (`StoredRowFound`). For a role that is not, the `where`
  clauses alone keep tenants apart, and they do (`OwnRowsOnly`).
- A tenant called `public` is no tenant to the subscriber, so under row-level
  security it cannot store anything either.
- `external_id` is unique over all tenants: a tenant's create can fail with a
  server error because of a row it cannot see.

About the local stack:

- `.env` is copied once. If the bootstrap dies while copying, no later one
  repairs it. The doctor reads `.env.local.generated`, the API `.env`, so the doctor
  may pass while the API starts with half a file.
- The doctor's check of the queue takes whatever message it is given. It puts
  another's message back by not deleting it, which costs that message one of its
  receives; near the limit the event is dead-lettered without another try
  by the worker. It never deletes one (`EventsSurviveDoctor`).
- With the worker running, the doctor may fail because the worker took its message.
- Readiness asks for neither the dead-letter queue nor the block on public
  access; README section 9 speaks of RDS tables, which the bootstrap does not create.

## 7. What is not modelled

- **Coupon risk model**: a pure count of limits; `CouponDraft.create` has no caller
  outside the tests.
- **Redis `remember`**, `set`, `delete`: no caller; the health check's ping is in
  `LocalStack`.
- **`publishBatch`**: no caller.
- **`beforeUpdate`, `beforeRemove` of the subscriber**: no code updates or removes a
  tenant's row through its entity.
- **`findByMatchId`** is a read like `List` with another filter.
- **`generateAccessToken`, `generateRefreshToken`**: signing calls without state or caller.
- **No-vig computation**: floating-point arithmetic without decisions.
- **S3 adapter, correlation interceptor, configuration, wiring, other migrations**:
  single calls, declarations or formatting, without an order that could go wrong.

## 8. Plan

Built so far, in this order: the outbox contract and relay with their proofs, the
consumer, their composition, the advice policy with its proofs, matches, advice
generation, the key cache and the request pipeline with their proofs, the local
stack, and then the proofs of advice generation, of the consumer, of the
composition and of the local stack.

What is left:

- **An abstract specification of delivery**: that relay, queue and consumers together
  implement a contract from commit to audit entry. Safety is proved piecewise
  by `ConfirmationsAreTrue` and `AuditsAreUnique`; a refinement would say it in one.
- **Coupon risk**, `CouponDraft.create`, and **Redis `remember`**, once something calls them.
