------------------------------- MODULE JwksCache -------------------------------
(***************************************************************************)
(* JwtTokenService.getSigningKey and fetchJwks: the provider's signing     *)
(* keys, cached in one process.  A lookup that finds the cache empty or    *)
(* expired fetches, and one that does not find its key fetches again; no   *)
(* lookup waits for the fetch of another.  What the provider answers is    *)
(* what it published when it was asked, and answers may arrive in another  *)
(* order than they were given.  Storing an answer and searching it is one  *)
(* step: no other callback runs in between.                                *)
(*                                                                         *)
(* Time is told by ages, counted in ticks and no further than anything     *)
(* depends on them.                                                        *)
(***************************************************************************)
EXTENDS Integers

CONSTANTS Requests,       \* requests, each with at most one lookup at a time
          Kids,           \* key ids
          Certified,      \* keys published with a certificate chain (x5c)
          CacheDuration,  \* jwt.jwksCacheDuration
          MaxLatency,     \* bound on the duration of a fetch
          NoKey           \* not a key id

ASSUME JwksAssumption ==
    /\ Certified \subseteq Kids
    /\ NoKey \notin Kids
    /\ CacheDuration \in Nat
    /\ MaxLatency \in Nat \ {0}

VARIABLES published,  \* the keys the provider publishes
          gone,       \* gone[k]: ticks since k was withdrawn
          keys,       \* jwksKeys
          keysAge,    \* ticks since lastFetchTime
          stage,      \* stage[l]: where the lookup of request l stands, or how it ended
          wanted,     \* wanted[l]: the kid it looks for
          fetchAge,   \* fetchAge[l]: ticks since its fetch began
          served,     \* served[l]: the provider's answer on its way, {} before
          steady      \* lookups whose key was published all along (history)

jwksVars == <<published, gone, keys, keysAge, stage, wanted, fetchAge, served, steady>>

Fetching == {"refreshing", "retrying"}
Outcomes == {"found", "missing", "uncertified", "failed"}
Stages   == {"none"} \cup Fetching \cup Outcomes

GoneCap == CacheDuration + MaxLatency + 1

JwksInit ==
    /\ published \in (SUBSET Kids) \ {{}}
    /\ gone      = [k \in Kids |-> IF k \in published THEN 0 ELSE GoneCap]
    /\ keys      = {}
    /\ keysAge   = 0
    /\ stage     = [l \in Requests |-> "none"]
    /\ wanted    = [l \in Requests |-> NoKey]
    /\ fetchAge  = [l \in Requests |-> 0]
    /\ served    = [l \in Requests |-> {}]
    /\ steady    = {}

-------------------------------------------------------------------------------
(* The provider and the network *)

(* The provider changes the set of keys it publishes. *)
Publish ==
    /\ published' \in (SUBSET Kids) \ {{}, published}
    /\ gone'   = [k \in Kids |-> IF k \in published \cup published' THEN 0 ELSE gone[k]]
    /\ steady' = {l \in steady : wanted[l] \in published'}
    /\ UNCHANGED <<keys, keysAge, stage, wanted, fetchAge, served>>

Serve(l) ==
    /\ stage[l] \in Fetching /\ served[l] = {}
    /\ served' = [served EXCEPT ![l] = published]
    /\ UNCHANGED <<published, gone, keys, keysAge, stage, wanted, fetchAge, steady>>

Later(age, cap) == IF age < cap THEN age + 1 ELSE cap

(* Time passes, but no fetch takes longer than MaxLatency. *)
Tick ==
    /\ \A l \in Requests : stage[l] \in Fetching => fetchAge[l] < MaxLatency
    /\ gone'     = [k \in Kids |-> IF k \in published THEN 0 ELSE Later(gone[k], GoneCap)]
    /\ keysAge'  = IF keys = {} THEN 0 ELSE Later(keysAge, CacheDuration + 1)
    /\ fetchAge' = [l \in Requests |-> IF stage[l] \in Fetching THEN fetchAge[l] + 1 ELSE 0]
    /\ UNCHANGED <<published, keys, stage, wanted, served, steady>>

-------------------------------------------------------------------------------
(* The service *)

(* Seeded fault: keys are cached for good. *)
NeverStale == keys # {}

Fresh == keys # {} /\ keysAge <= CacheDuration

(* formatPublicKey needs a certificate. *)
Found(kid) == IF kid \in Certified THEN "found" ELSE "uncertified"

(* Seeded fault: a key missing from a fresh cache is not fetched. *)
GetSigningKeyOnce(l, kid) ==
    /\ stage[l] = "none"
    /\ wanted' = [wanted EXCEPT ![l] = kid]
    /\ steady' = IF kid \in published THEN steady \cup {l} ELSE steady
    /\ stage'  = [stage EXCEPT ![l] = IF ~Fresh THEN "refreshing"
                                      ELSE IF kid \in keys THEN Found(kid) ELSE "missing"]
    /\ UNCHANGED <<published, gone, keys, keysAge, fetchAge, served>>

(* getSigningKey up to its first await. *)
GetSigningKey(l, kid) ==
    /\ stage[l] = "none"
    /\ wanted' = [wanted EXCEPT ![l] = kid]
    /\ steady' = IF kid \in published THEN steady \cup {l} ELSE steady
    /\ stage'  = [stage EXCEPT ![l] = IF ~Fresh THEN "refreshing"
                                      ELSE IF kid \in keys THEN Found(kid) ELSE "retrying"]
    /\ UNCHANGED <<published, gone, keys, keysAge, fetchAge, served>>

(* The answer arrives and replaces the cache, however old it is; the lookup *)
(* goes on with what it contains.                                           *)
StoreKeys(l) ==
    /\ served[l] # {}
    /\ keys'     = served[l]
    /\ keysAge'  = 0
    /\ served'   = [served EXCEPT ![l] = {}]
    /\ fetchAge' = [fetchAge EXCEPT ![l] = 0]
    /\ stage'    = [stage EXCEPT ![l] = IF wanted[l] \in served[l] THEN Found(wanted[l])
                                        ELSE IF @ = "refreshing" THEN "retrying" ELSE "missing"]
    /\ UNCHANGED <<published, gone, wanted, steady>>

(* Seeded fault: a failing fetch is tried again without end. *)
FetchAgain(l) ==
    /\ stage[l] \in Fetching
    /\ served'   = [served EXCEPT ![l] = {}]
    /\ fetchAge' = [fetchAge EXCEPT ![l] = 0]
    /\ UNCHANGED <<published, gone, keys, keysAge, stage, wanted, steady>>

(* The provider cannot be reached, or answers with an error or something    *)
(* else than keys.  The cache stays, and is of no use to this lookup.       *)
FetchFails(l) ==
    /\ stage[l] \in Fetching
    /\ stage'    = [stage EXCEPT ![l] = "failed"]
    /\ served'   = [served EXCEPT ![l] = {}]
    /\ fetchAge' = [fetchAge EXCEPT ![l] = 0]
    /\ UNCHANGED <<published, gone, keys, keysAge, wanted, steady>>

(* The caller has the outcome. *)
Leave(l) ==
    /\ stage[l] \in Outcomes
    /\ stage'  = [stage EXCEPT ![l] = "none"]
    /\ wanted' = [wanted EXCEPT ![l] = NoKey]
    /\ steady' = steady \ {l}
    /\ UNCHANGED <<published, gone, keys, keysAge, fetchAge, served>>

-------------------------------------------------------------------------------
JwksNext ==
    \/ Publish \/ Tick
    \/ \E l \in Requests : \/ Serve(l) \/ StoreKeys(l) \/ FetchFails(l) \/ Leave(l)
                          \/ \E kid \in Kids : GetSigningKey(l, kid)

JwksSpec == JwksInit /\ [][JwksNext]_jwksVars

-------------------------------------------------------------------------------
(* Properties *)

(* Every variable keeps its type; ages stop at their caps. *)
JwksTypeOK ==
    /\ published \in (SUBSET Kids) \ {{}}
    /\ gone      \in [Kids -> 0..GoneCap]
    /\ keys      \subseteq Kids
    /\ keysAge   \in 0..(CacheDuration + 1)
    /\ stage     \in [Requests -> Stages]
    /\ wanted    \in [Requests -> Kids \cup {NoKey}]
    /\ fetchAge  \in [Requests -> 0..MaxLatency]
    /\ served    \in [Requests -> SUBSET Kids]
    /\ steady    \subseteq Requests

(* A key the provider published throughout a lookup is found, whatever      *)
(* older answers other lookups put into the cache meanwhile: only a fetch   *)
(* that fails, or a key without certificate, can make the lookup fail.      *)
PublishedKeyFound == \A l \in steady : stage[l] # "missing"

(* No lookup returns a key that was withdrawn more than CacheDuration and   *)
(* the duration of a fetch ago, although every answer restarts the clock of *)
(* the cache, the oldest ones included.                                     *)
WithdrawnKeysExpire ==
    [][\A l \in Requests : stage[l] # "found" /\ stage'[l] = "found"
                            => gone[wanted'[l]] <= CacheDuration + MaxLatency]_jwksVars

===============================================================================
