---------------------------- MODULE JwksCacheProofs ----------------------------
(***************************************************************************)
(* Theorems about JwksCache, for any requests, keys, cache period and      *)
(* duration of a fetch.                                                    *)
(***************************************************************************)
EXTENDS JwksCache, TLAPS

(* How old a key can be, wherever it is: an answer on its way was given     *)
(* after its fetch began, and the cache was filled by such an answer.       *)
AgeInv ==
    /\ \A k \in published : gone[k] = 0
    /\ \A l \in Requests : served[l] # {} => stage[l] \in Fetching
    /\ \A l \in Requests : \A k \in served[l] : gone[k] <= fetchAge[l]
    /\ \A k \in keys : gone[k] <= keysAge + MaxLatency

(* A lookup whose key was published all along gets it in any answer.        *)
SteadyInv ==
    \A l \in steady :
        /\ stage[l] \notin {"none", "missing"}
        /\ wanted[l] \in published
        /\ served[l] # {} => wanted[l] \in served[l]

JwksInv == JwksTypeOK /\ AgeInv /\ SteadyInv

USE DEF Fetching, Outcomes, Stages, GoneCap

LEMMA InitInv == JwksInit => JwksInv
<1> SUFFICES ASSUME JwksInit PROVE JwksInv
  OBVIOUS
<1>1. CacheDuration \in Nat /\ MaxLatency \in Nat \ {0} /\ NoKey \notin Kids
  BY JwksAssumption
<1>2. JwksTypeOK
  BY <1>1 DEF JwksInit, JwksTypeOK
<1>3. AgeInv
  BY <1>1 DEF JwksInit, AgeInv
<1>4. SteadyInv
  BY DEF JwksInit, SteadyInv
<1> QED
  BY <1>2, <1>3, <1>4 DEF JwksInv

LEMMA PublishInv == JwksInv /\ Publish => JwksInv'
<1> SUFFICES ASSUME JwksInv, Publish PROVE JwksInv'
  OBVIOUS
<1>1. CacheDuration \in Nat /\ MaxLatency \in Nat \ {0}
  BY JwksAssumption
<1>2. JwksTypeOK'
  BY <1>1 DEF JwksInv, JwksTypeOK, Publish
<1>3. AgeInv'
  BY <1>1 DEF JwksInv, JwksTypeOK, AgeInv, Publish
<1>4. SteadyInv'
  BY DEF JwksInv, JwksTypeOK, SteadyInv, Publish
<1> QED
  BY <1>2, <1>3, <1>4 DEF JwksInv

LEMMA ServeInv == \A l \in Requests : JwksInv /\ Serve(l) => JwksInv'
<1> SUFFICES ASSUME NEW l \in Requests, JwksInv, Serve(l) PROVE JwksInv'
  OBVIOUS
<1>2. JwksTypeOK'
  BY DEF JwksInv, JwksTypeOK, Serve
<1>3. AgeInv'
  BY DEF JwksInv, JwksTypeOK, AgeInv, Serve
<1>4. SteadyInv'
  BY DEF JwksInv, JwksTypeOK, SteadyInv, Serve
<1> QED
  BY <1>2, <1>3, <1>4 DEF JwksInv

LEMMA TickInv == JwksInv /\ Tick => JwksInv'
<1> SUFFICES ASSUME JwksInv, Tick PROVE JwksInv'
  OBVIOUS
<1>1. CacheDuration \in Nat /\ MaxLatency \in Nat \ {0}
  BY JwksAssumption
<1>2. JwksTypeOK'
  <2>1. gone' \in [Kids -> 0..GoneCap]
    BY <1>1 DEF JwksInv, JwksTypeOK, Tick, Later
  <2>2. keysAge' \in 0..(CacheDuration + 1)
    BY <1>1 DEF JwksInv, JwksTypeOK, Tick, Later
  <2>3. fetchAge' \in [Requests -> 0..MaxLatency]
    BY <1>1 DEF JwksInv, JwksTypeOK, Tick
  <2> QED
    BY <2>1, <2>2, <2>3 DEF JwksInv, JwksTypeOK, Tick
<1>3. AgeInv'
  <2>1. \A k \in published' : gone'[k] = 0
    BY DEF JwksInv, JwksTypeOK, AgeInv, Tick
  <2>2. \A l \in Requests : \A k \in served'[l] : gone'[k] <= fetchAge'[l]
    <3> SUFFICES ASSUME NEW l \in Requests, NEW k \in served[l]
                 PROVE  gone'[k] <= fetchAge'[l]
      BY DEF Tick
    <3>1. stage[l] \in Fetching /\ gone[k] <= fetchAge[l] /\ k \in Kids
      BY DEF JwksInv, JwksTypeOK, AgeInv
    <3>2. gone'[k] <= gone[k] + 1
      BY <1>1, <3>1 DEF JwksInv, JwksTypeOK, Tick, Later
    <3>3. fetchAge'[l] = fetchAge[l] + 1
      BY <3>1 DEF Tick
    <3> QED
      BY <1>1, <1>2, <3>1, <3>2, <3>3 DEF JwksInv, JwksTypeOK
  <2>3. \A k \in keys' : gone'[k] <= keysAge' + MaxLatency
    <3> SUFFICES ASSUME NEW k \in keys PROVE gone'[k] <= keysAge' + MaxLatency
      BY DEF Tick
    <3>1. k \in Kids /\ gone[k] <= keysAge + MaxLatency
      BY DEF JwksInv, JwksTypeOK, AgeInv
    <3>2. keysAge' = Later(keysAge, CacheDuration + 1)
      BY DEF Tick
    <3>3. gone'[k] = 0 \/ gone'[k] = Later(gone[k], GoneCap)
      BY <3>1 DEF Tick
    <3> QED
      BY <1>1, <3>1, <3>2, <3>3 DEF JwksInv, JwksTypeOK, Later
  <2> QED
    BY <2>1, <2>2, <2>3 DEF JwksInv, AgeInv, Tick
<1>4. SteadyInv'
  BY DEF JwksInv, JwksTypeOK, SteadyInv, Tick
<1> QED
  BY <1>2, <1>3, <1>4 DEF JwksInv

LEMMA GetSigningKeyInv ==
    \A l \in Requests, kid \in Kids : JwksInv /\ GetSigningKey(l, kid) => JwksInv'
<1> SUFFICES ASSUME NEW l \in Requests, NEW kid \in Kids, JwksInv, GetSigningKey(l, kid)
             PROVE  JwksInv'
  OBVIOUS
<1>1. stage' = [stage EXCEPT ![l] = stage'[l]]
      /\ stage'[l] \in {"refreshing", "retrying", "found", "uncertified"}
  BY DEF JwksInv, JwksTypeOK, GetSigningKey, Found
<1>2. JwksTypeOK'
  BY <1>1 DEF JwksInv, JwksTypeOK, GetSigningKey
<1>3. AgeInv'
  BY <1>1 DEF JwksInv, JwksTypeOK, AgeInv, GetSigningKey
<1>4. SteadyInv'
  BY <1>1 DEF JwksInv, JwksTypeOK, AgeInv, SteadyInv, GetSigningKey
<1> QED
  BY <1>2, <1>3, <1>4 DEF JwksInv

LEMMA StoreKeysInv == \A l \in Requests : JwksInv /\ StoreKeys(l) => JwksInv'
<1> SUFFICES ASSUME NEW l \in Requests, JwksInv, StoreKeys(l) PROVE JwksInv'
  OBVIOUS
<1>1. CacheDuration \in Nat /\ MaxLatency \in Nat \ {0}
  BY JwksAssumption
<1>2. /\ stage' = [stage EXCEPT ![l] = stage'[l]]
      /\ stage'[l] \in {"retrying", "found", "uncertified", "missing"}
      /\ wanted[l] \in served[l] => stage'[l] \in {"found", "uncertified"}
  BY DEF JwksInv, JwksTypeOK, StoreKeys, Found
<1>3. JwksTypeOK'
  BY <1>1, <1>2 DEF JwksInv, JwksTypeOK, StoreKeys
<1>4. AgeInv'
  <2>1. \A k \in served[l] : gone[k] <= MaxLatency
    BY <1>1 DEF JwksInv, JwksTypeOK, AgeInv
  <2>2. \A k \in keys' : gone'[k] <= keysAge' + MaxLatency
    BY <1>1, <2>1 DEF StoreKeys
  <2>3. \A m \in Requests : served'[m] # {} => m # l /\ served'[m] = served[m]
    BY DEF JwksInv, JwksTypeOK, StoreKeys
  <2> QED
    BY <1>2, <2>2, <2>3 DEF JwksInv, JwksTypeOK, AgeInv, StoreKeys
<1>5. SteadyInv'
  BY <1>2 DEF JwksInv, JwksTypeOK, SteadyInv, StoreKeys
<1> QED
  BY <1>3, <1>4, <1>5 DEF JwksInv

LEMMA FetchFailsInv == \A l \in Requests : JwksInv /\ FetchFails(l) => JwksInv'
<1> SUFFICES ASSUME NEW l \in Requests, JwksInv, FetchFails(l) PROVE JwksInv'
  OBVIOUS
<1>1. MaxLatency \in Nat
  BY JwksAssumption
<1>2. JwksTypeOK'
  BY <1>1 DEF JwksInv, JwksTypeOK, FetchFails
<1>3. AgeInv'
  BY <1>1 DEF JwksInv, JwksTypeOK, AgeInv, FetchFails
<1>4. SteadyInv'
  BY DEF JwksInv, JwksTypeOK, SteadyInv, FetchFails
<1> QED
  BY <1>2, <1>3, <1>4 DEF JwksInv

LEMMA LeaveInv == \A l \in Requests : JwksInv /\ Leave(l) => JwksInv'
<1> SUFFICES ASSUME NEW l \in Requests, JwksInv, Leave(l) PROVE JwksInv'
  OBVIOUS
<1>2. JwksTypeOK'
  BY DEF JwksInv, JwksTypeOK, Leave
<1>3. AgeInv'
  BY DEF JwksInv, JwksTypeOK, AgeInv, Leave
<1>4. SteadyInv'
  BY DEF JwksInv, JwksTypeOK, SteadyInv, Leave
<1> QED
  BY <1>2, <1>3, <1>4 DEF JwksInv

LEMMA StutterInv == JwksInv /\ UNCHANGED jwksVars => JwksInv'
BY DEF JwksInv, JwksTypeOK, AgeInv, SteadyInv, jwksVars

LEMMA NextInv == JwksInv /\ [JwksNext]_jwksVars => JwksInv'
BY PublishInv, ServeInv, TickInv, GetSigningKeyInv, StoreKeysInv, FetchFailsInv,
   LeaveInv, StutterInv
   DEF JwksNext

(* The invariant holds of the cache, whatever the provider does. *)
THEOREM Invariance == JwksSpec => []JwksInv
BY InitInv, NextInv, PTL DEF JwksSpec

(* Every variable keeps its type: ages stay under their caps and no fetch   *)
(* outlasts MaxLatency.                                                     *)
THEOREM TypeCorrectness == JwksSpec => []JwksTypeOK
<1>1. JwksInv => JwksTypeOK
  BY DEF JwksInv
<1> QED
  BY Invariance, <1>1, PTL

(* getSigningKey finds a key that is published throughout, through every    *)
(* interleaving of lookups whose answers overtake each other.               *)
THEOREM PublishedKeysAreFound == JwksSpec => []PublishedKeyFound
<1>1. JwksInv => PublishedKeyFound
  BY DEF JwksInv, SteadyInv, PublishedKeyFound
<1> QED
  BY Invariance, <1>1, PTL

(* getSigningKey returns no key withdrawn longer ago than the cache period  *)
(* and one fetch: an answer that arrives late restarts the period, but is   *)
(* itself no older than its fetch.                                          *)
THEOREM WithdrawnKeysAreRefused == JwksSpec => WithdrawnKeysExpire
<1> DEFINE Returned ==
      \A l \in Requests : stage[l] # "found" /\ stage'[l] = "found"
                            => gone[wanted'[l]] <= CacheDuration + MaxLatency
<1>1. JwksInv /\ [JwksNext]_jwksVars => [Returned]_jwksVars
  <2> SUFFICES ASSUME JwksInv, JwksNext,
                      NEW l \in Requests, stage[l] # "found", stage'[l] = "found"
               PROVE  gone[wanted'[l]] <= CacheDuration + MaxLatency
    OBVIOUS
  <2>1. CacheDuration \in Nat /\ MaxLatency \in Nat \ {0}
    BY JwksAssumption
  <2>2. CASE Publish \/ Tick
    BY <2>2 DEF Publish, Tick
  <2>3. ASSUME NEW m \in Requests, Serve(m) \/ FetchFails(m) \/ Leave(m) PROVE FALSE
    BY <2>3 DEF Serve, FetchFails, Leave, JwksInv, JwksTypeOK
  <2>4. ASSUME NEW m \in Requests, NEW kid \in Kids, GetSigningKey(m, kid)
        PROVE  gone[wanted'[l]] <= CacheDuration + MaxLatency
    <3>1. m = l /\ wanted'[l] = kid /\ kid \in keys /\ keysAge <= CacheDuration
      BY <2>4 DEF GetSigningKey, Fresh, JwksInv, JwksTypeOK
    <3>2. gone[kid] <= keysAge + MaxLatency
      BY <3>1 DEF JwksInv, AgeInv
    <3> QED
      BY <2>1, <3>1, <3>2 DEF JwksInv, JwksTypeOK
  <2>5. ASSUME NEW m \in Requests, StoreKeys(m)
        PROVE  gone[wanted'[l]] <= CacheDuration + MaxLatency
    <3>1. m = l /\ wanted'[l] = wanted[l] /\ wanted[l] \in served[l]
      BY <2>5 DEF StoreKeys, JwksInv, JwksTypeOK
    <3>2. gone[wanted[l]] <= fetchAge[l]
      BY <3>1 DEF JwksInv, AgeInv
    <3>3. gone[wanted[l]] \in Nat /\ fetchAge[l] \in 0..MaxLatency
      BY <3>1 DEF JwksInv, JwksTypeOK
    <3> QED
      BY <2>1, <3>1, <3>2, <3>3
  <2> QED
    BY <2>2, <2>3, <2>4, <2>5 DEF JwksNext
<1> QED
  BY Invariance, <1>1, PTL DEF JwksSpec, WithdrawnKeysExpire

===============================================================================
