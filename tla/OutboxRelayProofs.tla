--------------------------- MODULE OutboxRelayProofs ---------------------------
(***************************************************************************)
(* Theorems about OutboxRelay for any number of events and workers, any    *)
(* batch size, attempt limit and backoff, and any mix of faults.           *)
(***************************************************************************)
EXTENDS OutboxRelay, TLAPS

(* What a worker's stage says of what it holds. *)
StageInv ==
    \A w \in Workers :
        /\ pc[w] \in {"idle", "down"} => held[w] = {}
        /\ pc[w] \in {"marking", "recording"} => \E e \in held[w] : current[w] = {e}
        /\ pc[w] \notin {"marking", "recording"} => current[w] = {}

(* What holding an event says of its row. *)
HeldRow(w, e) ==
    /\ pc[w] = "claiming" => status[e] = "PENDING"
    /\ pc[w] \in BatchStages =>
          /\ copy[w][e] = attempts[e]
          /\ status[e] = "CLAIMED" \/ (pc[w] = "recording" /\ e \in current[w] /\ status[e] = "PUBLISHED")
    /\ e \notin current[w] => sent[e] <= attempts[e]
    /\ pc[w] = "marking" /\ e \in current[w] => sent[e] > 0

HeldInv == \A w \in Workers : \A e \in held[w] : HeldRow(w, e)

(* A row is FAILED exactly when its attempts are used up. *)
AttemptsInv == \A e \in Events : status[e] = "FAILED" <=> attempts[e] = MaxAttempts

IInv == TypeOK /\ ClaimExclusive /\ SendsAccounted /\ StageInv /\ HeldInv /\ AttemptsInv

(* A backoff with its jitter stays below the cap plus the jitter. *)
LEMMA BackoffType ==
    ASSUME NEW n \in Nat, NEW j \in 0..Jitter
    PROVE  Backoff(n) + j \in 0..(MaxDelay + Jitter)
<1> DEFINE delay == BaseDelay * 2^n
<1>1. Backoff(n) \in 0..MaxDelay
  <2>1. CASE delay \in 0..MaxDelay
    BY <2>1 DEF Backoff
  <2>2. CASE delay \notin 0..MaxDelay
    BY <2>2, ConstantsAssumption DEF Backoff
  <2> QED BY <2>1, <2>2
<1> HIDE DEF delay
<1> QED BY <1>1, ConstantsAssumption

(* The claim query never returns a row another worker holds. *)
LEMMA LockedAreFree ==
    ASSUME IInv, NEW e \in Batch(Due)
    PROVE  /\ e \in Events
           /\ status[e] = "PENDING"
           /\ \A v \in Workers : e \notin held[v]
<1>1. e \in Events /\ status[e] = "PENDING" /\ e \notin Locked
  BY DEF Batch, Due, Pending, Seen
<1>2. ASSUME NEW v \in Workers, e \in held[v] PROVE FALSE
  <2>1. CASE pc[v] = "claiming"
    BY <1>1, <1>2, <2>1 DEF Locked
  <2>2. CASE pc[v] # "claiming"
    BY <1>1, <1>2, <2>2 DEF IInv, TypeOK, StageInv, HeldInv, HeldRow, Stages, BatchStages
  <2> QED BY <2>1, <2>2
<1> QED BY <1>1, <1>2

(* An attempt is left for every event that is not given up. *)
LEMMA AttemptLeft ==
    ASSUME NEW e \in Events, TypeOK, AttemptsInv, status[e] # "FAILED"
    PROVE  attempts[e] \in Nat /\ attempts[e] + 1 \in 0..MaxAttempts
<1>1. attempts[e] \in 0..MaxAttempts
  BY DEF TypeOK
<1>2. attempts[e] # MaxAttempts
  BY DEF AttemptsInv
<1>3. MaxAttempts \in Nat
  BY ConstantsAssumption
<1> QED BY <1>1, <1>2, <1>3

(* However the batch ends, finishing e only lets go of e. *)
LEMMA FinishFacts ==
    ASSUME NEW w \in Workers, NEW e \in Events, TypeOK, Finish(w, e)
    PROVE  /\ held' = [held EXCEPT ![w] = @ \ {e}]
           /\ current' = [current EXCEPT ![w] = {}]
           /\ pc' \in [Workers -> Stages]
           /\ pc'[w] \in {"idle", "relaying"}
           /\ pc'[w] = "idle" => held'[w] = {}
           /\ copy' \in [Workers -> [Events -> 0..MaxAttempts]]
           /\ \A v \in Workers \ {w} : pc'[v] = pc[v] /\ copy'[v] = copy[v]
           /\ \A d \in held'[w] : copy'[w][d] = copy[w][d]
<1>t. /\ held \in [Workers -> SUBSET Events]
      /\ pc \in [Workers -> Stages]
      /\ copy \in [Workers -> [Events -> 0..MaxAttempts]]
      /\ current \in [Workers -> SUBSET Events]
  BY DEF TypeOK
<1>z. 0 \in 0..MaxAttempts
  BY ConstantsAssumption
<1>1. CASE held[w] = {e}
  <2>1. EndCycle(w, "idle")
    BY <1>1 DEF Finish
  <2>2. held' = [held EXCEPT ![w] = @ \ {e}] /\ held'[w] = {}
    BY <1>t, <1>1, <2>1 DEF EndCycle
  <2>3. NoCopy \in [Events -> 0..MaxAttempts]
    BY <1>z DEF NoCopy
  <2> HIDE DEF NoCopy
  <2> QED BY <1>t, <2>1, <2>2, <2>3 DEF EndCycle, Stages
<1>2. CASE held[w] # {e}
  <2>1. /\ pc' = [pc EXCEPT ![w] = "relaying"]
        /\ held' = [held EXCEPT ![w] = @ \ {e}]
        /\ copy' = [copy EXCEPT ![w][e] = 0]
        /\ current' = [current EXCEPT ![w] = {}]
    BY <1>2 DEF Finish
  <2>2. pc' \in [Workers -> Stages] /\ pc'[w] = "relaying"
    BY <1>t, <2>1 DEF Stages
  <2>3. copy' \in [Workers -> [Events -> 0..MaxAttempts]]
    BY <1>t, <1>z, <2>1
  <2>4. \A v \in Workers \ {w} : pc'[v] = pc[v] /\ copy'[v] = copy[v]
    BY <1>t, <2>1
  <2>5. \A d \in held'[w] : copy'[w][d] = copy[w][d]
    BY <1>t, <2>1
  <2> QED BY <2>1, <2>2, <2>3, <2>4, <2>5
<1> QED BY <1>1, <1>2

(* What the entity in the catch block says of its row. *)
LEMMA RecordingRow ==
    ASSUME NEW w \in Workers, NEW e \in Events, IInv, pc[w] = "recording", e \in current[w]
    PROVE  /\ current[w] = {e}
           /\ e \in held[w]
           /\ status[e] \in {"CLAIMED", "PUBLISHED"}
           /\ copy[w][e] = attempts[e]
           /\ attempts[e] + 1 \in 0..MaxAttempts
           /\ sent[e] <= attempts[e] + 1
           /\ \A v \in Workers \ {w} : e \notin held[v]
<1>1. current[w] = {e} /\ e \in held[w]
  BY DEF IInv, StageInv
<1>2. HeldRow(w, e)
  BY <1>1 DEF IInv, HeldInv
<1>3. status[e] \in {"CLAIMED", "PUBLISHED"} /\ copy[w][e] = attempts[e]
  BY <1>2 DEF HeldRow, BatchStages
<1>4. attempts[e] + 1 \in 0..MaxAttempts
  BY <1>3, AttemptLeft DEF IInv
<1>5. sent[e] <= attempts[e] + 1
  BY DEF IInv, SendsAccounted
<1>6. \A v \in Workers \ {w} : e \notin held[v]
  BY <1>1 DEF IInv, ClaimExclusive
<1> QED BY <1>1, <1>3, <1>4, <1>5, <1>6

(* The failure update counts the attempt and reopens or gives up the row. *)
LEMMA WriteFailureFacts ==
    ASSUME NEW w \in Workers, NEW e \in Events, IInv,
           pc[w] = "recording", e \in current[w], WriteFailure(w, e)
    PROVE  /\ attempts' = [attempts EXCEPT ![e] = attempts[e] + 1]
           /\ status' = [status EXCEPT ![e] = OutcomeOf(attempts[e] + 1)]
           /\ wait' \in [Events -> 0..(MaxDelay + Jitter)]
<1>1. copy[w][e] + 1 = attempts[e] + 1 /\ attempts[e] + 1 \in Nat
  BY RecordingRow, ConstantsAssumption
<1>2. PICK j \in 0..Jitter :
          /\ attempts' = [attempts EXCEPT ![e] = attempts[e] + 1]
          /\ status'   = [status EXCEPT ![e] = OutcomeOf(attempts[e] + 1)]
          /\ wait'     = [wait EXCEPT ![e] = Backoff(attempts[e] + 1) + j]
  BY <1>1 DEF WriteFailure
<1>3. Backoff(attempts[e] + 1) + j \in 0..(MaxDelay + Jitter)
  BY <1>1, BackoffType
<1> QED BY <1>2, <1>3 DEF IInv, TypeOK

LEMMA CommitEventInv ==
    ASSUME NEW e \in Events, IInv, CommitEvent(e)
    PROVE  IInv'
<1> USE DEF IInv, CommitEvent, rowVars, workerVars, envVars
<1>1. TypeOK'
  BY ConstantsAssumption DEF TypeOK, StageInv, HeldInv, HeldRow, AttemptsInv, SendsAccounted, Statuses, Stages, BatchStages, NoCopy
<1>2. ClaimExclusive'
  BY DEF TypeOK, ClaimExclusive, StageInv, HeldInv, HeldRow, BatchStages, Stages
<1>3. SendsAccounted'
  BY ConstantsAssumption DEF TypeOK, SendsAccounted, StageInv, HeldInv, HeldRow, BatchStages
<1>4. StageInv'
  BY DEF TypeOK, StageInv, Stages
<1>5. HeldInv'
  BY ConstantsAssumption DEF TypeOK, ClaimExclusive, SendsAccounted, StageInv, HeldInv, HeldRow, AttemptsInv, BatchStages, Stages
<1>6. AttemptsInv'
  BY ConstantsAssumption DEF TypeOK, StageInv, HeldInv, HeldRow, AttemptsInv, BatchStages
<1> QED BY <1>1, <1>2, <1>3, <1>4, <1>5, <1>6

LEMMA TickInv ==
    ASSUME IInv, Tick
    PROVE  IInv'
<1> USE DEF IInv, Tick, rowVars, workerVars, envVars
<1>1. TypeOK'
  BY ConstantsAssumption DEF TypeOK, StageInv, HeldInv, HeldRow, AttemptsInv, SendsAccounted, Statuses, Stages, BatchStages, NoCopy
<1>2. ClaimExclusive'
  BY DEF TypeOK, ClaimExclusive, StageInv, HeldInv, HeldRow, BatchStages, Stages
<1>3. SendsAccounted'
  BY ConstantsAssumption DEF TypeOK, SendsAccounted, StageInv, HeldInv, HeldRow, BatchStages
<1>4. StageInv'
  BY DEF TypeOK, StageInv, Stages
<1>5. HeldInv'
  BY ConstantsAssumption DEF TypeOK, ClaimExclusive, SendsAccounted, StageInv, HeldInv, HeldRow, AttemptsInv, BatchStages, Stages
<1>6. AttemptsInv'
  BY ConstantsAssumption DEF TypeOK, StageInv, HeldInv, HeldRow, AttemptsInv, BatchStages
<1> QED BY <1>1, <1>2, <1>3, <1>4, <1>5, <1>6

LEMMA LockBatchInv ==
    ASSUME NEW w \in Workers, IInv, LockBatch(w)
    PROVE  IInv'
<1> USE DEF IInv, LockBatch, rowVars, workerVars, envVars
<1>0. \A e \in Batch(Due) : /\ e \in Events
                            /\ status[e] = "PENDING"
                            /\ \A v \in Workers : e \notin held[v]
  BY LockedAreFree
<1>1. TypeOK'
  BY <1>0, ConstantsAssumption DEF TypeOK, StageInv, HeldInv, HeldRow, AttemptsInv, SendsAccounted, Statuses, Stages, BatchStages, NoCopy
<1>2. ClaimExclusive'
  BY <1>0 DEF TypeOK, ClaimExclusive, StageInv, HeldInv, HeldRow, BatchStages, Stages
<1>3. SendsAccounted'
  BY <1>0, ConstantsAssumption DEF TypeOK, SendsAccounted, StageInv, HeldInv, HeldRow, BatchStages
<1>4. StageInv'
  BY <1>0 DEF TypeOK, StageInv, Stages
<1>5. HeldInv'
  BY <1>0, ConstantsAssumption DEF TypeOK, ClaimExclusive, SendsAccounted, StageInv, HeldInv, HeldRow, AttemptsInv, BatchStages, Stages
<1>6. AttemptsInv'
  BY <1>0, ConstantsAssumption DEF TypeOK, StageInv, HeldInv, HeldRow, AttemptsInv, BatchStages
<1> QED BY <1>1, <1>2, <1>3, <1>4, <1>5, <1>6

LEMMA ClaimBatchInv ==
    ASSUME NEW w \in Workers, IInv, ClaimBatch(w)
    PROVE  IInv'
<1> USE DEF IInv, ClaimBatch, ClaimRows, rowVars, workerVars, envVars
<1>1. TypeOK'
  BY ConstantsAssumption DEF TypeOK, StageInv, HeldInv, HeldRow, AttemptsInv, SendsAccounted, Statuses, Stages, BatchStages, NoCopy
<1>2. ClaimExclusive'
  BY DEF TypeOK, ClaimExclusive, StageInv, HeldInv, HeldRow, BatchStages, Stages
<1>3. SendsAccounted'
  BY ConstantsAssumption DEF TypeOK, SendsAccounted, StageInv, HeldInv, HeldRow, BatchStages
<1>4. StageInv'
  BY DEF TypeOK, StageInv, Stages
<1>5. HeldInv'
  BY ConstantsAssumption DEF TypeOK, ClaimExclusive, SendsAccounted, StageInv, HeldInv, HeldRow, AttemptsInv, BatchStages, Stages
<1>6. AttemptsInv'
  BY ConstantsAssumption DEF TypeOK, StageInv, HeldInv, HeldRow, AttemptsInv, BatchStages
<1> QED BY <1>1, <1>2, <1>3, <1>4, <1>5, <1>6

LEMMA AbortClaimInv ==
    ASSUME NEW w \in Workers, IInv, AbortClaim(w)
    PROVE  IInv'
<1> USE DEF IInv, AbortClaim, EndCycle, rowVars, workerVars, envVars
<1>1. TypeOK'
  BY ConstantsAssumption DEF TypeOK, StageInv, HeldInv, HeldRow, AttemptsInv, SendsAccounted, Statuses, Stages, BatchStages, NoCopy
<1>2. ClaimExclusive'
  BY DEF TypeOK, ClaimExclusive, StageInv, HeldInv, HeldRow, BatchStages, Stages
<1>3. SendsAccounted'
  BY ConstantsAssumption DEF TypeOK, SendsAccounted, StageInv, HeldInv, HeldRow, BatchStages
<1>4. StageInv'
  BY DEF TypeOK, StageInv, Stages
<1>5. HeldInv'
  BY ConstantsAssumption DEF TypeOK, ClaimExclusive, SendsAccounted, StageInv, HeldInv, HeldRow, AttemptsInv, BatchStages, Stages
<1>6. AttemptsInv'
  BY ConstantsAssumption DEF TypeOK, StageInv, HeldInv, HeldRow, AttemptsInv, BatchStages
<1> QED BY <1>1, <1>2, <1>3, <1>4, <1>5, <1>6

LEMMA LoseClaimInv ==
    ASSUME NEW w \in Workers, IInv, LoseClaim(w)
    PROVE  IInv'
<1> USE DEF IInv, LoseClaim, ClaimRows, EndCycle, rowVars, workerVars, envVars
<1>1. TypeOK'
  BY ConstantsAssumption DEF TypeOK, StageInv, HeldInv, HeldRow, AttemptsInv, SendsAccounted, Statuses, Stages, BatchStages, NoCopy
<1>2. ClaimExclusive'
  BY DEF TypeOK, ClaimExclusive, StageInv, HeldInv, HeldRow, BatchStages, Stages
<1>3. SendsAccounted'
  BY ConstantsAssumption DEF TypeOK, SendsAccounted, StageInv, HeldInv, HeldRow, BatchStages
<1>4. StageInv'
  BY DEF TypeOK, StageInv, Stages
<1>5. HeldInv'
  BY ConstantsAssumption DEF TypeOK, ClaimExclusive, SendsAccounted, StageInv, HeldInv, HeldRow, AttemptsInv, BatchStages, Stages
<1>6. AttemptsInv'
  BY ConstantsAssumption DEF TypeOK, StageInv, HeldInv, HeldRow, AttemptsInv, BatchStages
<1> QED BY <1>1, <1>2, <1>3, <1>4, <1>5, <1>6

LEMMA PublishInv ==
    ASSUME NEW w \in Workers, NEW e \in Events, IInv, Publish(w, e)
    PROVE  IInv'
<1> USE DEF IInv, Publish, BeginRelay, Deliver, rowVars, workerVars, envVars
<1>0. sent[e] + 1 <= MaxAttempts
  <2>1. HeldRow(w, e) /\ current[w] = {} /\ pc[w] = "relaying"
    BY DEF HeldInv, StageInv
  <2>2. sent[e] <= attempts[e] /\ status[e] = "CLAIMED"
    BY <2>1 DEF HeldRow, BatchStages
  <2>3. attempts[e] \in Nat /\ attempts[e] + 1 \in 0..MaxAttempts
    BY <2>2, AttemptLeft
  <2>4. sent[e] \in Nat
    BY DEF TypeOK
  <2>5. MaxAttempts \in Nat
    BY ConstantsAssumption
  <2> HIDE DEF IInv, Publish, PublishUnanswered, BeginRelay, Deliver, rowVars, workerVars, envVars
  <2> QED BY <2>2, <2>3, <2>4, <2>5
<1>1. TypeOK'
  BY <1>0, ConstantsAssumption DEF TypeOK, StageInv, HeldInv, HeldRow, AttemptsInv, SendsAccounted, Statuses, Stages, BatchStages, NoCopy
<1>2. ClaimExclusive'
  BY DEF TypeOK, ClaimExclusive, StageInv, HeldInv, HeldRow, BatchStages, Stages
<1>3. SendsAccounted'
  BY ConstantsAssumption DEF TypeOK, SendsAccounted, StageInv, HeldInv, HeldRow, BatchStages
<1>4. StageInv'
  BY DEF TypeOK, StageInv, Stages
<1>5. HeldInv'
  BY ConstantsAssumption DEF TypeOK, ClaimExclusive, SendsAccounted, StageInv, HeldInv, HeldRow, AttemptsInv, BatchStages, Stages
<1>6. AttemptsInv'
  BY ConstantsAssumption DEF TypeOK, StageInv, HeldInv, HeldRow, AttemptsInv, BatchStages
<1> QED BY <1>1, <1>2, <1>3, <1>4, <1>5, <1>6

LEMMA PublishRejectedInv ==
    ASSUME NEW w \in Workers, NEW e \in Events, IInv, PublishRejected(w, e)
    PROVE  IInv'
<1> USE DEF IInv, PublishRejected, BeginRelay, rowVars, workerVars, envVars
<1>1. TypeOK'
  BY ConstantsAssumption DEF TypeOK, StageInv, HeldInv, HeldRow, AttemptsInv, SendsAccounted, Statuses, Stages, BatchStages, NoCopy
<1>2. ClaimExclusive'
  BY DEF TypeOK, ClaimExclusive, StageInv, HeldInv, HeldRow, BatchStages, Stages
<1>3. SendsAccounted'
  BY ConstantsAssumption DEF TypeOK, SendsAccounted, StageInv, HeldInv, HeldRow, BatchStages
<1>4. StageInv'
  BY DEF TypeOK, StageInv, Stages
<1>5. HeldInv'
  BY ConstantsAssumption DEF TypeOK, ClaimExclusive, SendsAccounted, StageInv, HeldInv, HeldRow, AttemptsInv, BatchStages, Stages
<1>6. AttemptsInv'
  BY ConstantsAssumption DEF TypeOK, StageInv, HeldInv, HeldRow, AttemptsInv, BatchStages
<1> QED BY <1>1, <1>2, <1>3, <1>4, <1>5, <1>6

LEMMA PublishUnansweredInv ==
    ASSUME NEW w \in Workers, NEW e \in Events, IInv, PublishUnanswered(w, e)
    PROVE  IInv'
<1> USE DEF IInv, PublishUnanswered, BeginRelay, Deliver, rowVars, workerVars, envVars
<1>0. sent[e] + 1 <= MaxAttempts
  <2>1. HeldRow(w, e) /\ current[w] = {} /\ pc[w] = "relaying"
    BY DEF HeldInv, StageInv
  <2>2. sent[e] <= attempts[e] /\ status[e] = "CLAIMED"
    BY <2>1 DEF HeldRow, BatchStages
  <2>3. attempts[e] \in Nat /\ attempts[e] + 1 \in 0..MaxAttempts
    BY <2>2, AttemptLeft
  <2>4. sent[e] \in Nat
    BY DEF TypeOK
  <2>5. MaxAttempts \in Nat
    BY ConstantsAssumption
  <2> HIDE DEF IInv, Publish, PublishUnanswered, BeginRelay, Deliver, rowVars, workerVars, envVars
  <2> QED BY <2>2, <2>3, <2>4, <2>5
<1>1. TypeOK'
  BY <1>0, ConstantsAssumption DEF TypeOK, StageInv, HeldInv, HeldRow, AttemptsInv, SendsAccounted, Statuses, Stages, BatchStages, NoCopy
<1>2. ClaimExclusive'
  BY DEF TypeOK, ClaimExclusive, StageInv, HeldInv, HeldRow, BatchStages, Stages
<1>3. SendsAccounted'
  BY ConstantsAssumption DEF TypeOK, SendsAccounted, StageInv, HeldInv, HeldRow, BatchStages
<1>4. StageInv'
  BY DEF TypeOK, StageInv, Stages
<1>5. HeldInv'
  BY ConstantsAssumption DEF TypeOK, ClaimExclusive, SendsAccounted, StageInv, HeldInv, HeldRow, AttemptsInv, BatchStages, Stages
<1>6. AttemptsInv'
  BY ConstantsAssumption DEF TypeOK, StageInv, HeldInv, HeldRow, AttemptsInv, BatchStages
<1> QED BY <1>1, <1>2, <1>3, <1>4, <1>5, <1>6

LEMMA MarkPublishedInv ==
    ASSUME NEW w \in Workers, NEW e \in Events, IInv, MarkPublished(w, e)
    PROVE  IInv'
<1> USE DEF IInv, MarkPublished
<1>0. /\ current[w] = {e} /\ e \in held[w]
      /\ status[e] = "CLAIMED"
      /\ sent[e] > 0
      /\ \A v \in Workers \ {w} : e \notin held[v]
  BY DEF StageInv, HeldInv, HeldRow, BatchStages, ClaimExclusive
<1>a. /\ held' = [held EXCEPT ![w] = @ \ {e}]
      /\ current' = [current EXCEPT ![w] = {}]
      /\ pc' \in [Workers -> Stages]
      /\ pc'[w] \in {"idle", "relaying"}
      /\ pc'[w] = "idle" => held'[w] = {}
      /\ copy' \in [Workers -> [Events -> 0..MaxAttempts]]
      /\ \A v \in Workers \ {w} : pc'[v] = pc[v] /\ copy'[v] = copy[v]
      /\ \A d \in held'[w] : copy'[w][d] = copy[w][d]
  BY FinishFacts
<1>1. TypeOK'
  BY <1>0, <1>a, ConstantsAssumption DEF TypeOK, envVars, Statuses
<1>2. ClaimExclusive'
  BY <1>0, <1>a DEF TypeOK, ClaimExclusive
<1>3. SendsAccounted'
  BY <1>0, <1>a, ConstantsAssumption DEF TypeOK, SendsAccounted, OutcomeOf
<1>4. StageInv'
  BY <1>0, <1>a DEF TypeOK, StageInv, Stages
<1>5. HeldInv'
  <2> SUFFICES ASSUME NEW v \in Workers, NEW d \in held[v]'
               PROVE  HeldRow(v, d)'
    BY DEF HeldInv
  <2>1. d \in held[v] /\ d # e /\ d \in Events /\ HeldRow(v, d)
    BY <1>0, <1>a DEF TypeOK, HeldInv
  <2>2. CASE v = w
    BY <1>0, <1>a, <2>1, <2>2 DEF TypeOK, HeldRow, StageInv, BatchStages, Stages
  <2>3. CASE v # w
    BY <1>0, <1>a, <2>1, <2>3 DEF TypeOK, HeldRow, BatchStages, Stages
  <2> QED BY <2>2, <2>3
<1>6. AttemptsInv'
  BY <1>0, <1>a, ConstantsAssumption DEF TypeOK, AttemptsInv, OutcomeOf
<1> QED BY <1>1, <1>2, <1>3, <1>4, <1>5, <1>6

LEMMA MarkFailsInv ==
    ASSUME NEW w \in Workers, NEW e \in Events, IInv, MarkFails(w, e)
    PROVE  IInv'
<1> USE DEF IInv, MarkFails, rowVars, workerVars, envVars
<1>1. TypeOK'
  BY ConstantsAssumption DEF TypeOK, StageInv, HeldInv, HeldRow, AttemptsInv, SendsAccounted, Statuses, Stages, BatchStages, NoCopy
<1>2. ClaimExclusive'
  BY DEF TypeOK, ClaimExclusive, StageInv, HeldInv, HeldRow, BatchStages, Stages
<1>3. SendsAccounted'
  BY ConstantsAssumption DEF TypeOK, SendsAccounted, StageInv, HeldInv, HeldRow, BatchStages
<1>4. StageInv'
  BY DEF TypeOK, StageInv, Stages
<1>5. HeldInv'
  BY ConstantsAssumption DEF TypeOK, ClaimExclusive, SendsAccounted, StageInv, HeldInv, HeldRow, AttemptsInv, BatchStages, Stages
<1>6. AttemptsInv'
  BY ConstantsAssumption DEF TypeOK, StageInv, HeldInv, HeldRow, AttemptsInv, BatchStages
<1> QED BY <1>1, <1>2, <1>3, <1>4, <1>5, <1>6

LEMMA RecordFailureInv ==
    ASSUME NEW w \in Workers, NEW e \in Events, IInv, RecordFailure(w, e)
    PROVE  IInv'
<1>r. /\ pc[w] = "recording" /\ e \in current[w] /\ WriteFailure(w, e) /\ Finish(w, e)
      /\ sent' = sent /\ timer' = timer /\ envVars' = envVars
  BY DEF RecordFailure
<1> USE DEF IInv
<1>0. /\ current[w] = {e} /\ e \in held[w]
      /\ status[e] \in {"CLAIMED", "PUBLISHED"}
      /\ attempts[e] + 1 \in 0..MaxAttempts
      /\ sent[e] <= attempts[e] + 1
      /\ \A v \in Workers \ {w} : e \notin held[v]
      /\ attempts' = [attempts EXCEPT ![e] = attempts[e] + 1]
      /\ status' = [status EXCEPT ![e] = OutcomeOf(attempts[e] + 1)]
      /\ wait' \in [Events -> 0..(MaxDelay + Jitter)]
  BY <1>r, RecordingRow, WriteFailureFacts
<1>a. /\ held' = [held EXCEPT ![w] = @ \ {e}]
      /\ current' = [current EXCEPT ![w] = {}]
      /\ pc' \in [Workers -> Stages]
      /\ pc'[w] \in {"idle", "relaying"}
      /\ pc'[w] = "idle" => held'[w] = {}
      /\ copy' \in [Workers -> [Events -> 0..MaxAttempts]]
      /\ \A v \in Workers \ {w} : pc'[v] = pc[v] /\ copy'[v] = copy[v]
      /\ \A d \in held'[w] : copy'[w][d] = copy[w][d]
      /\ sent' = sent /\ timer' = timer /\ envVars' = envVars
  BY <1>r, FinishFacts
<1>1. TypeOK'
  BY <1>0, <1>a, ConstantsAssumption DEF TypeOK, envVars, Statuses, OutcomeOf
<1>2. ClaimExclusive'
  BY <1>0, <1>a DEF TypeOK, ClaimExclusive
<1>3. SendsAccounted'
  BY <1>0, <1>a, ConstantsAssumption DEF TypeOK, SendsAccounted, OutcomeOf
<1>4. StageInv'
  BY <1>0, <1>a DEF TypeOK, StageInv, Stages
<1>5. HeldInv'
  <2> SUFFICES ASSUME NEW v \in Workers, NEW d \in held[v]'
               PROVE  HeldRow(v, d)'
    BY DEF HeldInv
  <2>1. d \in held[v] /\ d # e /\ d \in Events /\ HeldRow(v, d)
    BY <1>0, <1>a DEF TypeOK, HeldInv
  <2>2. CASE v = w
    BY <1>0, <1>a, <2>1, <2>2 DEF TypeOK, HeldRow, StageInv, BatchStages, Stages
  <2>3. CASE v # w
    BY <1>0, <1>a, <2>1, <2>3 DEF TypeOK, HeldRow, BatchStages, Stages
  <2> QED BY <2>2, <2>3
<1>6. AttemptsInv'
  BY <1>0, <1>a, ConstantsAssumption DEF TypeOK, AttemptsInv, OutcomeOf
<1> QED BY <1>1, <1>2, <1>3, <1>4, <1>5, <1>6

LEMMA RecordFailsInv ==
    ASSUME NEW w \in Workers, NEW e \in Events, IInv, RecordFails(w, e)
    PROVE  IInv'
<1> USE DEF IInv, EndCycle
<1>0. /\ current[w] = {e} /\ e \in held[w]
      /\ status[e] \in {"CLAIMED", "PUBLISHED"}
      /\ attempts[e] + 1 \in 0..MaxAttempts
      /\ sent[e] <= attempts[e] + 1
      /\ \A v \in Workers \ {w} : e \notin held[v]
  BY RecordingRow DEF RecordFails
<1>a. /\ EndCycle(w, "idle")
      /\ sent' = sent /\ timer' = timer /\ envVars' = envVars
  BY DEF RecordFails
<1>b. \/ status' = status /\ attempts' = attempts /\ wait' = wait
      \/ /\ attempts' = [attempts EXCEPT ![e] = attempts[e] + 1]
         /\ status' = [status EXCEPT ![e] = OutcomeOf(attempts[e] + 1)]
         /\ wait' \in [Events -> 0..(MaxDelay + Jitter)]
  BY WriteFailureFacts DEF RecordFails, rowVars
<1>1. TypeOK'
  <2>1. CASE status' = status /\ attempts' = attempts /\ wait' = wait
    BY <1>a, <2>1, ConstantsAssumption DEF TypeOK, envVars, Stages, NoCopy
  <2>2. CASE /\ attempts' = [attempts EXCEPT ![e] = attempts[e] + 1]
             /\ status' = [status EXCEPT ![e] = OutcomeOf(attempts[e] + 1)]
             /\ wait' \in [Events -> 0..(MaxDelay + Jitter)]
    BY <1>0, <1>a, <2>2, ConstantsAssumption DEF TypeOK, envVars, Statuses, Stages, NoCopy, OutcomeOf
  <2> QED BY <1>b, <2>1, <2>2
<1>2. ClaimExclusive'
  BY <1>0, <1>a, <1>b DEF TypeOK, ClaimExclusive, StageInv, HeldInv, HeldRow, BatchStages, Stages
<1>3. SendsAccounted'
  BY <1>0, <1>a, <1>b, ConstantsAssumption DEF TypeOK, SendsAccounted, OutcomeOf
<1>4. StageInv'
  BY <1>0, <1>a, <1>b DEF TypeOK, StageInv, Stages
<1>5. HeldInv'
  BY <1>0, <1>a, <1>b, ConstantsAssumption DEF TypeOK, ClaimExclusive, SendsAccounted, StageInv, HeldInv, HeldRow, AttemptsInv, OutcomeOf, BatchStages, Stages
<1>6. AttemptsInv'
  <2>1. CASE status' = status /\ attempts' = attempts
    BY <2>1 DEF AttemptsInv
  <2>2. CASE /\ attempts' = [attempts EXCEPT ![e] = attempts[e] + 1]
             /\ status' = [status EXCEPT ![e] = OutcomeOf(attempts[e] + 1)]
    <3> SUFFICES ASSUME NEW d \in Events
                 PROVE  status'[d] = "FAILED" <=> attempts'[d] = MaxAttempts
      BY DEF AttemptsInv
    <3>1. CASE d = e
      <4>1. status'[e] = OutcomeOf(attempts[e] + 1) /\ attempts'[e] = attempts[e] + 1
        BY <2>2 DEF TypeOK
      <4> QED BY <1>0, <3>1, <4>1, ConstantsAssumption DEF OutcomeOf
    <3>2. CASE d # e
      BY <2>2, <3>2 DEF TypeOK, AttemptsInv
    <3> QED BY <3>1, <3>2
  <2> QED BY <1>b, <2>1, <2>2
<1> QED BY <1>1, <1>2, <1>3, <1>4, <1>5, <1>6

LEMMA CrashInv ==
    ASSUME NEW w \in Workers, IInv, Crash(w)
    PROVE  IInv'
<1> USE DEF IInv, Crash, EndCycle, rowVars, workerVars, envVars
<1>1. TypeOK'
  BY ConstantsAssumption DEF TypeOK, StageInv, HeldInv, HeldRow, AttemptsInv, SendsAccounted, Statuses, Stages, BatchStages, NoCopy
<1>2. ClaimExclusive'
  BY DEF TypeOK, ClaimExclusive, StageInv, HeldInv, HeldRow, BatchStages, Stages
<1>3. SendsAccounted'
  BY ConstantsAssumption DEF TypeOK, SendsAccounted, StageInv, HeldInv, HeldRow, BatchStages
<1>4. StageInv'
  BY DEF TypeOK, StageInv, Stages
<1>5. HeldInv'
  BY ConstantsAssumption DEF TypeOK, ClaimExclusive, SendsAccounted, StageInv, HeldInv, HeldRow, AttemptsInv, BatchStages, Stages
<1>6. AttemptsInv'
  BY ConstantsAssumption DEF TypeOK, StageInv, HeldInv, HeldRow, AttemptsInv, BatchStages
<1> QED BY <1>1, <1>2, <1>3, <1>4, <1>5, <1>6

LEMMA StopInv ==
    ASSUME NEW w \in Workers, IInv, Stop(w)
    PROVE  IInv'
<1> USE DEF IInv, Stop, rowVars, workerVars, envVars
<1>1. TypeOK'
  BY ConstantsAssumption DEF TypeOK, StageInv, HeldInv, HeldRow, AttemptsInv, SendsAccounted, Statuses, Stages, BatchStages, NoCopy
<1>2. ClaimExclusive'
  BY DEF TypeOK, ClaimExclusive, StageInv, HeldInv, HeldRow, BatchStages, Stages
<1>3. SendsAccounted'
  BY ConstantsAssumption DEF TypeOK, SendsAccounted, StageInv, HeldInv, HeldRow, BatchStages
<1>4. StageInv'
  BY DEF TypeOK, StageInv, Stages
<1>5. HeldInv'
  BY ConstantsAssumption DEF TypeOK, ClaimExclusive, SendsAccounted, StageInv, HeldInv, HeldRow, AttemptsInv, BatchStages, Stages
<1>6. AttemptsInv'
  BY ConstantsAssumption DEF TypeOK, StageInv, HeldInv, HeldRow, AttemptsInv, BatchStages
<1> QED BY <1>1, <1>2, <1>3, <1>4, <1>5, <1>6

LEMMA ExitInv ==
    ASSUME NEW w \in Workers, IInv, Exit(w)
    PROVE  IInv'
<1> USE DEF IInv, Exit, EndCycle, rowVars, workerVars, envVars
<1>1. TypeOK'
  BY ConstantsAssumption DEF TypeOK, StageInv, HeldInv, HeldRow, AttemptsInv, SendsAccounted, Statuses, Stages, BatchStages, NoCopy
<1>2. ClaimExclusive'
  BY DEF TypeOK, ClaimExclusive, StageInv, HeldInv, HeldRow, BatchStages, Stages
<1>3. SendsAccounted'
  BY ConstantsAssumption DEF TypeOK, SendsAccounted, StageInv, HeldInv, HeldRow, BatchStages
<1>4. StageInv'
  BY DEF TypeOK, StageInv, Stages
<1>5. HeldInv'
  BY ConstantsAssumption DEF TypeOK, ClaimExclusive, SendsAccounted, StageInv, HeldInv, HeldRow, AttemptsInv, BatchStages, Stages
<1>6. AttemptsInv'
  BY ConstantsAssumption DEF TypeOK, StageInv, HeldInv, HeldRow, AttemptsInv, BatchStages
<1> QED BY <1>1, <1>2, <1>3, <1>4, <1>5, <1>6

LEMMA RestartInv ==
    ASSUME NEW w \in Workers, IInv, Restart(w)
    PROVE  IInv'
<1> USE DEF IInv, Restart, rowVars, workerVars, envVars
<1>1. TypeOK'
  BY ConstantsAssumption DEF TypeOK, StageInv, HeldInv, HeldRow, AttemptsInv, SendsAccounted, Statuses, Stages, BatchStages, NoCopy
<1>2. ClaimExclusive'
  BY DEF TypeOK, ClaimExclusive, StageInv, HeldInv, HeldRow, BatchStages, Stages
<1>3. SendsAccounted'
  BY ConstantsAssumption DEF TypeOK, SendsAccounted, StageInv, HeldInv, HeldRow, BatchStages
<1>4. StageInv'
  BY DEF TypeOK, StageInv, Stages
<1>5. HeldInv'
  BY ConstantsAssumption DEF TypeOK, ClaimExclusive, SendsAccounted, StageInv, HeldInv, HeldRow, AttemptsInv, BatchStages, Stages
<1>6. AttemptsInv'
  BY ConstantsAssumption DEF TypeOK, StageInv, HeldInv, HeldRow, AttemptsInv, BatchStages
<1> QED BY <1>1, <1>2, <1>3, <1>4, <1>5, <1>6

-------------------------------------------------------------------------------
(* The invariant of the specification *)

LEMMA InitInv == Init => IInv
BY ConstantsAssumption
   DEF Init, IInv, TypeOK, ClaimExclusive, SendsAccounted, StageInv, HeldInv, HeldRow,
       AttemptsInv, Statuses, Stages, NoCopy

LEMMA NextInv == IInv /\ [Next]_vars => IInv'
<1> SUFFICES ASSUME IInv, [Next]_vars PROVE IInv'
  OBVIOUS
<1>1. ASSUME NEW e \in Events, CommitEvent(e) PROVE IInv'
  BY <1>1, CommitEventInv
<1>2. CASE Tick
  BY <1>2, TickInv
<1>3. ASSUME NEW w \in Workers, LockBatch(w) PROVE IInv'
  BY <1>3, LockBatchInv
<1>4. ASSUME NEW w \in Workers, ClaimBatch(w) PROVE IInv'
  BY <1>4, ClaimBatchInv
<1>5. ASSUME NEW w \in Workers, AbortClaim(w) PROVE IInv'
  BY <1>5, AbortClaimInv
<1>6. ASSUME NEW w \in Workers, LoseClaim(w) PROVE IInv'
  BY <1>6, LoseClaimInv
<1>7. ASSUME NEW w \in Workers, NEW e \in Events, Publish(w, e) PROVE IInv'
  BY <1>7, PublishInv
<1>8. ASSUME NEW w \in Workers, NEW e \in Events, PublishRejected(w, e) PROVE IInv'
  BY <1>8, PublishRejectedInv
<1>9. ASSUME NEW w \in Workers, NEW e \in Events, PublishUnanswered(w, e) PROVE IInv'
  BY <1>9, PublishUnansweredInv
<1>10. ASSUME NEW w \in Workers, NEW e \in Events, MarkPublished(w, e) PROVE IInv'
  BY <1>10, MarkPublishedInv
<1>11. ASSUME NEW w \in Workers, NEW e \in Events, MarkFails(w, e) PROVE IInv'
  BY <1>11, MarkFailsInv
<1>12. ASSUME NEW w \in Workers, NEW e \in Events, RecordFailure(w, e) PROVE IInv'
  BY <1>12, RecordFailureInv
<1>13. ASSUME NEW w \in Workers, NEW e \in Events, RecordFails(w, e) PROVE IInv'
  BY <1>13, RecordFailsInv
<1>14. ASSUME NEW w \in Workers, Crash(w) PROVE IInv'
  BY <1>14, CrashInv
<1>15. ASSUME NEW w \in Workers, Stop(w) PROVE IInv'
  BY <1>15, StopInv
<1>16. ASSUME NEW w \in Workers, Exit(w) PROVE IInv'
  BY <1>16, ExitInv
<1>17. ASSUME NEW w \in Workers, Restart(w) PROVE IInv'
  BY <1>17, RestartInv
<1>18. CASE UNCHANGED vars
  BY <1>18 DEF vars, IInv, TypeOK, ClaimExclusive, SendsAccounted, StageInv, HeldInv, HeldRow, AttemptsInv
<1> QED
  BY <1>1, <1>2, <1>3, <1>4, <1>5, <1>6, <1>7, <1>8, <1>9,
     <1>10, <1>11, <1>12, <1>13, <1>14, <1>15, <1>16, <1>17, <1>18
  DEF Next, Relay, Process

THEOREM Invariance == Spec => []IInv
<1>1. Init => IInv
  BY InitInv
<1>2. IInv /\ [Next]_vars => IInv'
  BY NextInv
<1> QED BY <1>1, <1>2, PTL DEF Spec

(* Every variable keeps its type: whatever fails, no event is attempted or  *)
(* handed to the queue more than MaxAttempts times.                         *)
THEOREM TypeCorrectness == Spec => []TypeOK
<1>1. IInv => TypeOK
  BY DEF IInv
<1> QED BY <1>1, Invariance, PTL

(* FOR UPDATE SKIP LOCKED and the CLAIMED status together keep every row in *)
(* the hands of at most one worker, through crashes and lost answers.       *)
THEOREM Exclusiveness == Spec => []ClaimExclusive
<1>1. IInv => ClaimExclusive
  BY DEF IInv
<1> QED BY <1>1, Invariance, PTL

(* Every message the queue accepted is paid for by an attempt of its row.   *)
THEOREM SendAccounting == Spec => []SendsAccounted
<1>1. IInv => SendsAccounted
  BY DEF IInv
<1> QED BY <1>1, Invariance, PTL

-------------------------------------------------------------------------------
(* Claims nobody holds *)

(* Only the update of a held row, or a COMMIT of locked rows, writes a      *)
(* status other than PENDING; the orphan is neither.                        *)
LEMMA OrphanStep ==
    ASSUME IInv, [Next]_vars, NEW e \in Events, Orphaned(e)
    PROVE  Orphaned(e)'
<1> USE DEF Orphaned
<1>1. ASSUME NEW d \in Events, CommitEvent(d) PROVE Orphaned(e)'
  BY <1>1 DEF CommitEvent, workerVars, envVars, IInv, TypeOK
<1>2. CASE Tick
  BY <1>2 DEF Tick, workerVars
<1>3. ASSUME NEW w \in Workers, LockBatch(w) PROVE Orphaned(e)'
  BY <1>3, LockedAreFree DEF LockBatch, rowVars, IInv, TypeOK
<1>4. ASSUME NEW w \in Workers, ClaimBatch(w) \/ AbortClaim(w) \/ LoseClaim(w) PROVE Orphaned(e)'
  BY <1>4 DEF ClaimBatch, AbortClaim, LoseClaim, ClaimRows, EndCycle, rowVars, IInv, TypeOK
<1>5. ASSUME NEW w \in Workers, NEW d \in Events,
             Publish(w, d) \/ PublishRejected(w, d) \/ PublishUnanswered(w, d)
      PROVE  Orphaned(e)'
  BY <1>5 DEF Publish, PublishRejected, PublishUnanswered, BeginRelay, rowVars
<1>6. ASSUME NEW w \in Workers, NEW d \in Events, MarkPublished(w, d) PROVE Orphaned(e)'
  <2>1. d \in held[w] /\ d # e
    BY <1>6 DEF MarkPublished, IInv, StageInv
  <2>2. held' = [held EXCEPT ![w] = @ \ {d}]
    BY <1>6, FinishFacts DEF MarkPublished, IInv
  <2>3. status' = [status EXCEPT ![d] = "PUBLISHED"]
    BY <1>6 DEF MarkPublished
  <2> QED BY <2>1, <2>2, <2>3 DEF IInv, TypeOK
<1>7. ASSUME NEW w \in Workers, NEW d \in Events, MarkFails(w, d) PROVE Orphaned(e)'
  <2>1. d \in held[w] /\ d # e
    BY <1>7 DEF MarkFails, IInv, StageInv
  <2> QED BY <1>7, <2>1 DEF MarkFails, IInv, TypeOK
<1>8. ASSUME NEW w \in Workers, NEW d \in Events, RecordFailure(w, d) PROVE Orphaned(e)'
  <2>1. d \in held[w] /\ d # e
    BY <1>8 DEF RecordFailure, IInv, StageInv
  <2>2. held' = [held EXCEPT ![w] = @ \ {d}]
    BY <1>8, FinishFacts DEF RecordFailure, IInv
  <2>3. status' = [status EXCEPT ![d] = OutcomeOf(attempts[d] + 1)]
    BY <1>8, WriteFailureFacts DEF RecordFailure
  <2> QED BY <2>1, <2>2, <2>3 DEF IInv, TypeOK
<1>9. ASSUME NEW w \in Workers, NEW d \in Events, RecordFails(w, d) PROVE Orphaned(e)'
  <2>1. d \in held[w] /\ d # e
    BY <1>9 DEF RecordFails, IInv, StageInv
  <2>2. held' = [held EXCEPT ![w] = {}]
    BY <1>9 DEF RecordFails, EndCycle
  <2>3. status' = status \/ status' = [status EXCEPT ![d] = OutcomeOf(attempts[d] + 1)]
    BY <1>9, WriteFailureFacts DEF RecordFails, rowVars
  <2> QED BY <2>1, <2>2, <2>3 DEF IInv, TypeOK
<1>10. ASSUME NEW w \in Workers, Process(w) PROVE Orphaned(e)'
  BY <1>10 DEF Process, Crash, Stop, Exit, Restart, EndCycle, rowVars, IInv, TypeOK
<1>11. CASE UNCHANGED vars
  BY <1>11 DEF vars
<1> QED
  BY <1>1, <1>2, <1>3, <1>4, <1>5, <1>6, <1>7, <1>8, <1>9, <1>10, <1>11 DEF Next, Relay

(* A claim that has lost its worker is never taken back, published or       *)
(* retried: no code path reads lease_until.                                 *)
THEOREM OrphansAreStuck == Spec => OrphansStay
<1>1. IInv /\ [Next]_vars => [\A e \in Events : Orphaned(e) => Orphaned(e)']_vars
  BY OrphanStep
<1> QED BY <1>1, Invariance, PTL DEF Spec, OrphansStay

(* With a queue that may fail but processes and a database that do not,     *)
(* every timer stays armed and no claim is orphaned.                        *)
OnlyQueueFaults == faults \subseteq {"send", "sendLost"}

QuietInv == OnlyQueueFaults => /\ \A w \in Workers : timer[w] /\ pc[w] # "down"
                               /\ \A e \in Events : ~Orphaned(e)

(* The environment is chosen once. *)
LEMMA FaultsFixed == [Next]_vars => faults' = faults
<1> USE DEF envVars
<1>1. ASSUME NEW e \in Events, CommitEvent(e) PROVE faults' = faults
  BY <1>1 DEF CommitEvent
<1>2. CASE Tick
  BY <1>2 DEF Tick
<1>3. ASSUME NEW w \in Workers, Relay(w) PROVE faults' = faults
  BY <1>3 DEF Relay, LockBatch, ClaimBatch, AbortClaim, LoseClaim, Publish, PublishRejected,
     PublishUnanswered, BeginRelay, MarkPublished, MarkFails, RecordFailure, RecordFails
<1>4. ASSUME NEW w \in Workers, Process(w) PROVE faults' = faults
  BY <1>4 DEF Process, Crash, Stop, Exit, Restart
<1>5. CASE UNCHANGED vars
  BY <1>5 DEF vars
<1> QED BY <1>1, <1>2, <1>3, <1>4, <1>5 DEF Next

LEMMA QuietStep == IInv /\ QuietInv /\ [Next]_vars => QuietInv'
<1> SUFFICES ASSUME IInv, QuietInv, [Next]_vars, OnlyQueueFaults
             PROVE  /\ \A w \in Workers : timer'[w] /\ pc'[w] # "down"
                    /\ \A e \in Events : ~Orphaned(e)'
  BY FaultsFixed DEF QuietInv, OnlyQueueFaults
<1>0. /\ \A w \in Workers : timer[w] /\ pc[w] # "down"
      /\ \A e \in Events : ~Orphaned(e)
      /\ \A f \in {"db", "dbLost", "crash", "shutdown"} : f \notin faults
  BY DEF QuietInv, OnlyQueueFaults
<1> USE DEF Orphaned
<1>1. ASSUME NEW d \in Events, CommitEvent(d)
      PROVE  /\ \A w \in Workers : timer'[w] /\ pc'[w] # "down"
             /\ \A e \in Events : ~Orphaned(e)'
  BY <1>0, <1>1 DEF CommitEvent, workerVars, envVars, IInv, TypeOK
<1>2. CASE Tick
  BY <1>0, <1>2 DEF Tick, workerVars
<1>3. ASSUME NEW v \in Workers, LockBatch(v)
      PROVE  /\ \A w \in Workers : timer'[w] /\ pc'[w] # "down"
             /\ \A e \in Events : ~Orphaned(e)'
  BY <1>0, <1>3 DEF LockBatch, rowVars, IInv, TypeOK, StageInv
<1>4. ASSUME NEW v \in Workers, ClaimBatch(v) \/ AbortClaim(v) \/ LoseClaim(v)
      PROVE  /\ \A w \in Workers : timer'[w] /\ pc'[w] # "down"
             /\ \A e \in Events : ~Orphaned(e)'
  BY <1>0, <1>4 DEF ClaimBatch, ClaimRows, AbortClaim, LoseClaim, IInv, TypeOK
<1>5. ASSUME NEW v \in Workers, NEW d \in Events,
             Publish(v, d) \/ PublishRejected(v, d) \/ PublishUnanswered(v, d)
      PROVE  /\ \A w \in Workers : timer'[w] /\ pc'[w] # "down"
             /\ \A e \in Events : ~Orphaned(e)'
  BY <1>0, <1>5 DEF Publish, PublishRejected, PublishUnanswered, BeginRelay, rowVars, IInv, TypeOK
<1>6. ASSUME NEW v \in Workers, NEW d \in Events, MarkPublished(v, d)
      PROVE  /\ \A w \in Workers : timer'[w] /\ pc'[w] # "down"
             /\ \A e \in Events : ~Orphaned(e)'
  <2>1. /\ held' = [held EXCEPT ![v] = @ \ {d}]
        /\ pc'[v] \in {"idle", "relaying"}
        /\ \A w \in Workers \ {v} : pc'[w] = pc[w]
    BY <1>6, FinishFacts DEF MarkPublished, IInv
  <2>2. status' = [status EXCEPT ![d] = "PUBLISHED"] /\ timer' = timer
    BY <1>6 DEF MarkPublished
  <2> QED BY <1>0, <2>1, <2>2 DEF IInv, TypeOK
<1>7. ASSUME NEW v \in Workers, NEW d \in Events, RecordFailure(v, d)
      PROVE  /\ \A w \in Workers : timer'[w] /\ pc'[w] # "down"
             /\ \A e \in Events : ~Orphaned(e)'
  <2>1. /\ held' = [held EXCEPT ![v] = @ \ {d}]
        /\ pc'[v] \in {"idle", "relaying"}
        /\ \A w \in Workers \ {v} : pc'[w] = pc[w]
    BY <1>7, FinishFacts DEF RecordFailure, IInv
  <2>2. status' = [status EXCEPT ![d] = OutcomeOf(attempts[d] + 1)] /\ timer' = timer
    BY <1>7, WriteFailureFacts DEF RecordFailure
  <2> QED BY <1>0, <2>1, <2>2 DEF OutcomeOf, IInv, TypeOK
<1>8. ASSUME NEW v \in Workers, NEW d \in Events, MarkFails(v, d) \/ RecordFails(v, d)
      PROVE  FALSE
  BY <1>0, <1>8 DEF MarkFails, RecordFails
<1>9. ASSUME NEW v \in Workers, Process(v) PROVE FALSE
  BY <1>0, <1>9 DEF Process, Crash, Stop, Exit, Restart
<1>10. CASE UNCHANGED vars
  BY <1>0, <1>10 DEF vars
<1> QED
  BY <1>1, <1>2, <1>3, <1>4, <1>5, <1>6, <1>7, <1>8, <1>9, <1>10 DEF Next, Relay

(* When only SQS misbehaves, no event is stranded in CLAIMED.               *)
THEOREM QueueFaultsStrandNothing == Spec => []ClaimsAreHeld
<1>1. Init => QuietInv
  BY DEF Init, QuietInv, Orphaned
<1>2. IInv /\ QuietInv /\ [Next]_vars => QuietInv'
  BY QuietStep
<1>3. QuietInv => ClaimsAreHeld
  BY DEF QuietInv, ClaimsAreHeld, OnlyQueueFaults
<1> QED BY <1>1, <1>2, <1>3, Invariance, PTL DEF Spec

-------------------------------------------------------------------------------
(* The relay implements OutboxContract *)

Phase == [e \in Events |-> PhaseOf(status[e])]

LEMMA PhaseUpdate ==
    ASSUME NEW e \in Events, NEW st, TypeOK, status' = [status EXCEPT ![e] = st]
    PROVE  Phase' = [Phase EXCEPT ![e] = PhaseOf(st)]
<1> DEFINE P(x) == PhaseOf(x)
<1>1. Phase = [d \in Events |-> P(status[d])] /\ Phase' = [d \in Events |-> P(status'[d])]
  BY DEF Phase
<1> HIDE DEF P
<1> QED BY <1>1 DEF TypeOK, P

LEMMA PhaseValues ==
    /\ PhaseOf("ABSENT") = "absent"    /\ PhaseOf("PENDING") = "queued"
    /\ PhaseOf("CLAIMED") = "queued"   /\ PhaseOf("PUBLISHED") = "published"
    /\ PhaseOf("FAILED") = "failed"
BY DEF PhaseOf

(* Statuses may change as long as every phase stays. *)
LEMMA PhaseKept ==
    ASSUME \A e \in Events : PhaseOf(status'[e]) = PhaseOf(status[e])
    PROVE  Phase' = Phase
BY DEF Phase

AbstractStep == [Contract!Next]_(Contract!contractVars)

LEMMA StutterStep ==
    ASSUME Phase' = Phase, sent' = sent
    PROVE  AbstractStep
BY DEF AbstractStep, Contract!contractVars, Phase

(* The update that ends an attempt: the contract sees a retraction, a       *)
(* surrender or nothing.                                                    *)
LEMMA FailureStep ==
    ASSUME NEW w \in Workers, NEW e \in Events, IInv, pc[w] = "recording", e \in current[w],
           WriteFailure(w, e), sent' = sent
    PROVE  AbstractStep
<1>1. status[e] \in {"CLAIMED", "PUBLISHED"} /\ Phase[e] = PhaseOf(status[e])
  BY RecordingRow DEF Phase
<1>2. Phase' = [Phase EXCEPT ![e] = PhaseOf(OutcomeOf(attempts[e] + 1))]
  BY WriteFailureFacts, PhaseUpdate DEF IInv
<1>3. CASE OutcomeOf(attempts[e] + 1) = "FAILED"
  <2>1. Contract!GiveUp(e)
    BY <1>1, <1>2, <1>3, PhaseValues DEF Contract!GiveUp, Phase
  <2> QED BY <2>1 DEF AbstractStep, Contract!Next
<1>4. CASE OutcomeOf(attempts[e] + 1) = "PENDING" /\ status[e] = "PUBLISHED"
  <2>1. Contract!Retract(e)
    BY <1>1, <1>2, <1>4, PhaseValues DEF Contract!Retract, Phase
  <2> QED BY <2>1 DEF AbstractStep, Contract!Next
<1>5. CASE OutcomeOf(attempts[e] + 1) = "PENDING" /\ status[e] = "CLAIMED"
  <2>1. Phase' = Phase
    BY <1>1, <1>2, <1>5, PhaseValues DEF Phase
  <2> QED BY <2>1, StutterStep
<1> QED BY <1>1, <1>3, <1>4, <1>5 DEF OutcomeOf

(* The mark, answered or not: the contract confirms.                        *)
LEMMA MarkStep ==
    ASSUME NEW w \in Workers, NEW e \in Events, IInv, pc[w] = "marking", e \in current[w],
           status' = [status EXCEPT ![e] = "PUBLISHED"], sent' = sent
    PROVE  AbstractStep
<1>1. status[e] = "CLAIMED" /\ sent[e] > 0
  BY DEF IInv, StageInv, HeldInv, HeldRow, BatchStages
<1>2. Phase[e] = "queued" /\ Phase' = [Phase EXCEPT ![e] = "published"]
  <2>1. Phase[e] = "queued"
    BY <1>1, PhaseValues DEF Phase
  <2>2. Phase' = [Phase EXCEPT ![e] = PhaseOf("PUBLISHED")]
    BY PhaseUpdate DEF IInv
  <2> QED BY <2>1, <2>2, PhaseValues
<1>3. Contract!Confirm(e)
  BY <1>1, <1>2 DEF Contract!Confirm, Phase
<1> QED BY <1>3 DEF AbstractStep, Contract!Next

LEMMA DeliverStep ==
    ASSUME NEW w \in Workers, NEW e \in Events, IInv,
           Publish(w, e) \/ PublishUnanswered(w, e)
    PROVE  AbstractStep
<1>1. /\ pc[w] = "relaying" /\ e \in held[w]
      /\ sent' = [sent EXCEPT ![e] = @ + 1] /\ status' = status
  BY DEF Publish, PublishUnanswered, BeginRelay, Deliver, rowVars
<1>2. status[e] = "CLAIMED" /\ sent[e] <= attempts[e]
  BY <1>1 DEF IInv, StageInv, HeldInv, HeldRow, BatchStages
<1>3. attempts[e] \in Nat /\ attempts[e] + 1 \in 0..MaxAttempts /\ sent[e] \in Nat /\ MaxAttempts \in Nat
  BY <1>2, AttemptLeft, ConstantsAssumption DEF IInv, TypeOK
<1>4. sent[e] < MaxAttempts
  BY <1>2, <1>3
<1>5. Phase[e] = "queued" /\ Phase' = Phase
  BY <1>1, <1>2, PhaseValues DEF Phase
<1>6. Contract!Send(e)
  BY <1>1, <1>4, <1>5 DEF Contract!Send, Phase
<1> QED BY <1>6 DEF AbstractStep, Contract!Next

LEMMA RefinementStep == IInv /\ [Next]_vars => AbstractStep
<1> SUFFICES ASSUME IInv, [Next]_vars PROVE AbstractStep
  OBVIOUS
<1>1. ASSUME NEW e \in Events, CommitEvent(e) PROVE AbstractStep
  <2>1. Phase[e] = "absent" /\ Phase' = [Phase EXCEPT ![e] = "queued"]
    BY <1>1, PhaseUpdate, PhaseValues DEF CommitEvent, Phase, IInv
  <2>2. Contract!Commit(e)
    BY <1>1, <2>1 DEF CommitEvent, Contract!Commit, Phase
  <2> QED BY <2>2 DEF AbstractStep, Contract!Next
<1>2. CASE Tick
  BY <1>2, PhaseKept, StutterStep DEF Tick
<1>3. ASSUME NEW w \in Workers, LockBatch(w) \/ AbortClaim(w) PROVE AbstractStep
  BY <1>3, PhaseKept, StutterStep DEF LockBatch, AbortClaim, rowVars
<1>4. ASSUME NEW w \in Workers, ClaimBatch(w) \/ LoseClaim(w) PROVE AbstractStep
  <2>1. ClaimRows(w) /\ pc[w] = "claiming" /\ sent' = sent
    BY <1>4 DEF ClaimBatch, LoseClaim
  <2>2. \A e \in Events : PhaseOf(status'[e]) = PhaseOf(status[e])
    BY <2>1, PhaseValues DEF ClaimRows, IInv, HeldInv, HeldRow
  <2> QED BY <2>1, <2>2, PhaseKept, StutterStep
<1>5. ASSUME NEW w \in Workers, NEW e \in Events, Publish(w, e) \/ PublishUnanswered(w, e)
      PROVE  AbstractStep
  BY <1>5, DeliverStep
<1>6. ASSUME NEW w \in Workers, NEW e \in Events, PublishRejected(w, e) PROVE AbstractStep
  BY <1>6, PhaseKept, StutterStep DEF PublishRejected, BeginRelay, rowVars
<1>7. ASSUME NEW w \in Workers, NEW e \in Events, MarkPublished(w, e) PROVE AbstractStep
  BY <1>7, MarkStep DEF MarkPublished
<1>8. ASSUME NEW w \in Workers, NEW e \in Events, MarkFails(w, e) PROVE AbstractStep
  BY <1>8, MarkStep, PhaseKept, StutterStep DEF MarkFails
<1>9. ASSUME NEW w \in Workers, NEW e \in Events, RecordFailure(w, e) PROVE AbstractStep
  BY <1>9, FailureStep DEF RecordFailure
<1>10. ASSUME NEW w \in Workers, NEW e \in Events, RecordFails(w, e) PROVE AbstractStep
  BY <1>10, FailureStep, PhaseKept, StutterStep DEF RecordFails, rowVars
<1>11. ASSUME NEW w \in Workers, Process(w) PROVE AbstractStep
  BY <1>11, PhaseKept, StutterStep DEF Process, Crash, Stop, Exit, Restart, rowVars
<1>12. CASE UNCHANGED vars
  BY <1>12, PhaseKept, StutterStep DEF vars
<1> QED
  BY <1>1, <1>2, <1>3, <1>4, <1>5, <1>6, <1>7, <1>8, <1>9, <1>10, <1>11, <1>12
  DEF Next, Relay

(* The relay implements the outbox contract, whatever fails.                *)
THEOREM RelayImplementsContract == Spec => ContractSpec
<1>1. Init => Contract!Init
  BY PhaseValues DEF Init, Contract!Init
<1>2. IInv /\ [Next]_vars => [Contract!Next]_(Contract!contractVars)
  BY RefinementStep DEF AbstractStep
<1> QED BY <1>1, <1>2, Invariance, PTL DEF Spec, ContractSpec, Contract!Spec

-------------------------------------------------------------------------------
(* One message per event *)

(* SQS may reject messages and workers may stop or die, but no answer is    *)
(* lost and the database works.                                             *)
AnswersArrive == faults \subseteq {"send", "crash", "shutdown"}

(* A row whose message is out is only held by a worker about to mark it.    *)
OnceSent(e) ==
    /\ sent[e] <= 1
    /\ sent[e] > 0 => /\ status[e] \in {"CLAIMED", "PUBLISHED"}
                      /\ \A w \in Workers : e \in held[w] => pc[w] = "marking" /\ e \in current[w]

OnceInv == AnswersArrive => \A e \in Events : OnceSent(e)

(* The queue accepts at most one message in a step.                         *)
LEMMA SendsOne ==
    ASSUME [Next]_vars
    PROVE  sent' = sent \/ \E e \in Events : Deliver(e)
<1> USE DEF envVars
<1>1. ASSUME NEW e \in Events, CommitEvent(e) PROVE sent' = sent
  BY <1>1 DEF CommitEvent
<1>2. CASE Tick
  BY <1>2 DEF Tick
<1>3. ASSUME NEW w \in Workers, Relay(w) PROVE sent' = sent \/ \E e \in Events : Deliver(e)
  BY <1>3 DEF Relay, LockBatch, ClaimBatch, AbortClaim, LoseClaim, Publish, PublishRejected,
     PublishUnanswered, MarkPublished, MarkFails, RecordFailure, RecordFails
<1>4. ASSUME NEW w \in Workers, Process(w) PROVE sent' = sent
  BY <1>4 DEF Process, Crash, Stop, Exit, Restart
<1>5. CASE UNCHANGED vars
  BY <1>5 DEF vars
<1> QED BY <1>1, <1>2, <1>3, <1>4, <1>5 DEF Next

LEMMA OnceStep == IInv /\ OnceInv /\ [Next]_vars => OnceInv'
<1> SUFFICES ASSUME IInv, [Next]_vars, AnswersArrive, \A d \in Events : OnceSent(d), NEW e \in Events
             PROVE  OnceSent(e)'
  BY FaultsFixed DEF OnceInv, AnswersArrive
<1>0. OnceSent(e) /\ \A f \in {"sendLost", "db", "dbLost"} : f \notin faults
  BY DEF AnswersArrive
<1>1. ASSUME NEW d \in Events, CommitEvent(d) PROVE OnceSent(e)'
  BY <1>0, <1>1 DEF CommitEvent, workerVars, OnceSent, IInv, TypeOK
<1>2. CASE Tick
  BY <1>0, <1>2 DEF Tick, workerVars, OnceSent
<1>3. ASSUME NEW v \in Workers, LockBatch(v) PROVE OnceSent(e)'
  <2>1. e \in Batch(Due) => status[e] = "PENDING"
    BY LockedAreFree
  <2>2. /\ held' = [held EXCEPT ![v] = Batch(Due)] /\ pc' = [pc EXCEPT ![v] = "claiming"]
        /\ pc[v] = "idle" /\ UNCHANGED <<status, sent, current>>
    BY <1>3 DEF LockBatch, rowVars
  <2> QED
    BY <1>0, <2>1, <2>2 DEF OnceSent, IInv, TypeOK, StageInv
<1>4. ASSUME NEW v \in Workers, ClaimBatch(v) PROVE OnceSent(e)'
  <2>1. e \in held[v] => status[e] = "PENDING"
    BY <1>4 DEF ClaimBatch, IInv, HeldInv, HeldRow
  <2> QED
    BY <1>0, <1>4, <2>1 DEF ClaimBatch, ClaimRows, OnceSent, IInv, TypeOK
<1>5. ASSUME NEW v \in Workers, NEW d \in Events, Publish(v, d) PROVE OnceSent(e)'
  <2>1. /\ pc[v] = "relaying" /\ d \in held[v]
        /\ current' = [current EXCEPT ![v] = {d}] /\ pc' = [pc EXCEPT ![v] = "marking"]
        /\ sent' = [sent EXCEPT ![d] = @ + 1] /\ UNCHANGED <<status, held>>
    BY <1>5 DEF Publish, BeginRelay, Deliver, rowVars
  <2>2. CASE e = d
    <3>1. sent[d] = 0
      BY <1>0, <2>1, <2>2 DEF OnceSent, IInv, TypeOK
    <3>2. status[d] = "CLAIMED"
      BY <2>1 DEF IInv, HeldInv, HeldRow, BatchStages
    <3>3. \A w \in Workers : d \in held[w] => w = v
      BY <2>1 DEF IInv, ClaimExclusive
    <3> QED
      BY <2>1, <2>2, <3>1, <3>2, <3>3 DEF OnceSent, IInv, TypeOK
  <2>3. CASE e # d
    BY <1>0, <2>1, <2>3 DEF OnceSent, IInv, TypeOK
  <2> QED
    BY <2>2, <2>3
<1>6. ASSUME NEW v \in Workers, NEW d \in Events, PublishRejected(v, d) PROVE OnceSent(e)'
  BY <1>0, <1>6 DEF PublishRejected, BeginRelay, rowVars, OnceSent, IInv, TypeOK
<1>7. ASSUME NEW v \in Workers, NEW d \in Events, MarkPublished(v, d) PROVE OnceSent(e)'
  <2>1. /\ held' = [held EXCEPT ![v] = @ \ {d}]
        /\ current' = [current EXCEPT ![v] = {}]
        /\ \A w \in Workers \ {v} : pc'[w] = pc[w]
    BY <1>7, FinishFacts DEF MarkPublished, IInv
  <2>2. status' = [status EXCEPT ![d] = "PUBLISHED"] /\ sent' = sent /\ current[v] = {d}
    BY <1>7 DEF MarkPublished, IInv, StageInv
  <2> QED
    BY <1>0, <2>1, <2>2 DEF OnceSent, IInv, TypeOK
<1>8. ASSUME NEW v \in Workers, NEW d \in Events, RecordFailure(v, d) PROVE OnceSent(e)'
  <2>1. /\ held' = [held EXCEPT ![v] = @ \ {d}]
        /\ current' = [current EXCEPT ![v] = {}]
        /\ \A w \in Workers \ {v} : pc'[w] = pc[w]
    BY <1>8, FinishFacts DEF RecordFailure, IInv
  <2>2. status' = [status EXCEPT ![d] = OutcomeOf(attempts[d] + 1)] /\ sent' = sent
    BY <1>8, WriteFailureFacts DEF RecordFailure
  <2>3. pc[v] = "recording" /\ d \in held[v] /\ current[v] = {d}
    BY <1>8, RecordingRow DEF RecordFailure
  <2>4. sent[d] = 0
    BY <2>3 DEF OnceSent, IInv, TypeOK
  <2> QED
    BY <1>0, <2>1, <2>2, <2>3, <2>4 DEF OnceSent, IInv, TypeOK
<1>9. ASSUME NEW v \in Workers, Crash(v) \/ Exit(v) PROVE OnceSent(e)'
  <2>1. /\ pc' = [pc EXCEPT ![v] = "down"] /\ held' = [held EXCEPT ![v] = {}]
        /\ current' = [current EXCEPT ![v] = {}] /\ UNCHANGED <<status, sent>>
    BY <1>9 DEF Crash, Exit, EndCycle, rowVars
  <2> QED
    BY <1>0, <2>1 DEF OnceSent, IInv, TypeOK
<1>10. ASSUME NEW v \in Workers, Stop(v) PROVE OnceSent(e)'
  BY <1>0, <1>10 DEF Stop, rowVars, OnceSent
<1>11. ASSUME NEW v \in Workers, Restart(v) PROVE OnceSent(e)'
  BY <1>0, <1>11 DEF Restart, rowVars, OnceSent, IInv, TypeOK, StageInv
<1>12. ASSUME NEW v \in Workers, NEW d \in Events,
              AbortClaim(v) \/ LoseClaim(v) \/ PublishUnanswered(v, d) \/ MarkFails(v, d) \/ RecordFails(v, d)
       PROVE  FALSE
  BY <1>0, <1>12 DEF AbortClaim, LoseClaim, PublishUnanswered, MarkFails, RecordFails
<1>13. CASE UNCHANGED vars
  BY <1>0, <1>13 DEF vars, OnceSent
<1> QED
  BY <1>1, <1>2, <1>3, <1>4, <1>5, <1>6, <1>7, <1>8, <1>9, <1>10, <1>11, <1>12, <1>13
  DEF Next, Relay, Process

(* While SQS answers and the database works, the queue accepts one message  *)
(* per event at most, however many workers crash or are stopped at any      *)
(* point between the claim and the update to PUBLISHED.                     *)
THEOREM CrashesSendOnce == Spec => [](AnswersArrive => \A e \in Events : sent[e] <= 1)
<1>1. Init => OnceInv
  BY DEF Init, OnceInv, OnceSent
<1>2. OnceInv => (AnswersArrive => \A e \in Events : sent[e] <= 1)
  BY DEF OnceInv, OnceSent
<1> QED BY <1>1, <1>2, OnceStep, Invariance, PTL DEF Spec

-------------------------------------------------------------------------------
(* The tenant policies *)

(* Under them no worker ever gets as far as holding a row. *)
BoundInv ==
    "policies" \in faults =>
        /\ \A e \in Events : status[e] \in {"ABSENT", "PENDING"} /\ attempts[e] = 0 /\ sent[e] = 0
        /\ \A w \in Workers : pc[w] \in {"idle", "down"}

LEMMA BoundStep == IInv /\ BoundInv /\ [Next]_vars => BoundInv'
<1> SUFFICES ASSUME IInv, BoundInv, [Next]_vars, "policies" \in faults
             PROVE  BoundInv'
  BY FaultsFixed DEF BoundInv
<1>0. /\ \A e \in Events : status[e] \in {"ABSENT", "PENDING"} /\ attempts[e] = 0 /\ sent[e] = 0
      /\ \A w \in Workers : pc[w] \in {"idle", "down"}
  BY DEF BoundInv
<1>1. ASSUME NEW e \in Events, CommitEvent(e) PROVE BoundInv'
  BY <1>0, <1>1 DEF CommitEvent, workerVars, IInv, TypeOK, BoundInv
<1>2. CASE Tick
  BY <1>0, <1>2 DEF Tick, workerVars, BoundInv
<1>3. ASSUME NEW w \in Workers, Relay(w) PROVE FALSE
  <2>1. Batch(Due) = {}
    BY DEF Batch, Due, Pending, Seen
  <2> QED
    BY <1>0, <1>3, <2>1 DEF Relay, LockBatch, ClaimBatch, AbortClaim, LoseClaim, Publish,
      PublishRejected, PublishUnanswered, BeginRelay, MarkPublished, MarkFails, RecordFailure,
      RecordFails
<1>4. ASSUME NEW w \in Workers, Process(w) PROVE BoundInv'
  BY <1>0, <1>4 DEF Process, Crash, Stop, Exit, Restart, EndCycle, rowVars, IInv, TypeOK, BoundInv
<1>5. CASE UNCHANGED vars
  BY <1>0, <1>5 DEF vars, BoundInv
<1> QED BY <1>1, <1>2, <1>3, <1>4, <1>5 DEF Next

(* A relay whose database role is subject to the tenant policies claims,    *)
(* sends and changes no event, at any number of workers and under any       *)
(* faults: it acts for no tenant, and the policies show it no row.          *)
THEOREM PoliciesStopRelay == Spec => []PoliciesBindRelay
<1>1. Init => BoundInv
  BY DEF Init, BoundInv
<1>2. BoundInv => PoliciesBindRelay
  BY DEF BoundInv, PoliciesBindRelay
<1> QED BY <1>1, <1>2, BoundStep, Invariance, PTL DEF Spec

===============================================================================
