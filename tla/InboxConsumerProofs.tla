-------------------------- MODULE InboxConsumerProofs --------------------------
(***************************************************************************)
(* Theorems about InboxConsumer, for any messages, consumers, batch size,  *)
(* limit of receipts and mixture of faults.                                *)
(***************************************************************************)
EXTENDS InboxConsumer, TLAPS, FiniteSetTheorems

(* The types, but for the bound of audits. *)
Types ==
    /\ place    \in [Messages -> Places]
    /\ receives \in [Messages -> 0..MaxReceives]
    /\ inbox    \subseteq Events
    /\ audits   \in [Messages -> Nat]
    /\ pc       \in [Consumers -> Stages]
    /\ running  \in [Consumers -> BOOLEAN]
    /\ batch    \in [Consumers -> SUBSET Messages]
    /\ handle   \in [Consumers -> [Messages -> 0..MaxReceives]]
    /\ current  \in [Consumers -> SUBSET Messages]
    /\ [kind |-> kind, faults |-> faults] \in Scenarios
    /\ kind \in [Messages -> Kinds]
    /\ outages  \in 0..MaxOutages

(* What a consumer's stage says of its batch and of the message in work. *)
StageInv(c) ==
    /\ pc[c] \in {"idle", "down"} <=> batch[c] = {}
    /\ pc[c] \in {"idle", "down", "ready"} => current[c] = {}
    /\ pc[c] \notin {"idle", "down", "ready"} => \E m \in batch[c] : current[c] = {m}

(* What is in work past the SELECT has a type; only handlers can fail. *)
WorkInv(c) ==
    \A m \in current[c] :
        /\ pc[c] \in {"reserving", "processing"} => kind[m] \in {"advice", "other"}
        /\ pc[c] = "undoing" => kind[m] = "advice"

(* A receipt handle is held for each message of the batch and no other. *)
HandleInv(c) ==
    \A m \in Messages : /\ m \in batch[c] => handle[c][m] \in 1..receives[m]
                        /\ m \notin batch[c] => handle[c][m] = 0

Held == \A c \in Consumers : StageInv(c) /\ WorkInv(c) /\ HandleInv(c)

-------------------------------------------------------------------------------
(* The steps by what they do to a consumer *)

QueueStep(m)  == Send(m) \/ Expire(m) \/ DeadLetter(m) \/ ReceiveLost(m)
Starts(c, m)  == Discard(c, m) \/ LookUp(c, m) \/ LookUpFails(c, m)
Goes(c, m)    == Insert(c, m) \/ InsertFails(c, m) \/ Process(c, m) \/ ProcessFails(c, m)
Ends(c, m)    == Undo(c, m) \/ UndoFails(c, m) \/ DeleteMessage(c, m) \/ DeleteFails(c, m)
Drops(c)      == Crash(c) \/ \E m \in Messages : ParseFails(c, m)
Controls(c)   == Stop(c) \/ Exit(c) \/ Restart(c)

LEMMA NextSplits ==
    Next => \/ \E m \in Messages : QueueStep(m)
            \/ \E e \in Events : Prune(e)
            \/ \E c \in Consumers :
                  \/ Receive(c) \/ Drops(c) \/ Controls(c)
                  \/ \E m \in Messages : Starts(c, m) \/ Goes(c, m) \/ Ends(c, m)
BY DEF Next, Work, QueueStep, Starts, Goes, Ends, Drops, Controls

LEMMA QueueStepFacts ==
    ASSUME NEW m \in Messages, QueueStep(m)
    PROVE  /\ place' \in {[place EXCEPT ![m] = p] : p \in {"visible", "dead", "inflight"}}
           /\ place[m] \in {"unsent", "visible", "inflight"}
           /\ \/ receives' = receives
              \/ /\ receives' = [receives EXCEPT ![m] = @ + 1]
                 /\ place[m] = "visible" /\ receives[m] < MaxReceives
           /\ UNCHANGED <<inbox, audits, consumerVars, envVars>>
BY DEF QueueStep, Send, Expire, DeadLetter, ReceiveLost, Receivable

(* A receipt, answered or not, only adds to the count. *)
LEMMA ReceivesGrow ==
    ASSUME Types, NEW m \in Messages, QueueStep(m)
    PROVE  \A n \in Messages : /\ receives'[n] \in 0..MaxReceives
                               /\ receives'[n] >= receives[n]
                               /\ n # m => receives'[n] = receives[n]
<1>1. \A n \in Messages : receives[n] \in 0..MaxReceives /\ receives[n] \in Nat
  BY ConstantsAssumption DEF Types
<1>2. CASE receives' = receives
  BY <1>1, <1>2
<1>3. CASE receives' = [receives EXCEPT ![m] = @ + 1] /\ receives[m] < MaxReceives
  <2>1. \A n \in Messages : receives'[n] = IF n = m THEN receives[m] + 1 ELSE receives[n]
    BY <1>3 DEF Types
  <2> QED
    BY <1>1, <1>3, <2>1, ConstantsAssumption
<1> QED
  BY <1>2, <1>3, QueueStepFacts

(* A message is taken from the batch and put in work. *)
LEMMA StartFacts ==
    ASSUME NEW c \in Consumers, NEW m \in Messages, Starts(c, m)
    PROVE  /\ pc[c] = "ready" /\ m \in batch[c]
           /\ current' = [current EXCEPT ![c] = {m}]
           /\ \/ /\ pc' = [pc EXCEPT ![c] = "deleting"]
                 /\ kind[m] \in {"untyped", "untenanted"} \/ "reserve" \in faults
              \/ /\ \/ Event[m] \notin inbox /\ pc' = [pc EXCEPT ![c] = "reserving"]
                    \/ Event[m] \in inbox /\ pc' = [pc EXCEPT ![c] = "processing"]
                 /\ kind[m] \in {"advice", "other"}
           /\ UNCHANGED <<queueVars, inbox, audits, running, batch, handle, envVars>>
BY DEF Starts, Discard, LookUp, LookUpFails, Begin

(* The message in work goes on to its next stage. *)
LEMMA GoFacts ==
    ASSUME NEW c \in Consumers, NEW m \in Messages, Goes(c, m)
    PROVE  /\ m \in current[c]
           /\ \/ pc[c] = "reserving" /\ pc' = [pc EXCEPT ![c] = "processing"]
              \/ pc[c] = "reserving" /\ pc' = [pc EXCEPT ![c] = "deleting"]
              \/ pc[c] = "processing" /\ pc' = [pc EXCEPT ![c] = "deleting"]
              \/ pc[c] = "processing" /\ pc' = [pc EXCEPT ![c] = "undoing"] /\ kind[m] = "advice"
           /\ inbox' = inbox \/ (pc[c] = "reserving" /\ inbox' = inbox \cup {Event[m]})
           /\ audits' = audits \/ (pc[c] = "processing" /\ WriteAudit(m))
           /\ UNCHANGED <<queueVars, running, batch, handle, current, envVars>>
BY DEF Goes, Insert, InsertFails, Refused, Process, ProcessFails, At, Goto

LEMMA EndKeeps ==
    ASSUME NEW c \in Consumers, NEW m \in Messages, Ends(c, m)
    PROVE  /\ pc[c] \in {"undoing", "deleting"} /\ m \in current[c]
           /\ Finish(c, m)
           /\ \/ place' = place
              \/ pc[c] = "deleting" /\ place' = [place EXCEPT ![m] = IF @ = "dead" THEN "dead" ELSE "deleted"]
           /\ inbox' = inbox \/ (pc[c] = "undoing" /\ inbox' = inbox \ {Event[m]})
           /\ UNCHANGED <<receives, audits, running, envVars>>
BY DEF Ends, Undo, UndoFails, DeleteMessage, DeleteFails, At, queueVars

(* Dropping the last message of a batch is removing it like any other. *)
LEMMA FinishFacts ==
    ASSUME Types, Held, NEW c \in Consumers, NEW m \in Messages,
           m \in current[c], Finish(c, m)
    PROVE  /\ batch' = [batch EXCEPT ![c] = @ \ {m}]
           /\ current' = [current EXCEPT ![c] = {}]
           /\ handle' = [handle EXCEPT ![c] = [@ EXCEPT ![m] = 0]]
           /\ pc' = [pc EXCEPT ![c] = IF batch[c] = {m} THEN "idle" ELSE "ready"]
           /\ current[c] = {m} /\ m \in batch[c]
<1>1. current[c] = {m} /\ m \in batch[c]
  BY DEF Types, Held, StageInv, Stages
<1>2. CASE batch[c] = {m}
  <2>1. batch[c] \ {m} = {}
    BY <1>2
  <2>2. NoHandles = [handle[c] EXCEPT ![m] = 0]
    BY <1>2 DEF Held, HandleInv, NoHandles, Types
  <2> QED
    BY <1>1, <1>2, <2>1, <2>2 DEF Finish, DropBatch
<1>3. CASE batch[c] # {m}
  BY <1>1, <1>3 DEF Finish, Types
<1> QED
  BY <1>2, <1>3

LEMMA DropFacts ==
    ASSUME NEW c \in Consumers, Drops(c)
    PROVE  /\ \E stage \in {"idle", "down"} : DropBatch(c, stage)
           /\ pc[c] # "down"
           /\ "crash" \in faults \/ (pc[c] = "ready" /\ running' = running /\ outages' = outages)
           /\ UNCHANGED <<queueVars, inbox, audits, kind, faults>>
BY DEF Drops, Crash, ParseFails, envVars

LEMMA ControlFacts ==
    ASSUME NEW c \in Consumers, Controls(c)
    PROVE  /\ pc' = pc \/ \E from, to \in {"idle", "down"} : pc[c] = from /\ pc' = [pc EXCEPT ![c] = to]
           /\ UNCHANGED <<queueVars, inbox, audits, batch, handle, current, kind, faults>>
BY DEF Controls, Stop, Exit, Restart, envVars

(* A poll takes a batch of visible messages that were not received too often. *)
LEMMA ReceiveFacts ==
    ASSUME NEW c \in Consumers, Receive(c)
    PROVE  /\ pc[c] = "idle" /\ pc' = [pc EXCEPT ![c] = "ready"]
           /\ \E b \in SUBSET Receivable :
                 /\ b # {}
                 /\ place'    = [m \in Messages |-> IF m \in b THEN "inflight" ELSE place[m]]
                 /\ receives' = [m \in Messages |-> IF m \in b THEN receives[m] + 1 ELSE receives[m]]
                 /\ batch'    = [batch EXCEPT ![c] = b]
                 /\ handle'   = [handle EXCEPT ![c] =
                                    [m \in Messages |-> IF m \in b THEN receives[m] + 1 ELSE 0]]
           /\ UNCHANGED <<inbox, audits, running, current, envVars>>
<1>1. PICK b \in (SUBSET Receivable) \ {{}} :
         /\ place'    = [m \in Messages |-> IF m \in b THEN "inflight" ELSE place[m]]
         /\ receives' = [m \in Messages |-> IF m \in b THEN receives[m] + 1 ELSE receives[m]]
         /\ batch'    = [batch EXCEPT ![c] = b]
         /\ handle'   = [handle EXCEPT ![c] =
                            [m \in Messages |-> IF m \in b THEN receives[m] + 1 ELSE 0]]
  BY DEF Receive
<1>2. b \in SUBSET Receivable /\ b # {}
  BY <1>1
<1> QED
  BY <1>1, <1>2 DEF Receive

-------------------------------------------------------------------------------
(* Types *)

LEMMA TypesStep == Types /\ Held /\ [Next]_vars => Types'
<1> SUFFICES ASSUME Types, Held, [Next]_vars PROVE Types'
  OBVIOUS
<1> USE ConstantsAssumption
<1>1. CASE UNCHANGED vars
  BY <1>1 DEF vars, Types
<1>2. ASSUME NEW m \in Messages, QueueStep(m) PROVE Types'
  <2>1. receives' \in [Messages -> 0..MaxReceives]
    <3>1. receives' = receives \/ receives' = [receives EXCEPT ![m] = @ + 1]
      BY <1>2, QueueStepFacts
    <3>2. receives'[m] \in 0..MaxReceives
      BY <1>2, ReceivesGrow
    <3> QED
      BY <3>1, <3>2 DEF Types
  <2>2. place' \in [Messages -> Places]
    BY <1>2, QueueStepFacts DEF Types, Places
  <2>3. UNCHANGED <<inbox, audits, consumerVars, envVars>>
    BY <1>2, QueueStepFacts
  <2> QED
    BY <2>1, <2>2, <2>3 DEF Types, consumerVars, envVars
<1>3. ASSUME NEW e \in Events, Prune(e) PROVE Types'
  BY <1>3 DEF Prune, Types, queueVars, consumerVars, envVars
<1>4. ASSUME NEW c \in Consumers, Receive(c) PROVE Types'
  <2>1. PICK b \in SUBSET Receivable :
           /\ place'    = [m \in Messages |-> IF m \in b THEN "inflight" ELSE place[m]]
           /\ receives' = [m \in Messages |-> IF m \in b THEN receives[m] + 1 ELSE receives[m]]
           /\ batch'    = [batch EXCEPT ![c] = b]
           /\ handle'   = [handle EXCEPT ![c] =
                              [m \in Messages |-> IF m \in b THEN receives[m] + 1 ELSE 0]]
    BY <1>4, ReceiveFacts
  <2>2. /\ pc' = [pc EXCEPT ![c] = "ready"]
        /\ UNCHANGED <<inbox, audits, running, current, kind, faults, outages>>
    BY <1>4, ReceiveFacts DEF envVars
  <2>3. b \subseteq Messages /\ \A m \in b : receives[m] < MaxReceives
    BY DEF Receivable
  <2>4. \A m \in b : receives[m] + 1 \in 0..MaxReceives
    BY <2>3 DEF Types
  <2>5. place' \in [Messages -> Places] /\ receives' \in [Messages -> 0..MaxReceives]
    BY <2>1, <2>4 DEF Types, Places
  <2>6. handle' \in [Consumers -> [Messages -> 0..MaxReceives]]
    BY <2>1, <2>4 DEF Types
  <2>7. batch' \in [Consumers -> SUBSET Messages]
    BY <2>1, <2>3 DEF Types
  <2> QED
    BY <2>2, <2>5, <2>6, <2>7 DEF Types, Stages
<1>5. ASSUME NEW c \in Consumers, Drops(c) PROVE Types'
  <2>1. running' \in [Consumers -> BOOLEAN] /\ outages' \in 0..MaxOutages
    <3>1. CASE Crash(c)
      BY <3>1 DEF Crash, Types
    <3>2. ASSUME NEW m \in Messages, ParseFails(c, m) PROVE UNCHANGED <<running, outages>>
      BY <3>2 DEF ParseFails, envVars
    <3> QED
      BY <1>5, <3>1, <3>2 DEF Drops, Types
  <2>2. NoHandles \in [Messages -> 0..MaxReceives]
    BY DEF NoHandles
  <2>3. PICK stage \in {"idle", "down"} : DropBatch(c, stage)
    BY <1>5, DropFacts
  <2>4. /\ pc' \in [Consumers -> Stages] /\ batch' \in [Consumers -> SUBSET Messages]
        /\ handle' \in [Consumers -> [Messages -> 0..MaxReceives]]
        /\ current' \in [Consumers -> SUBSET Messages]
    BY <2>2, <2>3 DEF DropBatch, Types, Stages
  <2>5. UNCHANGED <<place, receives, inbox, audits, kind, faults>>
    BY <1>5, DropFacts DEF queueVars
  <2> QED
    BY <2>1, <2>4, <2>5 DEF Types
<1>6. ASSUME NEW c \in Consumers, Controls(c) PROVE Types'
  <2>1. running' \in [Consumers -> BOOLEAN] /\ outages' \in 0..MaxOutages
    <3>1. CASE Stop(c)
      BY <3>1 DEF Stop, Types
    <3>2. CASE Exit(c) \/ Restart(c)
      BY <3>2 DEF Exit, Restart, Types, envVars
    <3> QED
      BY <1>6, <3>1, <3>2 DEF Controls
  <2> QED
    BY <1>6, <2>1, ControlFacts DEF Types, Stages, queueVars
<1>7. ASSUME NEW c \in Consumers, NEW m \in Messages, Starts(c, m) PROVE Types'
  <2>1. \E stage \in Stages : pc' = [pc EXCEPT ![c] = stage]
    BY <1>7, StartFacts DEF Stages
  <2>2. current' = [current EXCEPT ![c] = {m}]
    BY <1>7, StartFacts
  <2>3. UNCHANGED <<place, receives, inbox, audits, running, batch, handle, kind, faults, outages>>
    BY <1>7, StartFacts DEF queueVars, envVars
  <2>4. pc' \in [Consumers -> Stages] /\ current' \in [Consumers -> SUBSET Messages]
    BY <2>1, <2>2 DEF Types
  <2> QED
    BY <2>3, <2>4 DEF Types
<1>8. ASSUME NEW c \in Consumers, NEW m \in Messages, Goes(c, m) PROVE Types'
  <2>1. pc' \in [Consumers -> Stages]
    BY <1>8, GoFacts DEF Types, Stages
  <2>2. inbox' \subseteq Events
    <3>1. Event[m] \in Events /\ inbox \subseteq Events
      BY DEF Types
    <3>2. inbox' = inbox \/ inbox' = inbox \cup {Event[m]}
      BY <1>8, GoFacts
    <3> QED
      BY <3>1, <3>2
  <2>3. audits' \in [Messages -> Nat]
    <3>1. audits' = audits \/ audits' = [audits EXCEPT ![m] = @ + 1]
      BY <1>8, GoFacts DEF WriteAudit
    <3> QED
      BY <3>1 DEF Types
  <2> QED
    BY <1>8, <2>1, <2>2, <2>3, GoFacts DEF Types, queueVars, envVars
<1>9. ASSUME NEW c \in Consumers, NEW m \in Messages, Ends(c, m) PROVE Types'
  <2>1. /\ batch' = [batch EXCEPT ![c] = @ \ {m}]
        /\ current' = [current EXCEPT ![c] = {}]
        /\ handle' = [handle EXCEPT ![c] = [@ EXCEPT ![m] = 0]]
        /\ pc' = [pc EXCEPT ![c] = IF batch[c] = {m} THEN "idle" ELSE "ready"]
    BY <1>9, EndKeeps, FinishFacts
  <2>2. pc' \in [Consumers -> Stages] /\ batch' \in [Consumers -> SUBSET Messages]
    BY <2>1 DEF Types, Stages
  <2>3. handle' \in [Consumers -> [Messages -> 0..MaxReceives]]
    BY <2>1 DEF Types
  <2>4. place' \in [Messages -> Places] /\ inbox' \subseteq Events
    BY <1>9, EndKeeps DEF Types, Places
  <2>5. UNCHANGED <<receives, audits, running, kind, faults, outages>>
    BY <1>9, EndKeeps DEF envVars
  <2>6. current' \in [Consumers -> SUBSET Messages]
    BY <2>1 DEF Types
  <2> QED
    BY <2>2, <2>3, <2>4, <2>5, <2>6 DEF Types
<1> QED
  BY <1>1, <1>2, <1>3, <1>4, <1>5, <1>6, <1>7, <1>8, <1>9, NextSplits

(* A step of one consumer leaves what the others hold alone.                *)
LEMMA OthersKept ==
    ASSUME Types, Held, NEW c \in Consumers, NEW d \in Consumers \ {c},
           \/ Receive(c) \/ Drops(c) \/ Controls(c)
           \/ \E m \in Messages : Starts(c, m) \/ Goes(c, m) \/ Ends(c, m)
    PROVE  /\ pc'[d] = pc[d] /\ batch'[d] = batch[d]
           /\ handle'[d] = handle[d] /\ current'[d] = current[d]
<1>1. CASE Receive(c)
  BY <1>1, ReceiveFacts DEF Types
<1>2. CASE Drops(c) \/ Controls(c)
  BY <1>2, DropFacts, ControlFacts DEF DropBatch, Types
<1>3. ASSUME NEW m \in Messages, Starts(c, m) \/ Goes(c, m)
      PROVE  /\ pc'[d] = pc[d] /\ batch'[d] = batch[d]
             /\ handle'[d] = handle[d] /\ current'[d] = current[d]
  BY <1>3, StartFacts, GoFacts DEF Types
<1>4. ASSUME NEW m \in Messages, Ends(c, m)
      PROVE  /\ pc'[d] = pc[d] /\ batch'[d] = batch[d]
             /\ handle'[d] = handle[d] /\ current'[d] = current[d]
  BY <1>4, EndKeeps, FinishFacts DEF Types
<1> QED
  BY <1>1, <1>2, <1>3, <1>4

LEMMA HeldStep == Types /\ Held /\ [Next]_vars => Held'
<1> SUFFICES ASSUME Types, Held, [Next]_vars PROVE Held'
  OBVIOUS
<1>1. CASE UNCHANGED vars
  BY <1>1 DEF vars, Held, StageInv, WorkInv, HandleInv
<1>2. ASSUME NEW m \in Messages, QueueStep(m) PROVE Held'
  <2>1. UNCHANGED <<pc, batch, handle, current, kind>>
    BY <1>2, QueueStepFacts DEF consumerVars, envVars
  <2>2. \A n \in Messages : /\ receives[n] \in Nat /\ receives'[n] \in Nat
                            /\ receives'[n] >= receives[n]
    BY <1>2, ReceivesGrow, ConstantsAssumption DEF Types
  <2> QED
    BY <2>1, <2>2, ConstantsAssumption DEF Held, StageInv, WorkInv, HandleInv, Types
<1>3. ASSUME NEW e \in Events, Prune(e) PROVE Held'
  BY <1>3 DEF Prune, queueVars, consumerVars, envVars, Held, StageInv, WorkInv, HandleInv
<1>4. ASSUME NEW c \in Consumers,
             \/ Receive(c) \/ Drops(c) \/ Controls(c)
             \/ \E m \in Messages : Starts(c, m) \/ Goes(c, m) \/ Ends(c, m)
      PROVE  Held'
  <2> DEFINE Good(d) == StageInv(d) /\ WorkInv(d) /\ HandleInv(d)
  <2>1. kind' = kind
    BY <1>4, ReceiveFacts, DropFacts, ControlFacts, StartFacts, GoFacts, EndKeeps DEF envVars
  <2>2. \A m \in Messages : receives'[m] \in Nat /\ receives'[m] >= receives[m]
    <3>1. CASE Receive(c)
      <4>1. PICK b \in SUBSET Receivable :
               receives' = [m \in Messages |-> IF m \in b THEN receives[m] + 1 ELSE receives[m]]
        BY <3>1, ReceiveFacts
      <4>2. \A m \in Messages : receives[m] \in Nat
        BY ConstantsAssumption DEF Types
      <4> QED
        BY <4>1, <4>2
    <3>2. CASE ~Receive(c)
      <4>1. receives' = receives
        BY <1>4, <3>2, DropFacts, ControlFacts, StartFacts, GoFacts, EndKeeps DEF queueVars
      <4> QED
        BY <4>1, ConstantsAssumption DEF Types
    <3> QED
      BY <3>1, <3>2
  <2>3. ASSUME NEW d \in Consumers \ {c} PROVE Good(d)'
    <3>1. /\ pc'[d] = pc[d] /\ batch'[d] = batch[d]
          /\ handle'[d] = handle[d] /\ current'[d] = current[d]
      BY <1>4, OthersKept
    <3>2. HandleInv(d)'
      BY <2>2, <3>1, ConstantsAssumption DEF Held, HandleInv, Types
    <3> QED
      BY <2>1, <3>1, <3>2 DEF Held, StageInv, WorkInv
  <2>4. ASSUME Receive(c) PROVE Good(c)'
    <3>1. PICK b \in SUBSET Receivable :
             /\ b # {}
             /\ receives' = [m \in Messages |-> IF m \in b THEN receives[m] + 1 ELSE receives[m]]
             /\ batch'    = [batch EXCEPT ![c] = b]
             /\ handle'   = [handle EXCEPT ![c] =
                                [m \in Messages |-> IF m \in b THEN receives[m] + 1 ELSE 0]]
      BY <2>4, ReceiveFacts
    <3>2. /\ pc'[c] = "ready" /\ batch'[c] = b /\ current'[c] = {}
          /\ handle'[c] = [m \in Messages |-> IF m \in b THEN receives[m] + 1 ELSE 0]
      BY <2>4, <3>1, ReceiveFacts DEF Types, Held, StageInv
    <3>3. HandleInv(c)'
      BY <2>2, <3>1, <3>2, ConstantsAssumption DEF HandleInv, Types
    <3> QED
      BY <3>1, <3>2, <3>3 DEF StageInv, WorkInv
  <2>5. ASSUME Drops(c) PROVE Good(c)'
    <3>1. /\ pc'[c] \in {"idle", "down"} /\ batch'[c] = {} /\ current'[c] = {}
          /\ handle'[c] = NoHandles
      BY <2>5, DropFacts DEF DropBatch, Types
    <3> QED
      BY <3>1 DEF StageInv, WorkInv, HandleInv, NoHandles
  <2>6. ASSUME Controls(c) PROVE Good(c)'
    <3>1. /\ pc'[c] = pc[c] \/ {pc[c], pc'[c]} \subseteq {"idle", "down"}
          /\ batch'[c] = batch[c] /\ current'[c] = current[c]
          /\ handle'[c] = handle[c] /\ receives' = receives
      BY <2>6, ControlFacts DEF Types, queueVars
    <3> QED
      BY <2>1, <3>1 DEF Held, StageInv, WorkInv, HandleInv
  <2>7. ASSUME NEW m \in Messages, Starts(c, m) PROVE Good(c)'
    <3>1. /\ m \in batch[c] /\ batch'[c] = batch[c] /\ current'[c] = {m}
          /\ handle'[c] = handle[c] /\ receives' = receives
          /\ pc'[c] \in {"reserving", "processing", "deleting"}
          /\ pc'[c] # "deleting" => kind[m] \in {"advice", "other"}
      BY <2>7, StartFacts DEF Types, queueVars
    <3> QED
      BY <2>1, <3>1 DEF Held, StageInv, WorkInv, HandleInv
  <2>8. ASSUME NEW m \in Messages, Goes(c, m) PROVE Good(c)'
    <3>1. /\ m \in current[c] /\ batch'[c] = batch[c] /\ current'[c] = current[c]
          /\ handle'[c] = handle[c] /\ receives' = receives
          /\ pc[c] \in {"reserving", "processing"}
          /\ pc'[c] \in {"processing", "deleting", "undoing"}
          /\ pc'[c] = "undoing" => kind[m] = "advice"
      BY <2>8, GoFacts DEF Types, queueVars
    <3>2. current[c] = {m}
      BY <3>1 DEF Held, StageInv
    <3> QED
      BY <2>1, <3>1, <3>2 DEF Held, StageInv, WorkInv, HandleInv
  <2>9. ASSUME NEW m \in Messages, Ends(c, m) PROVE Good(c)'
    <3>1. /\ batch'[c] = batch[c] \ {m} /\ current'[c] = {}
          /\ handle'[c] = [handle[c] EXCEPT ![m] = 0]
          /\ pc'[c] = IF batch[c] = {m} THEN "idle" ELSE "ready"
          /\ m \in batch[c] /\ receives' = receives
      BY <2>9, EndKeeps, FinishFacts DEF Types
    <3>2. StageInv(c)'
      BY <3>1 DEF StageInv
    <3>3. HandleInv(c)'
      BY <3>1 DEF Held, HandleInv, Types
    <3> QED
      BY <3>1, <3>2, <3>3 DEF WorkInv
  <2>10. Good(c)'
    BY <1>4, <2>4, <2>5, <2>6, <2>7, <2>8, <2>9
  <2> QED
    BY <2>3, <2>10 DEF Held
<1> QED
  BY <1>1, <1>2, <1>3, <1>4, NextSplits

LEMMA Typing == Spec => [](Types /\ Held)
<1>1. Init => Types /\ Held
  <2> SUFFICES ASSUME Init PROVE Types /\ Held
    OBVIOUS
  <2>1. PICK s \in Scenarios : kind = s.kind /\ faults = s.faults
    BY DEF Init
  <2>2. s = [kind |-> kind, faults |-> faults] /\ kind \in [Messages -> Kinds]
    BY <2>1, ConstantsAssumption
  <2> QED
    BY <2>2, ConstantsAssumption
    DEF Init, Types, Held, StageInv, WorkInv, HandleInv, NoHandles, Places, Stages
<1> QED
  BY <1>1, TypesStep, HeldStep, PTL DEF Spec

-------------------------------------------------------------------------------
(* Audit entries and receipts *)

(* Consumers whose receipt of m may still be audited. *)
Owing(m) == {c \in Consumers : /\ m \in batch[c]
                               /\ ~(m \in current[c] /\ pc[c] \in {"undoing", "deleting"})}

(* Every receipt is behind one audit entry at most, past or still to come. *)
Accounted(m) ==
    /\ IsFiniteSet(Owing(m))
    /\ audits[m] + Cardinality(Owing(m)) <= receives[m]

AllAccounted == \A m \in Messages : Accounted(m)

LEMMA SubsetCard ==
    ASSUME NEW S, IsFiniteSet(S), NEW T \in SUBSET S
    PROVE  /\ IsFiniteSet(T) /\ Cardinality(T) \in Nat /\ Cardinality(S) \in Nat
           /\ Cardinality(T) <= Cardinality(S)
BY FS_Subset, FS_CardinalityType

LEMMA FewerOwing ==
    ASSUME Types, NEW m \in Messages, Accounted(m), NEW T \in SUBSET Owing(m)
    PROVE  IsFiniteSet(T) /\ audits[m] + Cardinality(T) <= receives[m]
<1>1. /\ IsFiniteSet(T) /\ Cardinality(T) \in Nat /\ Cardinality(Owing(m)) \in Nat
      /\ Cardinality(T) <= Cardinality(Owing(m))
  BY SubsetCard DEF Accounted
<1>2. audits[m] \in Nat /\ receives[m] \in Nat
  BY ConstantsAssumption DEF Types
<1> QED
  BY <1>1, <1>2 DEF Accounted

LEMMA OneFewerOwing ==
    ASSUME Types, NEW m \in Messages, Accounted(m), NEW c \in Owing(m),
           NEW T \in SUBSET (Owing(m) \ {c})
    PROVE  IsFiniteSet(T) /\ audits[m] + 1 + Cardinality(T) <= receives[m]
<1>1. /\ IsFiniteSet(Owing(m) \ {c})
      /\ Cardinality(Owing(m) \ {c}) = Cardinality(Owing(m)) - 1
  BY FS_RemoveElement DEF Accounted
<1>2. /\ IsFiniteSet(T) /\ Cardinality(T) \in Nat /\ Cardinality(Owing(m) \ {c}) \in Nat
      /\ Cardinality(T) <= Cardinality(Owing(m) \ {c})
  BY <1>1, SubsetCard
<1>3. audits[m] \in Nat /\ receives[m] \in Nat /\ Cardinality(Owing(m)) \in Nat
  BY ConstantsAssumption, FS_CardinalityType DEF Types, Accounted
<1> QED
  BY <1>1, <1>2, <1>3 DEF Accounted

LEMMA OneMoreOwing ==
    ASSUME Types, NEW m \in Messages, Accounted(m), NEW c \in Consumers \ Owing(m)
    PROVE  /\ IsFiniteSet(Owing(m) \cup {c})
           /\ audits[m] + Cardinality(Owing(m) \cup {c}) <= receives[m] + 1
<1>1. /\ IsFiniteSet(Owing(m) \cup {c})
      /\ Cardinality(Owing(m) \cup {c}) = Cardinality(Owing(m)) + 1
  BY FS_AddElement DEF Accounted
<1>2. audits[m] \in Nat /\ receives[m] \in Nat /\ Cardinality(Owing(m)) \in Nat
  BY ConstantsAssumption, FS_CardinalityType DEF Types, Accounted
<1> QED
  BY <1>1, <1>2 DEF Accounted

LEMMA AccountedStep == Types /\ Held /\ AllAccounted /\ [Next]_vars => AllAccounted'
<1> SUFFICES ASSUME Types, Held, [Next]_vars, NEW n \in Messages, Accounted(n)
             PROVE  Accounted(n)'
  BY DEF AllAccounted
<1>1. ASSUME Owing(n)' \subseteq Owing(n), audits'[n] = audits[n], receives'[n] = receives[n]
      PROVE  Accounted(n)'
  BY <1>1, FewerOwing DEF Accounted
<1>0. ASSUME NEW m \in Messages, QueueStep(m) PROVE Accounted(n)'
  <2>1. UNCHANGED <<audits, consumerVars>>
    BY <1>0, QueueStepFacts
  <2>2. Owing(n)' = Owing(n)
    BY <2>1 DEF consumerVars, Owing
  <2>3. receives'[n] >= receives[n] /\ receives'[n] \in Nat /\ receives[n] \in Nat
    BY <1>0, ReceivesGrow, ConstantsAssumption DEF Types
  <2>4. audits[n] \in Nat /\ Cardinality(Owing(n)) \in Nat
    BY ConstantsAssumption, FS_CardinalityType DEF Types, Accounted
  <2> QED
    BY <2>1, <2>2, <2>3, <2>4 DEF Accounted
<1>2. CASE UNCHANGED vars
  <2>1. Owing(n)' = Owing(n)
    BY <1>2 DEF vars, Owing
  <2> QED
    BY <1>1, <1>2, <2>1 DEF vars
<1>3. CASE \E e \in Events : Prune(e)
  <2>1. UNCHANGED <<receives, audits, consumerVars>>
    BY <1>3 DEF Prune, queueVars
  <2>2. Owing(n)' = Owing(n)
    BY <2>1 DEF consumerVars, Owing
  <2> QED
    BY <1>1, <2>1, <2>2
<1>4. ASSUME NEW c \in Consumers,
             \/ Receive(c) \/ Drops(c) \/ Controls(c)
             \/ \E m \in Messages : Starts(c, m) \/ Goes(c, m) \/ Ends(c, m)
      PROVE  Accounted(n)'
  <2>1. \A d \in Consumers \ {c} : d \in Owing(n)' <=> d \in Owing(n)
    BY <1>4, OthersKept DEF Owing
  <2>2. Owing(n)' \subseteq Consumers /\ Owing(n) \subseteq Consumers
    BY DEF Owing
  <2>3. ASSUME c \in Owing(n)' => c \in Owing(n) PROVE Owing(n)' \subseteq Owing(n)
    BY <2>1, <2>2, <2>3
  <2>4. CASE Receive(c)
    <3>1. PICK b \in SUBSET Receivable :
             /\ receives' = [m \in Messages |-> IF m \in b THEN receives[m] + 1 ELSE receives[m]]
             /\ batch'    = [batch EXCEPT ![c] = b]
      BY <2>4, ReceiveFacts
    <3>2. c \notin Owing(n) /\ audits' = audits
      BY <2>4, ReceiveFacts DEF Held, StageInv, Owing
    <3>3. CASE n \in b
      <4>1. receives'[n] = receives[n] + 1
        BY <3>1, <3>3
      <4>2. Owing(n)' \subseteq Owing(n) \cup {c}
        BY <2>1, <2>2
      <4>3. IsFiniteSet(Owing(n)') /\ Cardinality(Owing(n)') <= Cardinality(Owing(n) \cup {c})
            /\ Cardinality(Owing(n)') \in Nat /\ Cardinality(Owing(n) \cup {c}) \in Nat
        BY <3>2, <4>2, OneMoreOwing, SubsetCard
      <4>4. audits[n] \in Nat /\ receives[n] \in Nat
        BY ConstantsAssumption DEF Types
      <4> QED
        BY <3>2, <4>1, <4>3, <4>4, OneMoreOwing DEF Accounted
    <3>4. CASE n \notin b
      <4>1. c \notin Owing(n)'
        BY <3>1, <3>4 DEF Owing, Types
      <4> QED
        BY <1>1, <2>3, <3>1, <3>2, <3>4, <4>1
    <3> QED
      BY <3>3, <3>4
  <2>5. CASE Drops(c)
    <3>1. c \notin Owing(n)'
      BY <2>5, DropFacts DEF DropBatch, Owing, Types
    <3> QED
      BY <1>1, <2>3, <2>5, <3>1, DropFacts DEF queueVars
  <2>6. CASE Controls(c)
    <3>1. c \in Owing(n)' => c \in Owing(n)
      BY <2>6, ControlFacts DEF Owing, Types
    <3> QED
      BY <1>1, <2>3, <2>6, <3>1, ControlFacts DEF queueVars
  <2>7. ASSUME NEW m \in Messages, Starts(c, m) PROVE Accounted(n)'
    <3>1. c \in Owing(n)' => c \in Owing(n)
      BY <2>7, StartFacts DEF Owing, Types
    <3> QED
      BY <1>1, <2>3, <2>7, <3>1, StartFacts DEF queueVars
  <2>8. ASSUME NEW m \in Messages, Ends(c, m) PROVE Accounted(n)'
    <3>1. current[c] = {m} /\ batch'[c] = batch[c] \ {m}
      BY <2>8, EndKeeps, FinishFacts DEF Types
    <3>2. c \in Owing(n)' => c \in Owing(n)
      BY <3>1 DEF Owing
    <3> QED
      BY <1>1, <2>3, <2>8, <3>2, EndKeeps
  <2>9. ASSUME NEW m \in Messages, Goes(c, m) PROVE Accounted(n)'
    <3>1. /\ pc[c] \in {"reserving", "processing"} /\ m \in current[c]
          /\ batch'[c] = batch[c] /\ current'[c] = current[c] /\ receives' = receives
      BY <2>9, GoFacts DEF queueVars
    <3>2. c \in Owing(n)' => c \in Owing(n)
      BY <3>1 DEF Owing
    <3>3. CASE audits'[n] = audits[n]
      BY <1>1, <2>3, <3>1, <3>2, <3>3
    <3>4. CASE audits'[n] # audits[n]
      <4>1. /\ n = m /\ audits'[n] = audits[n] + 1 /\ pc[c] = "processing"
            /\ pc'[c] \in {"undoing", "deleting"}
        BY <2>9, <3>4, GoFacts DEF WriteAudit, Goes, Insert, InsertFails, Process, ProcessFails,
          At, Goto, Types
      <4>2. m \in batch[c]
        BY <3>1 DEF Held, StageInv
      <4>3. c \in Owing(n) /\ c \notin Owing(n)'
        BY <3>1, <4>1, <4>2 DEF Owing
      <4>4. Owing(n)' \subseteq Owing(n) \ {c}
        BY <2>1, <2>2, <4>3
      <4> QED
        BY <3>1, <4>1, <4>3, <4>4, OneFewerOwing DEF Accounted
    <3> QED
      BY <3>3, <3>4
  <2> QED
    BY <1>4, <2>4, <2>5, <2>6, <2>7, <2>8, <2>9
<1> QED
  BY <1>0, <1>2, <1>3, <1>4, NextSplits

LEMMA Accounting == Spec => []AllAccounted
<1>1. Init => AllAccounted
  <2> SUFFICES ASSUME Init, NEW m \in Messages PROVE Accounted(m)
    BY DEF AllAccounted
  <2>1. Owing(m) = {}
    BY DEF Init, Owing
  <2>2. IsFiniteSet(Owing(m)) /\ Cardinality(Owing(m)) = 0
    BY <2>1, FS_EmptySet
  <2> QED
    BY <2>2 DEF Init, Accounted
<1> QED
  BY <1>1, AccountedStep, Typing, PTL DEF Spec

(* However often a message is handled, retried or audited twice by a lost   *)
(* answer: one receipt writes at most one audit entry, at any number of     *)
(* consumers that hold the message at the same time.                        *)
THEOREM ReceiptsPayForAudits == Spec => []AuditsPerReceipt
<1>1. Types /\ AllAccounted => AuditsPerReceipt
  <2> SUFFICES ASSUME Types, NEW m \in Messages, Accounted(m) PROVE audits[m] <= receives[m]
    BY DEF AuditsPerReceipt, AllAccounted
  <2>1. audits[m] \in Nat /\ receives[m] \in Nat /\ Cardinality(Owing(m)) \in Nat
    BY ConstantsAssumption, FS_CardinalityType DEF Types, Accounted
  <2> QED
    BY <2>1 DEF Accounted
<1> QED
  BY <1>1, Typing, Accounting, PTL

(* TypeOK; no message has more audit entries than the redrive policy grants *)
(* it receipts.                                                             *)
THEOREM TypeCorrect == Spec => []TypeOK
<1>1. Types /\ AuditsPerReceipt => TypeOK
  <2> SUFFICES ASSUME Types, AuditsPerReceipt PROVE audits \in [Messages -> 0..MaxReceives]
    BY DEF Types, TypeOK
  <2>1. ASSUME NEW m \in Messages PROVE audits[m] \in 0..MaxReceives
    BY ConstantsAssumption DEF Types, AuditsPerReceipt
  <2> QED
    BY <2>1 DEF Types
<1> QED
  BY <1>1, Typing, ReceiptsPayForAudits, PTL

-------------------------------------------------------------------------------
(* One holder, and an orderly shutdown *)

LEMMA FaultsFixed == [Next]_vars => UNCHANGED <<kind, faults>>
<1> SUFFICES ASSUME [Next]_vars PROVE UNCHANGED <<kind, faults>>
  OBVIOUS
<1>1. CASE UNCHANGED vars
  BY <1>1 DEF vars
<1>2. CASE (\E m \in Messages : QueueStep(m)) \/ \E e \in Events : Prune(e)
  BY <1>2, QueueStepFacts DEF Prune, envVars
<1>3. ASSUME NEW c \in Consumers, Receive(c) \/ Drops(c) \/ Controls(c)
      PROVE  UNCHANGED <<kind, faults>>
  BY <1>3, ReceiveFacts, DropFacts, ControlFacts DEF envVars
<1>4. ASSUME NEW c \in Consumers, NEW m \in Messages, Starts(c, m) \/ Goes(c, m) \/ Ends(c, m)
      PROVE  UNCHANGED <<kind, faults>>
  BY <1>4, StartFacts, GoFacts, EndKeeps DEF envVars
<1> QED
  BY <1>1, <1>2, <1>3, <1>4, NextSplits

(* While no timeout passes during the handling, a message of a batch is     *)
(* invisible, its handle is the latest, and no other consumer holds it.     *)
HeldAlone(c, m) ==
    /\ place[m] = "inflight"
    /\ handle[c][m] = receives[m]
    /\ \A d \in Consumers : m \in batch[d] => d = c

OneHolder == "slow" \notin faults => \A c \in Consumers : \A m \in batch[c] : HeldAlone(c, m)

LEMMA OneHolderStep == Types /\ Held /\ OneHolder /\ [Next]_vars => OneHolder'
<1> SUFFICES ASSUME Types, Held, OneHolder, [Next]_vars, "slow" \notin faults'
             PROVE  \A c \in Consumers : \A m \in batch'[c] : HeldAlone(c, m)'
  BY DEF OneHolder
<1>1. "slow" \notin faults /\ \A c \in Consumers : \A m \in batch[c] : HeldAlone(c, m)
  BY FaultsFixed DEF OneHolder
<1>2. CASE UNCHANGED vars
  BY <1>1, <1>2 DEF vars, HeldAlone
<1>3. ASSUME NEW n \in Messages, QueueStep(n)
      PROVE  \A c \in Consumers : \A m \in batch'[c] : HeldAlone(c, m)'
  <2>1. UNCHANGED <<batch, handle>>
    BY <1>3, QueueStepFacts DEF consumerVars
  <2>2. \A c \in Consumers : n \notin batch[c]
    BY <1>1, <1>3 DEF QueueStep, Send, Expire, DeadLetter, ReceiveLost, Receivable, HeldAlone
  <2>3. \A m \in Messages \ {n} : place'[m] = place[m] /\ receives'[m] = receives[m]
    BY <1>3, QueueStepFacts, ReceivesGrow DEF Types
  <2> QED
    BY <1>1, <2>1, <2>2, <2>3 DEF HeldAlone, Types
<1>4. CASE \E e \in Events : Prune(e)
  BY <1>1, <1>4 DEF Prune, queueVars, consumerVars, HeldAlone
<1>5. ASSUME NEW c \in Consumers,
             \/ Receive(c) \/ Drops(c) \/ Controls(c)
             \/ \E m \in Messages : Starts(c, m) \/ Goes(c, m) \/ Ends(c, m)
      PROVE  \A d \in Consumers : \A m \in batch'[d] : HeldAlone(d, m)'
  <2>1. \A d \in Consumers \ {c} : batch'[d] = batch[d] /\ handle'[d] = handle[d]
    BY <1>5, OthersKept
  <2>2. CASE Receive(c)
    <3>1. PICK b \in SUBSET Receivable :
             /\ place'    = [m \in Messages |-> IF m \in b THEN "inflight" ELSE place[m]]
             /\ receives' = [m \in Messages |-> IF m \in b THEN receives[m] + 1 ELSE receives[m]]
             /\ batch'    = [batch EXCEPT ![c] = b]
             /\ handle'   = [handle EXCEPT ![c] =
                                [m \in Messages |-> IF m \in b THEN receives[m] + 1 ELSE 0]]
      BY <2>2, ReceiveFacts
    <3>2. batch'[c] = b /\ b \subseteq Messages /\ \A m \in b : place[m] = "visible"
      BY <3>1 DEF Types, Receivable
    <3>3. \A d \in Consumers \ {c} : batch[d] \cap b = {} /\ batch[d] \subseteq Messages
      BY <1>1, <3>2 DEF HeldAlone, Types
    <3>4. ASSUME NEW m \in b PROVE HeldAlone(c, m)'
      <4>1. place'[m] = "inflight" /\ receives'[m] = receives[m] + 1
        BY <3>1, <3>2
      <4>2. handle'[c][m] = receives[m] + 1
        BY <3>1, <3>2 DEF Types
      <4> QED
        BY <2>1, <3>3, <4>1, <4>2 DEF HeldAlone
    <3>5. ASSUME NEW d \in Consumers \ {c}, NEW m \in batch[d] PROVE HeldAlone(d, m)'
      <4>1. place'[m] = place[m] /\ receives'[m] = receives[m]
        BY <3>1, <3>3
      <4>2. m \notin batch'[c]
        BY <3>2, <3>3
      <4> QED
        BY <1>1, <2>1, <4>1, <4>2 DEF HeldAlone
    <3> QED
      BY <2>1, <3>2, <3>4, <3>5
  <2>3. ASSUME batch'[c] \subseteq batch[c], \A m \in batch'[c] : handle'[c][m] = handle[c][m],
               receives' = receives,
               \A d \in Consumers : \A m \in batch'[d] : place'[m] = place[m]
        PROVE  \A d \in Consumers : \A m \in batch'[d] : HeldAlone(d, m)'
    BY <1>1, <2>1, <2>3 DEF HeldAlone
  <2>4. CASE Drops(c)
    <3>1. batch'[c] = {} /\ UNCHANGED <<place, receives>>
      BY <2>4, DropFacts DEF DropBatch, queueVars, Types
    <3> QED
      BY <2>3, <3>1
  <2>5. CASE Controls(c)
    BY <2>3, <2>5, ControlFacts DEF queueVars
  <2>6. ASSUME NEW m \in Messages, Starts(c, m) \/ Goes(c, m)
        PROVE  \A d \in Consumers : \A n \in batch'[d] : HeldAlone(d, n)'
    BY <2>3, <2>6, StartFacts, GoFacts DEF queueVars
  <2>7. ASSUME NEW m \in Messages, Ends(c, m)
        PROVE  \A d \in Consumers : \A n \in batch'[d] : HeldAlone(d, n)'
    <3>1. /\ batch'[c] = batch[c] \ {m} /\ m \in batch[c] /\ receives' = receives
          /\ handle'[c] = [handle[c] EXCEPT ![m] = 0]
      <4>1. m \in current[c] /\ Finish(c, m) /\ receives' = receives
        BY <2>7, EndKeeps
      <4>2. /\ batch' = [batch EXCEPT ![c] = @ \ {m}] /\ m \in batch[c]
            /\ handle' = [handle EXCEPT ![c] = [@ EXCEPT ![m] = 0]]
        BY <4>1, FinishFacts
      <4> QED
        BY <4>1, <4>2 DEF Types
    <3>2. \A n \in Messages \ {m} : place'[n] = place[n]
      BY <2>7, EndKeeps DEF Types
    <3>3. \A d \in Consumers : \A n \in batch'[d] : n \in Messages \ {m}
      BY <1>1, <2>1, <3>1 DEF HeldAlone, Types
    <3> QED
      BY <2>3, <3>1, <3>2, <3>3 DEF Types
  <2> QED
    BY <1>5, <2>2, <2>4, <2>5, <2>6, <2>7
<1> QED
  BY <1>2, <1>3, <1>4, <1>5, NextSplits

LEMMA OneHolderInvariant == Spec => []OneHolder
<1>1. Init => OneHolder
  BY DEF Init, OneHolder
<1> QED
  BY <1>1, OneHolderStep, Typing, PTL DEF Spec

(* While no visibility timeout passes during the handling of a message, it  *)
(* is in the batch of one consumer at most, crashes and failures included.  *)
THEOREM OneConsumerHolds ==
    Spec => []("slow" \notin faults =>
                  \A c, d \in Consumers : c # d => batch[c] \cap batch[d] = {})
<1>1. OneHolder => ("slow" \notin faults =>
                       \A c, d \in Consumers : c # d => batch[c] \cap batch[d] = {})
  BY DEF OneHolder, HeldAlone
<1> QED
  BY <1>1, OneHolderInvariant, PTL

(* Under shutdowns alone, an audited message is deleted or about to be.     *)
AuditedAndGone ==
    faults \subseteq {"shutdown"} =>
        \A m \in Messages :
            \/ audits[m] = 0
            \/ /\ audits[m] = 1
               /\ \/ place[m] = "deleted"
                  \/ \E c \in Consumers : pc[c] = "deleting" /\ m \in current[c]

LEMMA AuditedAndGoneStep ==
    Types /\ Held /\ OneHolder /\ AuditedAndGone /\ [Next]_vars => AuditedAndGone'
<1> DEFINE Gone(m) == place[m] = "deleted" \/ \E c \in Consumers : pc[c] = "deleting" /\ m \in current[c]
<1> SUFFICES ASSUME Types, Held, OneHolder, AuditedAndGone, [Next]_vars,
                    faults' \subseteq {"shutdown"}, NEW n \in Messages
             PROVE  audits'[n] = 0 \/ (audits'[n] = 1 /\ Gone(n)')
  BY DEF AuditedAndGone
<1> USE DEF Gone
<1>1. faults \subseteq {"shutdown"} /\ (audits[n] = 0 \/ (audits[n] = 1 /\ Gone(n)))
  BY FaultsFixed DEF AuditedAndGone
<1>2. CASE UNCHANGED vars
  BY <1>1, <1>2 DEF vars
<1>3. ASSUME NEW m \in Messages, QueueStep(m) PROVE audits'[n] = 0 \/ (audits'[n] = 1 /\ Gone(n)')
  <2>1. UNCHANGED <<audits, pc, current>> /\ (place[n] = "deleted" => place'[n] = "deleted")
    BY <1>3, QueueStepFacts DEF consumerVars, Types
  <2> QED
    BY <1>1, <2>1
<1>4. CASE \E e \in Events : Prune(e)
  BY <1>1, <1>4 DEF Prune, queueVars, consumerVars
<1>5. ASSUME NEW c \in Consumers,
             \/ Receive(c) \/ Drops(c) \/ Controls(c)
             \/ \E m \in Messages : Starts(c, m) \/ Goes(c, m) \/ Ends(c, m)
      PROVE  audits'[n] = 0 \/ (audits'[n] = 1 /\ Gone(n)')
  <2>1. \A d \in Consumers \ {c} : pc'[d] = pc[d] /\ current'[d] = current[d]
    BY <1>5, OthersKept
  <2>2. ASSUME audits'[n] = audits[n], place[n] = "deleted" => place'[n] = "deleted",
               pc[c] # "deleting"
        PROVE  audits'[n] = 0 \/ (audits'[n] = 1 /\ Gone(n)')
    BY <1>1, <2>1, <2>2
  <2>3. CASE Receive(c)
    <3>1. place[n] = "deleted" => place'[n] = "deleted"
      BY <2>3, ReceiveFacts DEF Receivable
    <3> QED
      BY <2>2, <2>3, <3>1, ReceiveFacts
  <2>4. CASE Drops(c)
    BY <1>1, <2>2, <2>4, DropFacts DEF queueVars
  <2>5. CASE Controls(c)
    <3>1. UNCHANGED <<audits, place, current>> /\ (pc[c] = "deleting" => pc'[c] = "deleting")
      BY <2>5, ControlFacts DEF queueVars, Types
    <3> QED
      BY <1>1, <2>1, <3>1
  <2>6. ASSUME NEW m \in Messages, Starts(c, m)
        PROVE  audits'[n] = 0 \/ (audits'[n] = 1 /\ Gone(n)')
    BY <2>2, <2>6, StartFacts DEF queueVars
  <2>7. ASSUME NEW m \in Messages, Goes(c, m)
        PROVE  audits'[n] = 0 \/ (audits'[n] = 1 /\ Gone(n)')
    <3>1. pc[c] # "deleting" /\ place' = place /\ m \in current[c] /\ current' = current
      BY <2>7, GoFacts DEF queueVars
    <3>2. CASE audits'[n] = audits[n]
      BY <2>2, <3>1, <3>2
    <3>3. CASE audits'[n] # audits[n]
      <4>1. n = m /\ audits'[n] = audits[n] + 1 /\ pc'[c] = "deleting"
        BY <1>1, <2>7, <3>3 DEF WriteAudit, Goes, Insert, InsertFails, Process, ProcessFails,
          At, Goto, Types
      <4>2. m \in batch[c] /\ HeldAlone(c, m)
        BY <1>1, <3>1 DEF Held, StageInv, OneHolder
      <4>3. \A d \in Consumers : m \in current[d] => d = c
        BY <4>2 DEF Held, StageInv, HeldAlone
      <4>4. audits[n] = 0
        BY <1>1, <3>1, <4>1, <4>2, <4>3 DEF HeldAlone
      <4> QED
        BY <3>1, <4>1, <4>4
    <3> QED
      BY <3>2, <3>3
  <2>8. ASSUME NEW m \in Messages, Ends(c, m)
        PROVE  audits'[n] = 0 \/ (audits'[n] = 1 /\ Gone(n)')
    <3>1. current[c] = {m} /\ m \in batch[c] /\ current'[c] = {} /\ audits' = audits
      BY <2>8, EndKeeps, FinishFacts DEF Types
    <3>2. CASE Undo(c, m) \/ UndoFails(c, m)
      BY <2>2, <3>1, <3>2 DEF Undo, UndoFails, At, queueVars
    <3>3. CASE DeleteMessage(c, m)
      <4>1. HeldAlone(c, m)
        BY <1>1, <3>1 DEF OneHolder
      <4>2. place' = [place EXCEPT ![m] = IF @ = "dead" THEN "dead" ELSE "deleted"]
        BY <3>3, <4>1 DEF DeleteMessage, HeldAlone
      <4>3. place'[m] = "deleted" /\ (place[n] = "deleted" => place'[n] = "deleted")
        BY <4>1, <4>2 DEF HeldAlone, Types
      <4> QED
        BY <1>1, <2>1, <3>1, <4>3
    <3> QED
      BY <1>1, <2>8, <3>2, <3>3 DEF Ends, DeleteFails
  <2> QED
    BY <1>5, <2>3, <2>4, <2>5, <2>6, <2>7, <2>8
<1> QED
  BY <1>2, <1>3, <1>4, <1>5, NextSplits

LEMMA AuditedAndGoneInvariant == Spec => []AuditedAndGone
<1>1. Init => AuditedAndGone
  BY DEF Init, AuditedAndGone
<1> QED
  BY <1>1, AuditedAndGoneStep, OneHolderInvariant, Typing, PTL DEF Spec

(* Orderly shutdowns, however many and of however many consumers, repeat no *)
(* message: each is audited once at most, and what a consumer still holds   *)
(* is invisible to the others.                                              *)
THEOREM OrderlyShutdown == Spec => []ShutdownRepeatsNothing
<1>1. OneHolder /\ AuditedAndGone => ShutdownRepeatsNothing
  BY DEF OneHolder, HeldAlone, AuditedAndGone, ShutdownRepeatsNothing
<1> QED
  BY <1>1, OneHolderInvariant, AuditedAndGoneInvariant, PTL

-------------------------------------------------------------------------------
(* Losses *)

SafeFaults ==
    /\ faults \cap {"reserve", "reserveLost", "policies"} = {}
    /\ "slow" \in faults => faults \cap {"crash", "audit"} = {}

Live        == {"visible", "inflight", "dead"}
Deleting(m) == \E c \in Consumers : pc[c] = "deleting" /\ m \in current[c]
Gone(m)     == place[m] = "deleted" \/ Deleting(m)
Alive(m)    == place[m] \in Live /\ ~Deleting(m)

(* m is not lost, and no consumer is about to find its row by an INSERT.    *)
Solid(m)    == Alive(m) /\ \A c \in Consumers : m \in current[c] => pc[c] # "reserving"

InWork(e)   == \E c \in Consumers : pc[c] = "processing" /\ current[c] \cap MessagesOf(e) # {}

LEMMA MessagesFixed ==
    ASSUME [Next]_vars, NEW e \in Events
    PROVE  MessagesOf(e)' = MessagesOf(e)
BY FaultsFixed DEF MessagesOf

LEMMA AuditsGrow ==
    ASSUME Types, [Next]_vars, NEW m \in Messages
    PROVE  audits'[m] >= audits[m]
<1>1. audits[m] \in Nat
  BY DEF Types
<1>2. audits' = audits \/ \E n \in Messages : WriteAudit(n)
  <2>1. CASE UNCHANGED vars
    BY <2>1 DEF vars
  <2>2. CASE (\E n \in Messages : QueueStep(n)) \/ \E e \in Events : Prune(e)
    BY <2>2, QueueStepFacts DEF Prune
  <2>3. ASSUME NEW c \in Consumers, Receive(c) \/ Drops(c) \/ Controls(c) PROVE audits' = audits
    BY <2>3, ReceiveFacts, DropFacts, ControlFacts
  <2>4. ASSUME NEW c \in Consumers, NEW n \in Messages, Starts(c, n) \/ Goes(c, n) \/ Ends(c, n)
        PROVE  audits' = audits \/ WriteAudit(n)
    BY <2>4, StartFacts, GoFacts, EndKeeps
  <2> QED
    BY <2>1, <2>2, <2>3, <2>4, NextSplits
<1>3. CASE audits' = audits
  BY <1>1, <1>3
<1>4. ASSUME NEW n \in Messages, WriteAudit(n) PROVE audits'[m] >= audits[m]
  BY <1>1, <1>4 DEF WriteAudit, Types
<1> QED
  BY <1>2, <1>3, <1>4

LEMMA AuditedStays ==
    ASSUME Types, Held, [Next]_vars, NEW e \in Events, Audited(e)
    PROVE  Audited(e)'
<1>1. PICK m \in MessagesOf(e) : audits[m] > 0
  BY DEF Audited
<1>2. m \in Messages /\ audits[m] \in Nat /\ audits'[m] \in Int
  <2>1. Types'
    BY TypesStep
  <2> QED
    BY <1>1, <2>1 DEF MessagesOf, Types
<1> QED
  BY <1>1, <1>2, AuditsGrow, MessagesFixed DEF Audited

(* A message in work whose key is that of an advice event is one of its     *)
(* messages.                                                                *)
LEMMA SameKeySameKind ==
    ASSUME Types, Held, NEW c \in Consumers, NEW m \in current[c],
           pc[c] \in {"reserving", "processing"}, MessagesOf(Event[m]) # {}
    PROVE  m \in MessagesOf(Event[m])
<1>1. m \in Messages /\ kind[m] \in {"advice", "other"}
  BY DEF Types, Held, WorkInv
<1>2. PICK n \in Messages : Event[n] = Event[m] /\ kind[n] = "advice"
  BY DEF MessagesOf
<1>3. kind[m] = kind[n]
  <2> DEFINE s == [kind |-> kind, faults |-> faults]
  <2>1. s \in Scenarios
    BY DEF Types
  <2>2. s.kind = kind
    OBVIOUS
  <2>3. {s.kind[m], s.kind[n]} \subseteq {"advice", "other"} => s.kind[m] = s.kind[n]
    BY <1>1, <1>2, <2>1, CopiesAgree
  <2> QED
    BY <1>1, <1>2, <2>2, <2>3
<1> QED
  BY <1>1, <1>2, <1>3 DEF MessagesOf

(* What a step of a message in work does while its event stays unaudited.   *)
LEMMA UnauditedGoes ==
    ASSUME Types, Held, [Next]_vars, SafeFaults, NEW e \in Events, ~Audited(e)',
           NEW m \in MessagesOf(e), NEW c \in Consumers, Goes(c, m)
    PROVE  /\ current[c] = {m} /\ current' = current /\ place' = place
           /\ \/ /\ pc[c] = "reserving" /\ inbox' = inbox \cup {e}
                 /\ pc' = [pc EXCEPT ![c] = IF e \in inbox THEN "deleting" ELSE "processing"]
              \/ /\ pc[c] = "processing" /\ inbox' = inbox
                 /\ pc' = [pc EXCEPT ![c] = "undoing"]
                 /\ "audit" \in faults
<1>1. m \in Messages /\ Event[m] = e /\ kind[m] = "advice"
  BY DEF MessagesOf
<1>2. current[c] = {m} /\ current' = current /\ place' = place
  BY <1>1, GoFacts DEF queueVars, Held, StageInv
<1>3. ~WriteAudit(m)
  <2> SUFFICES ASSUME WriteAudit(m) PROVE FALSE
    OBVIOUS
  <2>1. audits'[m] = audits[m] + 1 /\ audits[m] \in Nat
    BY <1>1 DEF WriteAudit, Types
  <2>2. m \in MessagesOf(e)'
    BY MessagesFixed
  <2> QED
    BY <2>1, <2>2 DEF Audited
<1>4. CASE Insert(c, m)
  BY <1>1, <1>2, <1>4 DEF Insert, At, Goto
<1>5. CASE InsertFails(c, m)
  BY <1>5 DEF InsertFails, Refused, SafeFaults
<1>6. CASE Process(c, m)
  BY <1>1, <1>3, <1>6 DEF Process
<1>7. CASE ProcessFails(c, m)
  BY <1>1, <1>2, <1>3, <1>7 DEF ProcessFails, At, Goto
<1> QED
  BY <1>4, <1>5, <1>6, <1>7 DEF Goes

(* A message whose handling does not go on stays what it was; one that is   *)
(* started with its row in place goes straight to its handler.              *)
LEMMA Bystander ==
    ASSUME Types, Held, [Next]_vars, SafeFaults, NEW e \in Events, NEW n \in MessagesOf(e),
           \A c \in Consumers : ~Goes(c, n)
    PROVE  /\ Gone(n)' => Gone(n)
           /\ Alive(n) => Alive(n)'
           /\ Solid(n) /\ e \in inbox => Solid(n)'
<1> DEFINE Same == /\ Gone(n)' => Gone(n)
                   /\ Alive(n) => Alive(n)'
                   /\ Solid(n) /\ e \in inbox => Solid(n)'
<1>1. n \in Messages /\ Event[n] = e /\ kind[n] = "advice"
  BY DEF MessagesOf
<1>2. ASSUME place[n] \in Live => place'[n] \in Live, place'[n] = "deleted" => place[n] = "deleted",
             UNCHANGED <<pc, current>>
      PROVE  Same
  BY <1>2 DEF Gone, Alive, Solid, Deleting
<1>3. CASE UNCHANGED vars
  BY <1>2, <1>3 DEF vars
<1>4. ASSUME NEW m \in Messages, QueueStep(m) PROVE Same
  <2>1. /\ place[n] \in Live => place'[n] \in Live
        /\ place'[n] = "deleted" => place[n] = "deleted"
    BY <1>1, <1>4, QueueStepFacts DEF Live, Types
  <2> QED
    BY <1>2, <1>4, <2>1, QueueStepFacts DEF consumerVars
<1>5. CASE \E f \in Events : Prune(f)
  BY <1>2, <1>5 DEF Prune, queueVars, consumerVars
<1>6. ASSUME NEW c \in Consumers,
             \/ Receive(c) \/ Drops(c) \/ Controls(c)
             \/ \E m \in Messages : Starts(c, m) \/ Goes(c, m) \/ Ends(c, m)
      PROVE  Same
  <2>1. \A d \in Consumers \ {c} : pc'[d] = pc[d] /\ current'[d] = current[d]
    BY <1>6, OthersKept
  <2>2. ASSUME place[n] \in Live => place'[n] \in Live,
               place'[n] = "deleted" => place[n] = "deleted",
               n \notin current'[c], pc[c] # "deleting" \/ n \notin current[c]
        PROVE  Same
    BY <2>1, <2>2 DEF Gone, Alive, Solid, Deleting
  <2>3. CASE Receive(c)
    <3>1. PICK b \in SUBSET Receivable :
             place' = [m \in Messages |-> IF m \in b THEN "inflight" ELSE place[m]]
      BY <2>3, ReceiveFacts
    <3>2. /\ place[n] \in Live => place'[n] \in Live
          /\ place'[n] = "deleted" => place[n] = "deleted"
      BY <1>1, <3>1 DEF Live
    <3>3. current' = current /\ current[c] = {}
      BY <2>3, ReceiveFacts DEF Held, StageInv
    <3> QED
      BY <2>2, <3>2, <3>3
  <2>4. CASE Drops(c)
    <3>1. place' = place /\ current'[c] = {}
      BY <2>4, DropFacts DEF DropBatch, queueVars, Types
    <3>2. CASE pc[c] # "deleting" \/ n \notin current[c]
      BY <2>2, <3>1, <3>2
    <3>3. CASE pc[c] = "deleting" /\ n \in current[c]
      BY <3>3 DEF Gone, Alive, Solid, Deleting
    <3> QED
      BY <3>2, <3>3
  <2>5. CASE Controls(c)
    <3>1. UNCHANGED <<place, current>>
      BY <2>5, ControlFacts DEF queueVars
    <3>2. CASE pc' = pc
      BY <1>2, <3>1, <3>2
    <3>3. CASE pc[c] \in {"idle", "down"}
      BY <2>2, <3>1, <3>3 DEF Held, StageInv
    <3> QED
      BY <2>5, <3>2, <3>3, ControlFacts
  <2>6. ASSUME NEW m \in Messages, Starts(c, m) PROVE Same
    <3>1. pc[c] = "ready" /\ current[c] = {} /\ current'[c] = {m} /\ place' = place
      <4>1. /\ pc[c] = "ready" /\ current' = [current EXCEPT ![c] = {m}]
            /\ UNCHANGED queueVars
        BY <2>6, StartFacts
      <4> QED
        BY <4>1 DEF queueVars, Types, Held, StageInv
    <3>2. CASE n # m
      BY <2>2, <3>1, <3>2
    <3>3. CASE n = m
      <4>1. pc'[c] = IF e \in inbox THEN "processing" ELSE "reserving"
        <5>1. kind[m] \notin {"untyped", "untenanted"} /\ "reserve" \notin faults
          BY <1>1, <3>3 DEF SafeFaults
        <5>2. \/ Event[m] \notin inbox /\ pc' = [pc EXCEPT ![c] = "reserving"]
              \/ Event[m] \in inbox /\ pc' = [pc EXCEPT ![c] = "processing"]
          BY <2>6, <5>1, StartFacts
        <5> QED
          BY <1>1, <3>3, <5>2 DEF Types
      <4> QED
        BY <2>1, <3>1, <4>1 DEF Gone, Alive, Solid, Deleting
    <3> QED
      BY <3>2, <3>3
  <2>7. ASSUME NEW m \in Messages, Goes(c, m) PROVE Same
    <3>1. m # n
      BY <2>7
    <3>2. current[c] = {m} /\ current' = current /\ place' = place
      BY <2>7, GoFacts DEF queueVars, Held, StageInv
    <3> QED
      BY <2>2, <3>1, <3>2
  <2>8. ASSUME NEW m \in Messages, Ends(c, m) PROVE Same
    <3>1. m \in current[c] /\ Finish(c, m)
      BY <2>8, EndKeeps
    <3>2. current' = [current EXCEPT ![c] = {}] /\ current[c] = {m}
      BY <3>1, FinishFacts
    <3>3. current'[c] = {}
      BY <3>2 DEF Types
    <3>4. CASE pc[c] = "deleting" /\ n = m
      BY <3>1, <3>4 DEF Gone, Alive, Solid, Deleting
    <3>5. CASE pc[c] # "deleting" \/ n # m
      <4>1. place'[n] = place[n]
        BY <1>1, <2>8, <3>5, EndKeeps DEF Types
      <4> QED
        BY <2>2, <3>2, <3>3, <3>5, <4>1
    <3> QED
      BY <3>4, <3>5
  <2> QED
    BY <1>6, <2>3, <2>4, <2>5, <2>6, <2>7, <2>8
<1> QED
  BY <1>3, <1>4, <1>5, <1>6, NextSplits

(* Only a step of one of the event's own messages adds the event's row. *)
LEMMA RowAdded ==
    ASSUME Types, Held, [Next]_vars, NEW e \in Events, MessagesOf(e) # {},
           \A m \in MessagesOf(e), c \in Consumers : ~Goes(c, m),
           e \in inbox'
    PROVE  e \in inbox
<1>1. CASE UNCHANGED vars
  BY <1>1 DEF vars
<1>2. CASE (\E m \in Messages : QueueStep(m)) \/ \E f \in Events : Prune(f)
  BY <1>2, QueueStepFacts DEF Prune
<1>3. ASSUME NEW c \in Consumers, Receive(c) \/ Drops(c) \/ Controls(c) PROVE e \in inbox
  BY <1>3, ReceiveFacts, DropFacts, ControlFacts
<1>4. ASSUME NEW c \in Consumers, NEW m \in Messages, Starts(c, m) \/ Ends(c, m)
      PROVE  e \in inbox
  BY <1>4, StartFacts, EndKeeps
<1>5. ASSUME NEW c \in Consumers, NEW m \in Messages, Goes(c, m) PROVE e \in inbox
  <2>1. CASE inbox' = inbox
    BY <2>1
  <2>2. CASE pc[c] = "reserving" /\ inbox' = inbox \cup {Event[m]} /\ Event[m] = e
    <3>1. m \in current[c]
      BY <1>5, GoFacts
    <3> QED
      BY <1>5, <2>2, <3>1, SameKeySameKind
  <2>3. CASE inbox' = inbox \cup {Event[m]} /\ Event[m] # e
    BY <2>3
  <2> QED
    BY <1>5, <2>1, <2>2, <2>3, GoFacts
<1> QED
  BY <1>1, <1>2, <1>3, <1>4, <1>5, NextSplits

(* Without timeouts: a row of an unaudited event, and a message of it that  *)
(* is deleted or about to be, each have a message behind them that is not.  *)
Backed(e) ==
    \/ Audited(e)
    \/ /\ e \in inbox => \E n \in MessagesOf(e) : Solid(n)
       /\ (\E m \in MessagesOf(e) : Gone(m)) => \E n \in MessagesOf(e) : Alive(n)

BackedInv ==
    SafeFaults /\ "slow" \notin faults =>
        \A e \in Events : MessagesOf(e) # {} => Backed(e)

LEMMA BackedStep == Types /\ Held /\ OneHolder /\ BackedInv /\ [Next]_vars => BackedInv'
<1> SUFFICES ASSUME Types, Held, OneHolder, BackedInv, [Next]_vars,
                    (SafeFaults /\ "slow" \notin faults)',
                    NEW e \in Events, MessagesOf(e)' # {}, ~Audited(e)'
             PROVE  Backed(e)'
  BY DEF BackedInv, Backed
<1>1. SafeFaults /\ "slow" \notin faults
  BY FaultsFixed DEF SafeFaults
<1>2. MessagesOf(e)' = MessagesOf(e)
  BY MessagesFixed
<1>3. /\ e \in inbox => \E n \in MessagesOf(e) : Solid(n)
      /\ (\E m \in MessagesOf(e) : Gone(m)) => \E n \in MessagesOf(e) : Alive(n)
  BY <1>1, <1>2, AuditedStays DEF BackedInv, Backed
<1>4. CASE \A m \in MessagesOf(e), c \in Consumers : ~Goes(c, m)
  <2>1. e \in inbox' => e \in inbox
    BY <1>2, <1>4, RowAdded
  <2>2. \A n \in MessagesOf(e) : /\ Gone(n)' => Gone(n)
                                 /\ Alive(n) => Alive(n)'
                                 /\ Solid(n) /\ e \in inbox => Solid(n)'
    BY <1>1, <1>4, Bystander
  <2>3. e \in inbox' => \E n \in MessagesOf(e) : Solid(n)'
    BY <1>3, <2>1, <2>2
  <2>4. (\E m \in MessagesOf(e) : Gone(m)') => \E n \in MessagesOf(e) : Alive(n)'
    BY <1>3, <2>2
  <2> QED
    BY <1>2, <2>3, <2>4 DEF Backed
<1>5. ASSUME NEW m \in MessagesOf(e), NEW c \in Consumers, Goes(c, m) PROVE Backed(e)'
  <2>1. current[c] = {m} /\ current' = current /\ place' = place
    BY <1>1, <1>5, UnauditedGoes
  <2>2. \/ /\ pc[c] = "reserving" /\ inbox' = inbox \cup {e}
           /\ pc' = [pc EXCEPT ![c] = IF e \in inbox THEN "deleting" ELSE "processing"]
        \/ /\ pc[c] = "processing" /\ inbox' = inbox
           /\ pc' = [pc EXCEPT ![c] = "undoing"]
    BY <1>1, <1>5, UnauditedGoes
  <2>3. \A d \in Consumers \ {c} : pc'[d] = pc[d]
    BY <2>2 DEF Types
  <2>4. m \in Messages /\ m \in batch[c] /\ HeldAlone(c, m)
    BY <1>1, <2>1 DEF Held, StageInv, OneHolder, MessagesOf, Types
  <2>5. \A d \in Consumers : m \in current[d] => d = c
    BY <2>4 DEF HeldAlone, Held, StageInv
  <2>6. ASSUME NEW n \in MessagesOf(e), n # m, Solid(n) PROVE Solid(n)'
    BY <2>1, <2>3, <2>6 DEF Solid, Alive, Deleting
  <2>7. ASSUME NEW n \in MessagesOf(e), n # m, Alive(n) PROVE Alive(n)'
    BY <2>1, <2>3, <2>7 DEF Alive, Deleting
  <2>8. CASE pc'[c] # "deleting"
    <3>1. pc'[c] \notin {"deleting", "reserving"}
      BY <2>2, <2>8 DEF Types
    <3>2. Solid(m)'
      BY <2>1, <2>4, <2>5, <3>1 DEF HeldAlone, Solid, Alive, Deleting, Live
    <3>3. Alive(m)'
      BY <3>2 DEF Solid
    <3> QED
      BY <1>2, <3>2, <3>3 DEF Backed
  <2>9. CASE pc'[c] = "deleting"
    <3>1. pc[c] = "reserving" /\ e \in inbox
      BY <2>2, <2>9 DEF Types
    <3>2. PICK n \in MessagesOf(e) : Solid(n)
      BY <1>3, <3>1
    <3>3. n # m
      BY <2>1, <3>1, <3>2 DEF Solid
    <3>4. Solid(n)'
      BY <2>6, <3>2, <3>3
    <3>5. Alive(n)'
      BY <3>4 DEF Solid
    <3> QED
      BY <1>2, <3>4, <3>5 DEF Backed
  <2> QED
    BY <2>8, <2>9
<1> QED
  BY <1>4, <1>5

(* With timeouts but neither crashes nor failing handlers: whoever wrote    *)
(* the row will audit the event.                                            *)
WorkedInv ==
    SafeFaults /\ "slow" \in faults =>
        \A e \in Events :
            e \in inbox \/ (\E m \in MessagesOf(e) : Gone(m))
                => MessagesOf(e) = {} \/ Audited(e) \/ InWork(e)

LEMMA WorkedStep == Types /\ Held /\ WorkedInv /\ [Next]_vars => WorkedInv'
<1> SUFFICES ASSUME Types, Held, WorkedInv, [Next]_vars, (SafeFaults /\ "slow" \in faults)',
                    NEW e \in Events, MessagesOf(e)' # {}, ~Audited(e)',
                    (e \in inbox \/ \E m \in MessagesOf(e) : Gone(m))'
             PROVE  InWork(e)'
  BY DEF WorkedInv
<1>1. SafeFaults /\ "slow" \in faults
  BY FaultsFixed DEF SafeFaults
<1>2. MessagesOf(e)' = MessagesOf(e)
  BY MessagesFixed
<1>3. e \in inbox \/ (\E m \in MessagesOf(e) : Gone(m)) => InWork(e)
  BY <1>1, <1>2, AuditedStays DEF WorkedInv
<1>4. CASE \A m \in MessagesOf(e), c \in Consumers : ~Goes(c, m)
  <2>1. e \in inbox' => e \in inbox
    BY <1>2, <1>4, RowAdded
  <2>2. \A n \in MessagesOf(e) : Gone(n)' => Gone(n)
    BY <1>1, <1>4, Bystander
  <2>3. PICK d \in Consumers : pc[d] = "processing" /\ current[d] \cap MessagesOf(e) # {}
    BY <1>2, <1>3, <2>1, <2>2 DEF InWork
  <2>4. pc'[d] = pc[d] /\ current'[d] = current[d]
    <3>1. CASE UNCHANGED vars
      BY <3>1 DEF vars
    <3>2. CASE (\E m \in Messages : QueueStep(m)) \/ \E f \in Events : Prune(f)
      BY <3>2, QueueStepFacts DEF Prune, consumerVars
    <3>3. CASE Receive(d) \/ Drops(d)
      BY <1>1, <2>3, <3>3, ReceiveFacts, DropFacts DEF SafeFaults
    <3>4. CASE Controls(d)
      BY <2>3, <3>4, ControlFacts
    <3>5. ASSUME NEW m \in Messages, Starts(d, m) \/ Ends(d, m) PROVE FALSE
      BY <2>3, <3>5, StartFacts, EndKeeps
    <3>6. ASSUME NEW m \in Messages, Goes(d, m) PROVE FALSE
      <4>1. current[d] = {m}
        BY <3>6, GoFacts DEF Held, StageInv
      <4> QED
        BY <1>4, <2>3, <3>6, <4>1
    <3>7. ASSUME NEW c \in Consumers \ {d},
                 \/ Receive(c) \/ Drops(c) \/ Controls(c)
                 \/ \E m \in Messages : Starts(c, m) \/ Goes(c, m) \/ Ends(c, m)
          PROVE  pc'[d] = pc[d] /\ current'[d] = current[d]
      BY <3>7, OthersKept
    <3> QED
      BY <3>1, <3>2, <3>3, <3>4, <3>5, <3>6, <3>7, NextSplits
  <2> QED
    BY <1>2, <2>3, <2>4 DEF InWork
<1>5. ASSUME NEW m \in MessagesOf(e), NEW c \in Consumers, Goes(c, m) PROVE InWork(e)'
  <2>1. current[c] = {m} /\ current' = current
    BY <1>1, <1>5, UnauditedGoes
  <2>2. /\ pc[c] = "reserving"
        /\ pc' = [pc EXCEPT ![c] = IF e \in inbox THEN "deleting" ELSE "processing"]
    BY <1>1, <1>5, UnauditedGoes DEF SafeFaults
  <2>3. CASE e \notin inbox
    <3>1. pc'[c] = "processing"
      BY <2>2, <2>3 DEF Types
    <3> QED
      BY <1>2, <2>1, <3>1 DEF InWork
  <2>4. CASE e \in inbox
    <3>1. PICK d \in Consumers : pc[d] = "processing" /\ current[d] \cap MessagesOf(e) # {}
      BY <1>3, <2>4 DEF InWork
    <3>2. pc'[d] = "processing"
      BY <2>2, <3>1 DEF Types
    <3> QED
      BY <1>2, <2>1, <3>1, <3>2 DEF InWork
  <2> QED
    BY <2>3, <2>4
<1> QED
  BY <1>4, <1>5

LEMMA LossInvariants == Spec => [](BackedInv /\ WorkedInv)
<1>1. Init => BackedInv /\ WorkedInv
  <2> SUFFICES ASSUME Init PROVE BackedInv /\ WorkedInv
    OBVIOUS
  <2>1. inbox = {} /\ \A m \in Messages : ~Gone(m)
    BY DEF Init, Gone, Deleting
  <2>2. \A e \in Events : MessagesOf(e) \subseteq Messages
    BY DEF MessagesOf
  <2> QED
    BY <2>1, <2>2 DEF BackedInv, WorkedInv, Backed
<1> QED
  BY <1>1, BackedStep, WorkedStep, Typing, OneHolderInvariant, PTL DEF Spec

(* A consumer never deletes the last trace of an unaudited event while the  *)
(* queries of the reservation work and timeouts do not meet crashes or      *)
(* failing handlers: at any number of copies of the event and of consumers, *)
(* and with failing releases, deletes and lost answers of the audit.        *)
THEOREM LossesExplained == Spec => []LossNeedsReservationRace
<1>1. BackedInv /\ WorkedInv => LossNeedsReservationRace
  <2> SUFFICES ASSUME BackedInv, WorkedInv, SafeFaults, NEW e \in Events,
                      NEW m \in MessagesOf(e), place[m] = "deleted"
               PROVE  Audited(e) \/ Recoverable(e)
    BY DEF LossNeedsReservationRace, EventNotLost, SafeFaults
  <2>1. Gone(m) /\ MessagesOf(e) # {}
    BY DEF Gone
  <2>2. CASE "slow" \in faults
    BY <2>1, <2>2 DEF WorkedInv, InWork, Recoverable
  <2>3. CASE "slow" \notin faults
    <3>1. Backed(e)
      BY <2>1, <2>3 DEF BackedInv
    <3>2. Audited(e) \/ \E n \in MessagesOf(e) : Alive(n)
      BY <2>1, <3>1 DEF Backed
    <3> QED
      BY <3>2 DEF Alive, Live, Recoverable
  <2> QED
    BY <2>2, <2>3
<1> QED
  BY <1>1, LossInvariants, PTL

-------------------------------------------------------------------------------
(* What is on the queue has been sent *)

(* Every step of the component but the arrival of a message. *)
Moves ==
    \/ \E m \in Messages : Expire(m) \/ DeadLetter(m) \/ ReceiveLost(m)
    \/ \E e \in Events : Prune(e)
    \/ \E c \in Consumers : Receive(c) \/ Work(c) \/ Crash(c) \/ Stop(c) \/ Exit(c) \/ Restart(c)

UnsentUnread == \A m \in Messages : place[m] = "unsent" => receives[m] = 0

(* Only a send puts a message on the queue, and nothing takes it back. *)
SameSent == \A m \in Messages : place'[m] = "unsent" <=> place[m] = "unsent"

LEMMA MovesSplit ==
    Moves => \/ \E m \in Messages : Expire(m) \/ DeadLetter(m) \/ ReceiveLost(m)
             \/ \E e \in Events : Prune(e)
             \/ \E c \in Consumers :
                   \/ Receive(c) \/ Drops(c) \/ Controls(c)
                   \/ \E m \in Messages : Starts(c, m) \/ Goes(c, m) \/ Ends(c, m)
BY DEF Moves, Work, Starts, Goes, Ends, Drops, Controls

LEMMA MovesSendNothing == Types /\ Held /\ UnsentUnread /\ Moves => UnsentUnread' /\ SameSent
<1> SUFFICES ASSUME Types, Held, UnsentUnread, Moves PROVE UnsentUnread' /\ SameSent
  OBVIOUS
<1> USE DEF UnsentUnread, SameSent
<1>1. ASSUME NEW m \in Messages, Expire(m) \/ DeadLetter(m) \/ ReceiveLost(m)
      PROVE  UnsentUnread' /\ SameSent
  BY <1>1 DEF Expire, DeadLetter, ReceiveLost, Receivable, Types
<1>2. ASSUME NEW e \in Events, Prune(e) PROVE UnsentUnread' /\ SameSent
  BY <1>2 DEF Prune, queueVars
<1>3. ASSUME NEW c \in Consumers, Receive(c) PROVE UnsentUnread' /\ SameSent
  BY <1>3, ReceiveFacts DEF Receivable, Types
<1>4. ASSUME NEW c \in Consumers, Drops(c) \/ Controls(c) PROVE UnsentUnread' /\ SameSent
  BY <1>4, DropFacts, ControlFacts DEF queueVars
<1>5. ASSUME NEW c \in Consumers, NEW m \in Messages, Starts(c, m) \/ Goes(c, m)
      PROVE  UnsentUnread' /\ SameSent
  BY <1>5, StartFacts, GoFacts DEF queueVars
<1>6. ASSUME NEW c \in Consumers, NEW m \in Messages, Ends(c, m) PROVE UnsentUnread' /\ SameSent
  <2>1. m \in batch[c]
    BY <1>6, EndKeeps DEF Types, Held, StageInv, Stages
  <2>2. receives[m] # 0
    BY <2>1, ConstantsAssumption DEF Held, HandleInv, Types
  <2> QED
    BY <1>6, <2>2, EndKeeps DEF Types
<1> QED
  BY <1>1, <1>2, <1>3, <1>4, <1>5, <1>6, MovesSplit

===============================================================================
