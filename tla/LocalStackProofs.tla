---------------------------- MODULE LocalStackProofs ----------------------------
(***************************************************************************)
(* Theorems about LocalStack, for any number of bootstraps, doctors and    *)
(* events, any limits, and any set of environments.                        *)
(***************************************************************************)
EXTENDS LocalStack, TLAPS, FiniteSetTheorems

(* The stages of a bootstrap by what has been done before them. *)
Copies       == {"copying", "done"}
PastWrite    == Copies \cup {"writing", "copy"}
PastRedisUp  == PastWrite \cup {"backup", "write"}
PastDbUp     == PastRedisUp \cup {"redisPort"}
PastRedis    == PastDbUp \cup {"dbPort", "dbLate"}
PastDb       == PastRedis \cup {"redis"}
PastQueue    == PastDb \cup {"db"}
PastDlq      == PastQueue \cup {"queue", "arn"}
PastBucket   == PastDlq \cup {"dlq", "private"}
BootRunning  == (PastBucket \ {"done"}) \cup {"bucket", "health"}
BootStages   == BootRunning \cup {"idle", "done", "failed", "crashed"}

(* The stages of a doctor that come before its test message. *)
BeforeSend    == {"http", "head", "put", "get", "remove", "attributes", "send"}
DoctorRunning == BeforeSend \cup {"receive", "delete", "pgSelect", "ping"}
DoctorStages  == DoctorRunning \cup {"idle", "pass", "fail", "crashed"}

Places == {"none", "queued", "inFlight", "deleted", "dead", "wiped"}

BootTypes ==
    /\ env \in Environments
    /\ made \subseteq Resources /\ up \subseteq made \cap {"db", "redis"}
    /\ "private" \in made \/ objects # {} => "bucket" \in made
    /\ files \in [generated : {"none", "torn", "stack"}, backup : {"none", "torn", "stack"},
                  dotenv : {"none", "own", "torn", "stack"}]
    /\ bpc \in [Bootstraps -> BootStages] /\ clean \subseteq Bootstraps
    /\ tries \in [Bootstraps -> 0..MaxTries]
    /\ \A b \in Bootstraps : bpc[b] \in {"idle", "health"} => tries[b] < MaxTries
    /\ ready \in [status : {"unknown", "ok", "unavailable"}, on : BOOLEAN]
    /\ resets \in 0..MaxResets

DoctorTypes ==
    /\ dpc \in [Doctors -> DoctorStages] /\ ok \in [Doctors -> BOOLEAN]
    /\ url \subseteq Doctors /\ ground \subseteq Doctors /\ objects \subseteq Doctors
    /\ took \in [Doctors -> Messages \cup {Nothing}]

QueueTypes ==
    /\ place \in [Messages -> Places]
    /\ receives \in [Messages -> 0..MaxReceives]
    /\ current \subseteq Messages /\ handled \subseteq Events
    /\ attempts \in [Events -> Nat] /\ unseen \in [Events -> Nat]

Types == BootTypes /\ DoctorTypes /\ QueueTypes

(* Without "overlap" at most one script runs. *)
Alone ==
    "overlap" \notin env.faults =>
        /\ \A b, c \in Bootstraps : BootRuns(b) /\ BootRuns(c) => b = c
        /\ \A d, f \in Doctors : DoctorRuns(d) /\ DoctorRuns(f) => d = f
        /\ \A b \in Bootstraps, d \in Doctors : ~(BootRuns(b) /\ DoctorRuns(d))

(* What a bootstrap has made is there until the emulator is reset. *)
Made(b) ==
    /\ bpc[b] \in PastBucket  => "bucket" \in made
    /\ bpc[b] \in PastDlq     => "dlq" \in made
    /\ bpc[b] \in PastQueue   => "queue" \in made
    /\ bpc[b] \in PastDb      => "db" \in made
    /\ bpc[b] \in PastRedis   => "redis" \in made
    /\ bpc[b] \in PastDbUp    => "db" \in up
    /\ bpc[b] \in PastRedisUp => "redis" \in up

Cleanly == "reset" \notin env.faults => \A b \in Bootstraps : bpc[b] # "idle" => b \in clean

MadeInv == Cleanly /\ \A b \in clean : Made(b)

(* Doctors that received m. *)
Takers(m) == {d \in Doctors : took[d] = m}

(* A doctor's message is its own, sent once and deleted by it alone. *)
OwnMessage(d) ==
    /\ dpc[d] \in BeforeSend \cup {"idle"} => place[d] = "none"
    /\ dpc[d] \in BeforeSend \cup {"idle", "receive"} => took[d] = Nothing
    /\ dpc[d] = "delete" => took[d] = d

(* The redrive policy. *)
Redriven(m) ==
    /\ place[m] = "none" => receives[m] = 0
    /\ place[m] = "queued" => receives[m] < MaxReceives
    /\ place[m] = "dead" => receives[m] = MaxReceives

(* Every receive of an event is the consumer's, a doctor's or unanswered. *)
Counted(e) ==
    /\ place[e] = "deleted" => e \in handled
    /\ attempts[e] + Cardinality(Takers(e)) + unseen[e] = receives[e]

MessageInv ==
    /\ \A d \in Doctors : OwnMessage(d)
    /\ \A m \in Messages : Redriven(m)
    /\ \A e \in Events : Counted(e)

LEMMA BootOrder ==
    /\ AfterBoot["health"] = "bucket" /\ AfterBoot["bucket"] = "private"
    /\ AfterBoot["private"] = "dlq" /\ AfterBoot["dlq"] = "arn"
    /\ AfterBoot["arn"] = "queue" /\ AfterBoot["queue"] = "db"
    /\ AfterBoot["db"] = "redis" /\ AfterBoot["redis"] = "dbPort"
    /\ AfterBoot["dbPort"] = "redisPort" /\ AfterBoot["redisPort"] = "backup"
    /\ AfterBoot["backup"] = "write" /\ AfterBoot["write"] = "writing"
    /\ AfterBoot["writing"] = "copy" /\ AfterBoot["copy"] = "copying"
    /\ AfterBoot["copying"] = "done"
    /\ DOMAIN AfterBoot \cup {"dbLate"} = BootRunning
BY DEF AfterBoot, BootRunning, PastBucket, PastDlq, PastQueue, PastDb, PastRedis, PastDbUp,
       PastRedisUp, PastWrite, Copies

LEMMA CheckOrder ==
    /\ AfterCheck["http"] = "head" /\ AfterCheck["head"] = "put" /\ AfterCheck["put"] = "get"
    /\ AfterCheck["get"] = "remove" /\ AfterCheck["remove"] = "attributes"
    /\ AfterCheck["attributes"] = "send" /\ AfterCheck["send"] = "receive"
    /\ AfterCheck["receive"] = "delete" /\ AfterCheck["delete"] = "pgSelect"
    /\ AfterCheck["pgSelect"] = "ping" /\ AfterCheck["ping"] = "pass"
    /\ DOMAIN AfterCheck = DoctorRunning
    /\ SkipTo("http") = "head" /\ SkipTo("pgSelect") = "ping" /\ SkipTo("ping") = "fail"
    /\ \A at \in {"head", "put", "get", "remove"} : SkipTo(at) = "attributes"
    /\ \A at \in {"attributes", "send", "receive", "delete"} : SkipTo(at) = "pgSelect"
BY DEF AfterCheck, SkipTo, DoctorRunning, BeforeSend

(* The steps of one bootstrap, of one doctor, and at the queue. *)
BootMoves(b) == StartBootstrap(b) \/ BootStep(b) \/ BootCrash(b)
DoctorMoves(d) == StartDoctor(d) \/ DoctorStep(d) \/ DoctorCrash(d)
QueueMoves == \/ \E e \in Events : Publish(e)
              \/ \E m \in Messages : \/ ConsumerReceives(m) \/ ConsumerReceiveLost(m)
                                     \/ ConsumerDeletes(m) \/ ConsumerFails(m) \/ Expire(m)

LEMMA BootMoveFacts ==
    ASSUME NEW b \in Bootstraps, BootMoves(b)
    PROVE  UNCHANGED <<doctorVars, queueVars, env, ready, resets>>
BY DEF BootMoves, StartBootstrap, BootStep, BootCrash, CheckHealth, Create, CreateFails,
       BlockPublicAccess, GetDlqArn, WaitTcpPort, BackUp, WriteEnv, CopyEnv, restVars

LEMMA DoctorMoveFacts ==
    ASSUME NEW d \in Doctors, DoctorMoves(d)
    PROVE  UNCHANGED <<bootVars, stackVars, restVars, current, attempts, handled>>
BY DEF DoctorMoves, StartDoctor, DoctorStep, DoctorCrash, Look, Touch, DoctorSends,
       DoctorReceives, DoctorReceivesNothing, DoctorReceiveLost, DoctorDeletes, queueVars

LEMMA QueueMoveFacts ==
    ASSUME QueueMoves
    PROVE  UNCHANGED <<bootVars, doctorVars, stackVars, restVars>>
BY DEF QueueMoves, Publish, ConsumerReceives, ConsumerReceiveLost, ConsumerDeletes,
       ConsumerFails, Expire

(* A bootstrap keeps the types of what it writes. *)
LEMMA BootStageTypes ==
    ASSUME BootTypes, NEW b \in Bootstraps, BootMoves(b)
    PROVE  BootTypes'
<1> USE LocalStackAssumption, BootOrder
    DEF BootTypes, BootStages, BootRunning, PastBucket, PastDlq, PastQueue, PastDb, PastRedis,
        PastDbUp, PastRedisUp, PastWrite, Copies, Resources, Boot, BootFails, restVars, doctorVars
<1>1. CASE StartBootstrap(b)
  BY <1>1 DEF StartBootstrap, stackVars
<1>2. CASE CheckHealth(b)
  BY <1>2 DEF CheckHealth, stackVars
<1>3. ASSUME NEW what \in {"bucket", "dlq", "queue", "db", "redis"}, Create(b, what)
      PROVE  BootTypes'
  BY <1>3 DEF Create
<1>4. ASSUME NEW what \in {"bucket", "dlq", "queue", "db", "redis"}, CreateFails(b, what)
      PROVE  BootTypes'
  BY <1>4 DEF CreateFails
<1>5. CASE BlockPublicAccess(b)
  <2>1. /\ made' \in {made, made \cup {"private"}} /\ (made' # made => "bucket" \in made)
        /\ bpc' = [bpc EXCEPT ![b] = "dlq"]
        /\ UNCHANGED <<tries, doctorVars, up, files, restVars>>
    BY <1>5 DEF BlockPublicAccess
  <2> QED
    BY <2>1
<1>6. CASE GetDlqArn(b)
  BY <1>6 DEF GetDlqArn, stackVars
<1>7. CASE WaitTcpPort(b)
  BY <1>7 DEF WaitTcpPort, stackVars
<1>8. CASE BackUp(b)
  BY <1>8 DEF BackUp
<1>9. CASE WriteEnv(b)
  BY <1>9 DEF WriteEnv
<1>10. CASE CopyEnv(b)
  BY <1>10 DEF CopyEnv
<1>11. CASE BootCrash(b)
  BY <1>11 DEF BootCrash, stackVars
<1> QED
  BY <1>1, <1>2, <1>3, <1>4, <1>5, <1>6, <1>7, <1>8, <1>9, <1>10, <1>11 DEF BootMoves, BootStep

(* A doctor goes on to the next check, or to the next function. *)
LEMMA CheckFacts ==
    ASSUME Types, NEW d \in Doctors, NEW at \in DoctorRunning, Check(d, at) \/ CheckFails(d, at)
    PROVE  /\ dpc[d] = at
           /\ dpc' \in [Doctors -> DoctorStages] /\ ok' \in [Doctors -> BOOLEAN]
           /\ \A f \in Doctors \ {d} : dpc'[f] = dpc[f] /\ ok'[f] = ok[f]
           /\ Check(d, at) => /\ ok'[d] = ok[d]
                             /\ dpc'[d] = IF at = "ping" /\ ~ok[d] THEN "fail" ELSE AfterCheck[at]
           /\ CheckFails(d, at) => dpc'[d] = SkipTo(at)
           /\ dpc'[d] \notin {"idle", "http"}
           /\ at \in {"receive", "delete", "pgSelect", "ping"} =>
                  dpc'[d] \in {"delete", "pgSelect", "ping", "pass", "fail"}
<1> DEFINE next == IF at = "ping" /\ ~ok[d] THEN "fail" ELSE AfterCheck[at]
<1>1. /\ dpc \in [Doctors -> DoctorStages] /\ ok \in [Doctors -> BOOLEAN]
      /\ dpc[d] = at
  BY DEF Types, DoctorTypes, Check, CheckFails
<1>2. \A stage \in {next, SkipTo(at)} :
         /\ stage \in DoctorStages /\ stage \notin {"idle", "http"}
         /\ at \in {"receive", "delete", "pgSelect", "ping"} =>
                stage \in {"delete", "pgSelect", "ping", "pass", "fail"}
  BY CheckOrder DEF DoctorStages, DoctorRunning, BeforeSend
<1>3. Check(d, at) => dpc' = [dpc EXCEPT ![d] = next] /\ ok' = ok
  BY DEF Check
<1>4. CheckFails(d, at) => dpc' = [dpc EXCEPT ![d] = SkipTo(at)] /\ ok' = [ok EXCEPT ![d] = FALSE]
  BY DEF CheckFails
<1> HIDE DEF next
<1>5. CASE Check(d, at)
  <2>1. dpc'[d] = next
    BY <1>1, <1>3, <1>5
  <2>2. ~CheckFails(d, at) \/ dpc'[d] = SkipTo(at)
    BY <1>1, <1>4
  <2> QED
    BY <1>1, <1>2, <1>3, <1>5, <2>1, <2>2 DEF next
<1>6. CASE ~Check(d, at)
  BY <1>1, <1>2, <1>4, <1>6
<1> QED BY <1>5, <1>6

LEMMA DoctorStageTypes ==
    ASSUME Types, NEW d \in Doctors, DoctorMoves(d)
    PROVE  BootTypes' /\ DoctorTypes'
<1> USE DEF Types, bootVars, stackVars, restVars
<1>1. CASE StartDoctor(d)
  BY <1>1 DEF StartDoctor, BootTypes, DoctorTypes, DoctorStages, DoctorRunning, BeforeSend
<1>2. ASSUME NEW at \in {"http", "head", "get", "attributes", "pgSelect", "ping"}, Look(d, at)
      PROVE  BootTypes' /\ DoctorTypes'
  <2>1. at \in DoctorRunning
    BY DEF DoctorRunning, BeforeSend
  <2> QED
    BY <1>2, <2>1, CheckFacts DEF Look, BootTypes, DoctorTypes
<1>3. ASSUME NEW at \in {"put", "remove"}, Touch(d, at) PROVE BootTypes' /\ DoctorTypes'
  <2>1. at \in DoctorRunning
    BY DEF DoctorRunning, BeforeSend
  <2>2. objects' \in {objects, objects \cup {d}, objects \ {d}}
        /\ (objects' # objects => "bucket" \in made)
    BY <1>3 DEF Touch, Serves
  <2>3. BootTypes'
    BY <1>3, <2>2 DEF Touch, BootTypes
  <2> QED
    BY <1>3, <2>1, <2>2, <2>3, CheckFacts DEF Touch, DoctorTypes
<1>4. CASE DoctorSends(d)
  BY <1>4, CheckFacts DEF DoctorSends, BootTypes, DoctorTypes, DoctorRunning, BeforeSend
<1>5. CASE DoctorReceives(d)
  BY <1>5, CheckFacts DEF DoctorReceives, BootTypes, DoctorTypes, DoctorRunning
<1>6. CASE DoctorReceivesNothing(d)
  BY <1>6, CheckFacts DEF DoctorReceivesNothing, BootTypes, DoctorTypes, DoctorRunning
<1>7. CASE DoctorDeletes(d)
  BY <1>7, CheckFacts DEF DoctorDeletes, BootTypes, DoctorTypes, DoctorRunning
<1>8. CASE DoctorCrash(d)
  BY <1>8 DEF DoctorCrash, BootTypes, DoctorTypes, DoctorStages
<1>9. CASE DoctorReceiveLost(d)
  BY <1>9, CheckFacts DEF DoctorReceiveLost, BootTypes, DoctorTypes, DoctorRunning
<1> QED
  BY <1>1, <1>2, <1>3, <1>4, <1>5, <1>6, <1>7, <1>8, <1>9 DEF DoctorMoves, DoctorStep

-------------------------------------------------------------------------------
(* The queue *)

LEMMA MessageKinds ==
    /\ Events \subseteq Messages /\ Doctors \subseteq Messages
    /\ \A e \in Events, d \in Doctors : e # d
    /\ Nothing \notin Messages
BY LocalStackAssumption DEF Messages

LEMMA TakersFinite == \A e : IsFiniteSet(Takers(e)) /\ Cardinality(Takers(e)) \in Nat
BY LocalStackAssumption, FS_Subset, FS_CardinalityType DEF Takers

(* A doctor receives a message. *)
LEMMA TakersGrow ==
    ASSUME Types, NEW d \in Doctors, NEW m \in Messages, took[d] = Nothing,
           took' = [took EXCEPT ![d] = m], NEW e \in Events
    PROVE  Cardinality(Takers(e))' = IF e = m THEN Cardinality(Takers(e)) + 1 ELSE Cardinality(Takers(e))
<1>1. took'[d] = m /\ \A f \in Doctors \ {d} : took'[f] = took[f]
  BY DEF Types, DoctorTypes
<1>2. e # Nothing
  BY MessageKinds
<1>3. CASE e = m
  <2>1. Takers(e)' = Takers(e) \cup {d} /\ d \notin Takers(e)
    BY <1>1, <1>2, <1>3 DEF Takers
  <2>2. Cardinality(Takers(e) \cup {d}) = Cardinality(Takers(e)) + 1
    BY <2>1, TakersFinite, FS_AddElement
  <2> QED
    BY <1>3, <2>1, <2>2
<1>4. CASE e # m
  <2>1. Takers(e)' = Takers(e)
    BY <1>1, <1>2, <1>4 DEF Takers
  <2> QED
    BY <1>4, <2>1
<1> QED BY <1>3, <1>4

LEMMA TakersKept == took' = took => \A e : Cardinality(Takers(e))' = Cardinality(Takers(e))
BY DEF Takers

QueueInv == QueueTypes /\ MessageInv

(* Steps that leave the messages alone. *)
LEMMA QueueKept ==
    ASSUME Types, MessageInv, UNCHANGED queueVars, UNCHANGED took,
           \A d \in Doctors : \/ dpc'[d] = dpc[d]
                              \/ dpc'[d] \notin BeforeSend \cup {"idle", "receive", "delete"}
                              \/ /\ dpc[d] \in BeforeSend \cup {"idle"}
                                 /\ dpc'[d] \in BeforeSend \cup {"idle"}
    PROVE  QueueInv'
<1> USE DEF queueVars
<1>1. ASSUME NEW d \in Doctors PROVE OwnMessage(d)'
  BY DEF MessageInv, OwnMessage, BeforeSend
<1>2. ASSUME NEW m \in Messages PROVE Redriven(m)'
  BY DEF MessageInv, Redriven
<1>3. ASSUME NEW e \in Events PROVE Counted(e)'
  BY TakersKept DEF MessageInv, Counted
<1> QED
  BY <1>1, <1>2, <1>3 DEF Types, QueueInv, QueueTypes, MessageInv

(* A receive nobody gets an answer to is counted as such.                   *)
LEMMA LostKeepsQueue ==
    ASSUME Types, MessageInv, NEW m \in Messages, AnswerLost(m),
           UNCHANGED <<current, attempts, handled, took>>,
           \A d \in Doctors : OwnMessage(d)'
    PROVE  QueueInv'
<1>1. /\ place[m] = "queued" /\ place' = [place EXCEPT ![m] = "inFlight"]
      /\ receives' = [receives EXCEPT ![m] = @ + 1]
      /\ unseen' = [e \in Events |-> IF e = m THEN unseen[e] + 1 ELSE unseen[e]]
  BY DEF AnswerLost
<1>2. receives[m] < MaxReceives
  BY <1>1 DEF MessageInv, Redriven
<1>3. ASSUME NEW n \in Messages PROVE Redriven(n)'
  BY <1>1 DEF MessageInv, Redriven, Types, QueueTypes
<1>4. ASSUME NEW e \in Events PROVE Counted(e)'
  <2>1. /\ attempts[e] \in Nat /\ unseen[e] \in Nat /\ Cardinality(Takers(e)) \in Nat
        /\ receives[e] \in 0..MaxReceives
    BY TakersFinite, MessageKinds DEF Types, QueueTypes
  <2>2. /\ receives'[e] = IF e = m THEN receives[e] + 1 ELSE receives[e]
        /\ unseen'[e] = IF e = m THEN unseen[e] + 1 ELSE unseen[e]
    BY <1>1, MessageKinds DEF Types, QueueTypes
  <2>3. attempts[e] + Cardinality(Takers(e)) + unseen[e] = receives[e]
    BY DEF MessageInv, Counted
  <2>4. Cardinality(Takers(e))' = Cardinality(Takers(e)) /\ attempts'[e] = attempts[e]
    BY TakersKept
  <2>5. attempts'[e] + Cardinality(Takers(e))' + unseen'[e] = receives'[e]
    BY <2>1, <2>2, <2>3, <2>4, LocalStackAssumption
  <2>6. place'[e] = "deleted" => e \in handled'
    BY <1>1, MessageKinds DEF MessageInv, Counted, Types, QueueTypes
  <2> QED
    BY <2>5, <2>6 DEF Counted
<1>5. QueueTypes'
  BY <1>1, <1>2, LocalStackAssumption DEF Types, QueueTypes, Places
<1> QED
  BY <1>3, <1>4, <1>5 DEF QueueInv, MessageInv

LEMMA ConsumerKeepsQueue == Types /\ MessageInv /\ QueueMoves => QueueInv'
<1> SUFFICES ASSUME Types, MessageInv, QueueMoves PROVE QueueInv'
  OBVIOUS
<1> USE TakersKept, TakersFinite, QueueMoveFacts, MessageKinds, LocalStackAssumption
    DEF QueueInv, Types, QueueTypes, DoctorTypes, MessageInv, doctorVars, Places
<1>1. ASSUME NEW e \in Events, Publish(e) PROVE QueueInv'
  <2>1. /\ place[e] = "none" /\ place' = [place EXCEPT ![e] = "queued"]
        /\ UNCHANGED <<receives, current, attempts, unseen, handled, took, dpc>>
    BY <1>1 DEF Publish
  <2>2. ASSUME NEW d \in Doctors PROVE OwnMessage(d)'
    BY <2>1 DEF OwnMessage
  <2>3. ASSUME NEW m \in Messages PROVE Redriven(m)'
    BY <2>1 DEF Redriven
  <2>4. ASSUME NEW f \in Events PROVE Counted(f)'
    BY <2>1 DEF Counted
  <2> QED
    BY <2>1, <2>2, <2>3, <2>4
<1>2. ASSUME NEW m \in Messages, ConsumerReceives(m) PROVE QueueInv'
  <2>1. /\ place[m] = "queued" /\ place' = [place EXCEPT ![m] = "inFlight"]
        /\ receives' = [receives EXCEPT ![m] = @ + 1] /\ current' = {m}
        /\ attempts' = [e \in Events |-> IF e = m THEN attempts[e] + 1 ELSE attempts[e]]
        /\ UNCHANGED <<unseen, handled, took, dpc>>
    BY <1>2 DEF ConsumerReceives
  <2>2. receives[m] < MaxReceives
    BY <2>1 DEF Redriven
  <2>3. ASSUME NEW d \in Doctors PROVE OwnMessage(d)'
    BY <2>1 DEF OwnMessage
  <2>4. ASSUME NEW n \in Messages PROVE Redriven(n)'
    BY <2>1 DEF Redriven
  <2>5. ASSUME NEW e \in Events PROVE Counted(e)'
    <3>1. /\ attempts[e] \in Nat /\ unseen[e] \in Nat /\ Cardinality(Takers(e)) \in Nat
          /\ receives[e] \in 0..MaxReceives
      OBVIOUS
    <3>2. /\ receives'[e] = IF e = m THEN receives[e] + 1 ELSE receives[e]
          /\ attempts'[e] = IF e = m THEN attempts[e] + 1 ELSE attempts[e]
          /\ unseen'[e] = unseen[e] /\ Cardinality(Takers(e))' = Cardinality(Takers(e))
      BY <2>1
    <3>3. attempts[e] + Cardinality(Takers(e)) + unseen[e] = receives[e]
      BY DEF Counted
    <3>4. attempts'[e] + Cardinality(Takers(e))' + unseen'[e] = receives'[e]
      BY <3>1, <3>2, <3>3
    <3>5. place'[e] = "deleted" => e \in handled'
      BY <2>1 DEF Counted
    <3> QED
      BY <3>4, <3>5 DEF Counted
  <2>6. QueueTypes'
    BY <2>1, <2>2
  <2> QED
    BY <2>3, <2>4, <2>5, <2>6
<1>3. ASSUME NEW m \in Messages, ConsumerDeletes(m) PROVE QueueInv'
  <2>1. /\ current' = {} /\ handled' = handled \cup ({m} \cap Events)
        /\ place' = IF place[m] \in {"queued", "inFlight"} THEN [place EXCEPT ![m] = "deleted"]
                    ELSE place
        /\ UNCHANGED <<receives, attempts, unseen, took, dpc>>
    BY <1>3 DEF ConsumerDeletes
  <2>2. ASSUME NEW d \in Doctors PROVE OwnMessage(d)'
    BY <2>1 DEF OwnMessage
  <2>3. ASSUME NEW n \in Messages PROVE Redriven(n)'
    BY <2>1 DEF Redriven
  <2>4. ASSUME NEW e \in Events PROVE Counted(e)'
    BY <2>1 DEF Counted
  <2> QED
    BY <2>1, <2>2, <2>3, <2>4
<1>4. ASSUME NEW m \in Messages, ConsumerFails(m) PROVE QueueInv'
  BY <1>4 DEF ConsumerFails, OwnMessage, Redriven, Counted
<1>5. ASSUME NEW m \in Messages, Expire(m) PROVE QueueInv'
  <2>1. /\ place[m] = "inFlight"
        /\ place' = [place EXCEPT ![m] = IF receives[m] >= MaxReceives THEN "dead" ELSE "queued"]
        /\ UNCHANGED <<receives, current, attempts, unseen, handled, took, dpc>>
    BY <1>5 DEF Expire
  <2>2. ASSUME NEW d \in Doctors PROVE OwnMessage(d)'
    BY <2>1 DEF OwnMessage
  <2>3. ASSUME NEW n \in Messages PROVE Redriven(n)'
    BY <2>1 DEF Redriven
  <2>4. ASSUME NEW e \in Events PROVE Counted(e)'
    BY <2>1 DEF Counted
  <2> QED
    BY <2>1, <2>2, <2>3, <2>4
<1>6. ASSUME NEW m \in Messages, ConsumerReceiveLost(m) PROVE QueueInv'
  <2>1. AnswerLost(m) /\ UNCHANGED <<current, attempts, handled, took, dpc>>
    BY <1>6 DEF ConsumerReceiveLost
  <2>2. \A n \in Messages : place'[n] = "none" <=> place[n] = "none"
    BY <2>1 DEF AnswerLost
  <2>3. ASSUME NEW d \in Doctors PROVE OwnMessage(d)'
    BY <2>1, <2>2 DEF OwnMessage
  <2> QED
    BY <2>1, <2>3, LostKeepsQueue
<1> QED
  BY <1>1, <1>2, <1>3, <1>4, <1>5, <1>6 DEF QueueMoves

LEMMA DoctorKeepsQueue ==
    ASSUME Types, MessageInv, NEW d \in Doctors, DoctorMoves(d)
    PROVE  QueueInv'
<1> USE DEF DoctorRunning, BeforeSend
<1>0. dpc \in [Doctors -> DoctorStages]
  BY DEF Types, DoctorTypes
<1>1. CASE StartDoctor(d)
  <2>1. dpc[d] = "idle" /\ dpc' = [dpc EXCEPT ![d] = "http"] /\ UNCHANGED <<queueVars, took>>
    BY <1>1 DEF StartDoctor
  <2> QED
    BY <1>0, <2>1, QueueKept
<1>2. ASSUME NEW at \in DoctorRunning \ {"send", "receive", "delete"},
             Check(d, at) \/ CheckFails(d, at), UNCHANGED <<queueVars, took>>
      PROVE  QueueInv'
  <2>1. /\ dpc[d] = at /\ dpc' \in [Doctors -> DoctorStages]
        /\ \A f \in Doctors \ {d} : dpc'[f] = dpc[f]
        /\ dpc'[d] \in {"head", "put", "get", "remove", "attributes", "send"}
           \/ dpc'[d] \in {"pgSelect", "ping", "pass", "fail"}
        /\ at \in {"pgSelect", "ping"} => dpc'[d] \in {"pgSelect", "ping", "pass", "fail"}
    BY <1>2, CheckFacts, CheckOrder
  <2> QED
    BY <1>2, <2>1, QueueKept
<1>3. CASE DoctorSends(d)
  <2>1. /\ dpc[d] = "send" /\ dpc' \in [Doctors -> DoctorStages]
        /\ \A f \in Doctors \ {d} : dpc'[f] = dpc[f]
        /\ dpc'[d] \in {"receive", "pgSelect"}
        /\ place' \in {place, [place EXCEPT ![d] = "queued"]}
        /\ UNCHANGED <<receives, current, attempts, unseen, handled, took>>
    BY <1>3, CheckFacts, CheckOrder DEF DoctorSends
  <2>2. place[d] = "none" /\ took[d] = Nothing /\ d \in Messages /\ \A e \in Events : e # d
    BY <2>1, MessageKinds DEF MessageInv, OwnMessage
  <2>3. /\ place' \in [Messages -> Places]
        /\ \A m \in Messages \ {d} : place'[m] = place[m]
        /\ place'[d] \in {"none", "queued"}
    BY <2>1, <2>2 DEF Types, QueueTypes, Places
  <2>4. ASSUME NEW f \in Doctors PROVE OwnMessage(f)'
    BY <2>1, <2>2, <2>3, MessageKinds DEF MessageInv, OwnMessage
  <2>5. ASSUME NEW m \in Messages PROVE Redriven(m)'
    BY <2>1, <2>2, <2>3, LocalStackAssumption DEF MessageInv, Redriven
  <2>6. ASSUME NEW e \in Events PROVE Counted(e)'
    BY <2>1, <2>2, <2>3, TakersKept, MessageKinds DEF MessageInv, Counted
  <2> QED
    BY <2>1, <2>3, <2>4, <2>5, <2>6 DEF QueueInv, MessageInv, Types, QueueTypes
<1>4. CASE DoctorReceives(d)
  <2>1. PICK m \in Messages :
          /\ place[m] = "queued"
          /\ place'    = [place EXCEPT ![m] = "inFlight"]
          /\ receives' = [receives EXCEPT ![m] = @ + 1]
          /\ took'     = [took EXCEPT ![d] = m]
          /\ IF m = d THEN Check(d, "receive") ELSE CheckFails(d, "receive")
    BY <1>4 DEF DoctorReceives
  <2>2. /\ dpc[d] = "receive" /\ dpc' \in [Doctors -> DoctorStages]
        /\ \A f \in Doctors \ {d} : dpc'[f] = dpc[f]
        /\ dpc'[d] = IF m = d THEN "delete" ELSE "pgSelect"
    BY <2>1, CheckFacts, CheckOrder
  <2>3. UNCHANGED <<current, attempts, unseen, handled>>
    BY <1>4 DEF DoctorReceives
  <2>4. took[d] = Nothing /\ receives[m] < MaxReceives
    BY <2>1, <2>2 DEF MessageInv, OwnMessage, Redriven
  <2>5. ASSUME NEW f \in Doctors PROVE OwnMessage(f)'
    BY <2>1, <2>2, MessageKinds DEF MessageInv, OwnMessage, Types, DoctorTypes, QueueTypes
  <2>6. ASSUME NEW n \in Messages PROVE Redriven(n)'
    BY <2>1 DEF MessageInv, Redriven, Types, QueueTypes
  <2>7. ASSUME NEW e \in Events PROVE Counted(e)'
    <3>1. Cardinality(Takers(e))' = IF e = m THEN Cardinality(Takers(e)) + 1 ELSE Cardinality(Takers(e))
      BY <2>1, <2>4, TakersGrow
    <3>2. receives'[e] = IF e = m THEN receives[e] + 1 ELSE receives[e]
      BY <2>1, MessageKinds DEF Types, QueueTypes
    <3>3. /\ attempts[e] + Cardinality(Takers(e)) + unseen[e] = receives[e]
          /\ attempts'[e] = attempts[e] /\ unseen'[e] = unseen[e]
      BY <2>3 DEF MessageInv, Counted
    <3>4. attempts[e] \in Nat /\ unseen[e] \in Nat /\ Cardinality(Takers(e)) \in Nat
      BY TakersFinite DEF Types, QueueTypes
    <3>5. place'[e] = "deleted" => e \in handled'
      BY <2>1, <2>3, MessageKinds DEF MessageInv, Counted, Types, QueueTypes
    <3>6. attempts'[e] + Cardinality(Takers(e))' + unseen'[e] = receives'[e]
      BY <3>1, <3>2, <3>3, <3>4
    <3> QED
      BY <3>5, <3>6 DEF Counted
  <2>8. QueueTypes'
    BY <2>1, <2>3, <2>4, LocalStackAssumption DEF Types, QueueTypes, Places
  <2> QED
    BY <2>5, <2>6, <2>7, <2>8 DEF QueueInv, MessageInv
<1>5. CASE DoctorReceivesNothing(d)
  <2>1. /\ dpc[d] = "receive" /\ dpc' \in [Doctors -> DoctorStages]
        /\ \A f \in Doctors \ {d} : dpc'[f] = dpc[f]
        /\ dpc'[d] = "pgSelect" /\ UNCHANGED <<queueVars, took>>
    BY <1>5, CheckFacts, CheckOrder DEF DoctorReceivesNothing
  <2> QED
    BY <2>1, QueueKept
<1>6. CASE DoctorDeletes(d)
  <2>1. /\ dpc[d] = "delete" /\ dpc' \in [Doctors -> DoctorStages]
        /\ \A f \in Doctors \ {d} : dpc'[f] = dpc[f]
        /\ dpc'[d] = "pgSelect"
        /\ place' \in {place, [place EXCEPT ![took[d]] = IF @ \in {"queued", "inFlight"} THEN "deleted" ELSE @]}
        /\ UNCHANGED <<receives, current, attempts, unseen, handled, took>>
    BY <1>6, CheckFacts, CheckOrder DEF DoctorDeletes
  <2>2. took[d] = d /\ d \in Messages /\ \A e \in Events : e # d
    BY <2>1, MessageKinds DEF MessageInv, OwnMessage
  <2>3. /\ place' \in [Messages -> Places]
        /\ \A m \in Messages \ {d} : place'[m] = place[m]
        /\ place'[d] \in {place[d], "deleted"}
    BY <2>1, <2>2 DEF Types, QueueTypes, Places
  <2>4. ASSUME NEW f \in Doctors PROVE OwnMessage(f)'
    BY <2>1, <2>2, <2>3, MessageKinds DEF MessageInv, OwnMessage
  <2>5. ASSUME NEW m \in Messages PROVE Redriven(m)'
    BY <2>1, <2>2, <2>3 DEF MessageInv, Redriven
  <2>6. ASSUME NEW e \in Events PROVE Counted(e)'
    BY <2>1, <2>2, <2>3, TakersKept, MessageKinds DEF MessageInv, Counted
  <2> QED
    BY <2>1, <2>3, <2>4, <2>5, <2>6 DEF QueueInv, MessageInv, Types, QueueTypes
<1>7. CASE DoctorCrash(d)
  <2>1. dpc' = [dpc EXCEPT ![d] = "crashed"] /\ UNCHANGED <<queueVars, took>>
    BY <1>7 DEF DoctorCrash
  <2> QED
    BY <1>0, <2>1, QueueKept
<1>8. ASSUME NEW at \in {"http", "head", "get", "attributes", "pgSelect", "ping"}, Look(d, at)
      PROVE  QueueInv'
  BY <1>2, <1>8 DEF Look
<1>9. ASSUME NEW at \in {"put", "remove"}, Touch(d, at) PROVE QueueInv'
  BY <1>2, <1>9 DEF Touch
<1>10. CASE DoctorReceiveLost(d)
  <2>1. PICK m \in Messages : AnswerLost(m)
    BY <1>10 DEF DoctorReceiveLost
  <2>2. /\ dpc[d] = "receive" /\ \A f \in Doctors \ {d} : dpc'[f] = dpc[f]
        /\ dpc'[d] \in {"receive", "pgSelect"}
        /\ UNCHANGED <<current, attempts, handled, took>>
    BY <1>0, <1>10, CheckFacts, CheckOrder DEF DoctorReceiveLost
  <2>3. \A n \in Messages : place'[n] = "none" <=> place[n] = "none"
    BY <2>1 DEF AnswerLost, Types, QueueTypes
  <2>4. ASSUME NEW f \in Doctors PROVE OwnMessage(f)'
    BY <2>2, <2>3, MessageKinds DEF MessageInv, OwnMessage
  <2> QED
    BY <2>1, <2>2, <2>4, LostKeepsQueue
<1> QED
  BY <1>1, <1>3, <1>4, <1>5, <1>6, <1>7, <1>8, <1>9, <1>10 DEF DoctorMoves, DoctorStep

-------------------------------------------------------------------------------
(* The steps of the emulator and of the readiness check *)

EmulatorMoves == Reset \/ GetReady \/ \E i \in {"db", "redis"} : InstanceStarts(i)

LEMMA NextSplits ==
    ASSUME Next
    PROVE  \/ \E b \in Bootstraps : BootMoves(b)
           \/ \E d \in Doctors : DoctorMoves(d)
           \/ QueueMoves
           \/ EmulatorMoves
BY DEF Next, BootMoves, DoctorMoves, QueueMoves, EmulatorMoves

LEMMA ResetFacts ==
    ASSUME Reset
    PROVE  /\ "reset" \in env.faults
           /\ made' = {} /\ up' = {} /\ objects' = {} /\ clean' = {} /\ ground' = {}
           /\ place' = [m \in Messages |-> IF place[m] = "none" THEN "none" ELSE "wiped"]
           /\ current' = {}
           /\ UNCHANGED <<bpc, tries, dpc, url, ok, took, receives, attempts, unseen, handled, files,
                          env, ready>>
BY DEF Reset, bootVars

LEMMA EmulatorTypes ==
    ASSUME Types, MessageInv, EmulatorMoves
    PROVE  BootTypes' /\ DoctorTypes' /\ QueueInv'
<1> USE TakersKept DEF Types, QueueInv, QueueTypes, MessageInv, OwnMessage, Redriven, Counted, Places
<1>1. CASE Reset
  <2>1. BootTypes' /\ DoctorTypes'
    BY <1>1, LocalStackAssumption DEF Reset, bootVars, BootTypes, DoctorTypes, Resources
  <2>2. /\ place' = [m \in Messages |-> IF place[m] = "none" THEN "none" ELSE "wiped"]
        /\ current' = {} /\ UNCHANGED <<dpc, took, receives, attempts, unseen, handled>>
    BY <1>1, ResetFacts
  <2>3. /\ \A d \in Doctors : OwnMessage(d)'
        /\ \A m \in Messages : Redriven(m)'
    BY <2>2, MessageKinds
  <2>4. \A e \in Events : Counted(e)'
    BY <2>2, MessageKinds
  <2> QED
    BY <2>1, <2>2, <2>3, <2>4
<1>2. CASE GetReady
  <2>0. Provisioned \in BOOLEAN
    BY DEF Provisioned
  <2>1. BootTypes' /\ DoctorTypes'
    BY <1>2, <2>0 DEF GetReady, bootVars, doctorVars, stackVars, BootTypes, DoctorTypes
  <2> QED
    BY <1>2, <2>1, QueueKept DEF GetReady, doctorVars
<1>3. ASSUME NEW i \in {"db", "redis"}, InstanceStarts(i)
      PROVE  BootTypes' /\ DoctorTypes' /\ QueueInv'
  <2>1. BootTypes' /\ DoctorTypes'
    BY <1>3 DEF InstanceStarts, bootVars, doctorVars, restVars, BootTypes, DoctorTypes
  <2> QED
    BY <1>3, <2>1, QueueKept DEF InstanceStarts, doctorVars
<1> QED
  BY <1>1, <1>2, <1>3 DEF EmulatorMoves

LEMMA TypesStep == Types /\ MessageInv /\ [Next]_vars => Types' /\ MessageInv'
<1> SUFFICES ASSUME Types, MessageInv, [Next]_vars PROVE BootTypes' /\ DoctorTypes' /\ QueueInv'
  BY DEF Types, QueueInv
<1>1. CASE UNCHANGED vars
  <2>1. BootTypes' /\ DoctorTypes'
    BY <1>1 DEF vars, bootVars, doctorVars, stackVars, restVars, Types, BootTypes, DoctorTypes
  <2> QED
    BY <1>1, <2>1, QueueKept DEF vars, doctorVars
<1>2. ASSUME NEW b \in Bootstraps, BootMoves(b) PROVE BootTypes' /\ DoctorTypes' /\ QueueInv'
  <2>1. BootTypes'
    BY <1>2, BootStageTypes DEF Types
  <2>2. DoctorTypes'
    BY <1>2, BootMoveFacts DEF doctorVars, Types, DoctorTypes
  <2> QED
    BY <1>2, <2>1, <2>2, BootMoveFacts, QueueKept DEF doctorVars
<1>3. ASSUME NEW d \in Doctors, DoctorMoves(d) PROVE BootTypes' /\ DoctorTypes' /\ QueueInv'
  BY <1>3, DoctorStageTypes, DoctorKeepsQueue
<1>4. CASE QueueMoves
  <2>1. BootTypes' /\ DoctorTypes'
    BY <1>4, QueueMoveFacts
    DEF bootVars, doctorVars, stackVars, restVars, Types, BootTypes, DoctorTypes
  <2> QED
    BY <1>4, <2>1, ConsumerKeepsQueue
<1>5. CASE EmulatorMoves
  BY <1>5, EmulatorTypes
<1> QED
  BY <1>1, <1>2, <1>3, <1>4, <1>5, NextSplits

LEMMA Typing == Spec => [](Types /\ MessageInv)
<1>1. Init => Types /\ MessageInv
  <2> SUFFICES ASSUME Init PROVE Types /\ MessageInv
    OBVIOUS
  <2>1. BootTypes
    BY LocalStackAssumption DEF Init, BootTypes, BootStages, Resources
  <2>2. DoctorTypes /\ QueueTypes
    BY LocalStackAssumption DEF Init, DoctorTypes, DoctorStages, QueueTypes, Places
  <2>3. \A d \in Doctors : OwnMessage(d)
    BY MessageKinds DEF Init, OwnMessage
  <2>4. \A m \in Messages : Redriven(m)
    BY DEF Init, Redriven
  <2>5. ASSUME NEW e \in Events PROVE Counted(e)
    <3>1. Takers(e) = {}
      BY MessageKinds DEF Init, Takers
    <3>2. Cardinality(Takers(e)) = 0
      BY <3>1, FS_EmptySet
    <3> QED
      BY <3>2, MessageKinds DEF Init, Counted
  <2> QED
    BY <2>1, <2>2, <2>3, <2>4, <2>5 DEF Types, MessageInv
<1> QED BY <1>1, TypesStep, PTL DEF Spec

(* TypeOK: a bootstrap gives up after MaxTries health checks, no message is *)
(* received more often than the redrive policy allows, the instances that   *)
(* are up exist, and no object is left in a bucket that does not.           *)
THEOREM TypeCorrect == Spec => []TypeOK
<1>1. Types /\ MessageInv => TypeOK
  <2> SUFFICES ASSUME Types, MessageInv PROVE TypeOK
    OBVIOUS
  <2>1. ASSUME NEW e \in Events
        PROVE  attempts[e] \in 0..MaxReceives /\ unseen[e] \in 0..MaxReceives
    <3>1. /\ attempts[e] \in Nat /\ unseen[e] \in Nat /\ Cardinality(Takers(e)) \in Nat
          /\ receives[e] \in 0..MaxReceives
      BY TakersFinite, MessageKinds DEF Types, QueueTypes
    <3>2. attempts[e] + Cardinality(Takers(e)) + unseen[e] = receives[e]
      BY DEF MessageInv, Counted
    <3> QED
      BY <3>1, <3>2, LocalStackAssumption
  <2>2. attempts \in [Events -> 0..MaxReceives] /\ unseen \in [Events -> 0..MaxReceives]
    BY <2>1 DEF Types, QueueTypes
  <2> QED
    BY <2>2 DEF TypeOK, Types, BootTypes, DoctorTypes, QueueTypes, Places
<1> QED BY <1>1, Typing, PTL

(* Only where calls fail does a receive lose its answer.                    *)
AnswersSeen == "flaky" \notin env.faults => \A e \in Events : unseen[e] = 0

LEMMA SeenStep == Types /\ AnswersSeen /\ [Next]_vars => AnswersSeen'
<1> SUFFICES ASSUME Types, AnswersSeen, [Next]_vars PROVE AnswersSeen'
  OBVIOUS
<1>1. ASSUME UNCHANGED <<unseen, env>> PROVE AnswersSeen'
  BY <1>1 DEF AnswersSeen
<1>2. ASSUME NEW m \in Messages, AnswerLost(m), env' = env PROVE AnswersSeen'
  BY <1>2 DEF AnswerLost, AnswersSeen
<1>3. ASSUME NEW b \in Bootstraps, BootMoves(b) PROVE AnswersSeen'
  BY <1>1, <1>3, BootMoveFacts DEF queueVars
<1>4. ASSUME NEW d \in Doctors, DoctorMoves(d) PROVE AnswersSeen'
  <2>1. env' = env
    BY <1>4, DoctorMoveFacts DEF restVars
  <2>2. CASE DoctorReceiveLost(d)
    BY <1>2, <2>1, <2>2 DEF DoctorReceiveLost
  <2>3. CASE unseen' = unseen
    BY <1>1, <2>1, <2>3
  <2> QED
    BY <1>4, <2>2, <2>3 DEF DoctorMoves, StartDoctor, DoctorStep, DoctorCrash, Look, Touch,
      DoctorSends, DoctorReceives, DoctorReceivesNothing, DoctorDeletes, queueVars
<1>5. CASE QueueMoves
  <2>1. env' = env
    BY <1>5, QueueMoveFacts DEF restVars
  <2>2. ASSUME NEW m \in Messages, ConsumerReceiveLost(m) PROVE AnswersSeen'
    BY <1>2, <2>1, <2>2 DEF ConsumerReceiveLost
  <2>3. CASE unseen' = unseen
    BY <1>1, <2>1, <2>3
  <2> QED
    BY <1>5, <2>2, <2>3 DEF QueueMoves, Publish, ConsumerReceives, ConsumerDeletes,
      ConsumerFails, Expire
<1>6. CASE EmulatorMoves \/ UNCHANGED vars
  BY <1>1, <1>6 DEF EmulatorMoves, Reset, GetReady, InstanceStarts, vars, queueVars, restVars
<1> QED
  BY <1>3, <1>4, <1>5, <1>6, NextSplits

(* Running the doctor beside the worker costs no event: a deleted event was *)
(* handled, and one that was dead-lettered was received MaxReceives times,  *)
(* by the consumer, by doctors, the latter at most once each, and, only     *)
(* where calls fail, by receives whose answer was lost.                     *)
THEOREM DoctorCostsNoEvent == Spec => []EventsSurviveDoctor
<1>1. Init => AnswersSeen
  BY DEF Init, AnswersSeen
<1>2. Types /\ MessageInv /\ AnswersSeen => EventsSurviveDoctor
  <2> SUFFICES ASSUME Types, MessageInv, AnswersSeen, NEW e \in Events
               PROVE  /\ place[e] = "deleted" => e \in handled
                      /\ place[e] = "dead" =>
                            /\ attempts[e] + Cardinality(Takers(e)) + unseen[e] = MaxReceives
                            /\ "flaky" \notin env.faults =>
                                  attempts[e] + Cardinality(Takers(e)) = MaxReceives
    BY DEF EventsSurviveDoctor, Takers
  <2>1. /\ attempts[e] + Cardinality(Takers(e)) + unseen[e] = receives[e]
        /\ place[e] = "deleted" => e \in handled
        /\ place[e] = "dead" => receives[e] = MaxReceives
    BY MessageKinds DEF MessageInv, Counted, Redriven
  <2>2. attempts[e] \in Nat /\ Cardinality(Takers(e)) \in Nat /\ unseen[e] \in Nat
    BY TakersFinite DEF Types, QueueTypes
  <2>3. "flaky" \notin env.faults => unseen[e] = 0
    BY DEF AnswersSeen
  <2> QED
    BY <2>1, <2>2, <2>3
<1> QED BY <1>1, <1>2, SeenStep, Typing, PTL DEF Spec

-------------------------------------------------------------------------------
(* One script at a time *)

LEMMA BootStepRuns ==
    ASSUME BootTypes, NEW b \in Bootstraps, BootStep(b) \/ BootCrash(b)
    PROVE  /\ BootRuns(b)
           /\ \A c \in Bootstraps \ {b} : bpc'[c] = bpc[c]
<1> USE BootOrder
    DEF BootTypes, BootRuns, BootRunning, PastBucket, PastDlq, PastQueue, PastDb, PastRedis,
        PastDbUp, PastRedisUp, PastWrite, Copies, Boot, BootFails
<1>1. CASE BootCrash(b)
  BY <1>1 DEF BootCrash
<1>2. CASE CheckHealth(b) \/ BlockPublicAccess(b) \/ GetDlqArn(b)
  BY <1>2 DEF CheckHealth, BlockPublicAccess, GetDlqArn
<1>3. ASSUME NEW what \in {"bucket", "dlq", "queue", "db", "redis"},
             Create(b, what) \/ CreateFails(b, what)
      PROVE  BootRuns(b) /\ \A c \in Bootstraps \ {b} : bpc'[c] = bpc[c]
  BY <1>3 DEF Create, CreateFails
<1>4. CASE WaitTcpPort(b)
  BY <1>4 DEF WaitTcpPort
<1>5. CASE BackUp(b) \/ WriteEnv(b) \/ CopyEnv(b)
  BY <1>5 DEF BackUp, WriteEnv, CopyEnv
<1> QED
  BY <1>1, <1>2, <1>3, <1>4, <1>5 DEF BootStep

LEMMA DoctorStepRuns ==
    ASSUME Types, NEW d \in Doctors, DoctorStep(d) \/ DoctorCrash(d)
    PROVE  /\ DoctorRuns(d)
           /\ \A f \in Doctors \ {d} : dpc'[f] = dpc[f] /\ ok'[f] = ok[f]
<1> USE CheckFacts, CheckOrder DEF DoctorRunning, BeforeSend, DoctorRuns
<1>1. CASE DoctorCrash(d)
  BY <1>1 DEF DoctorCrash, Types, DoctorTypes
<1>2. ASSUME NEW at \in DoctorRunning, Check(d, at) \/ CheckFails(d, at)
      PROVE  DoctorRuns(d) /\ \A f \in Doctors \ {d} : dpc'[f] = dpc[f] /\ ok'[f] = ok[f]
  BY <1>2
<1>3. ASSUME NEW at \in {"http", "head", "get", "attributes", "pgSelect", "ping"}, Look(d, at)
      PROVE  DoctorRuns(d) /\ \A f \in Doctors \ {d} : dpc'[f] = dpc[f] /\ ok'[f] = ok[f]
  BY <1>2, <1>3 DEF Look
<1>4. CASE Touch(d, "put") \/ Touch(d, "remove")
  BY <1>2, <1>4 DEF Touch
<1>5. CASE DoctorSends(d) \/ DoctorReceives(d) \/ DoctorReceivesNothing(d) \/ DoctorDeletes(d)
  BY <1>2, <1>5 DEF DoctorSends, DoctorReceives, DoctorReceivesNothing, DoctorDeletes
<1>6. CASE DoctorReceiveLost(d)
  <2>1. CASE CheckFails(d, "receive")
    BY <1>2, <2>1
  <2>2. CASE dpc[d] = "receive" /\ UNCHANGED <<dpc, ok>>
    BY <2>2
  <2> QED
    BY <1>6, <2>1, <2>2 DEF DoctorReceiveLost
<1> QED
  BY <1>1, <1>3, <1>4, <1>5, <1>6 DEF DoctorStep

LEMMA AloneStep == Types /\ Alone /\ [Next]_vars => Alone'
<1> SUFFICES ASSUME Types, Alone, [Next]_vars PROVE Alone'
  OBVIOUS
<1> USE DEF Alone, BootRuns, DoctorRuns
<1>1. ASSUME NEW b \in Bootstraps, StartBootstrap(b) PROVE Alone'
  <2>1. /\ MayStart /\ bpc' = [bpc EXCEPT ![b] = "health"] /\ UNCHANGED <<dpc, env>>
    BY <1>1 DEF StartBootstrap, doctorVars
  <2> QED
    BY <2>1 DEF MayStart, Types, BootTypes
<1>2. ASSUME NEW b \in Bootstraps, BootStep(b) \/ BootCrash(b) PROVE Alone'
  <2>1. BootRuns(b) /\ \A c \in Bootstraps \ {b} : bpc'[c] = bpc[c]
    BY <1>2, BootStepRuns DEF Types
  <2>2. UNCHANGED <<dpc, env>>
    BY <1>2, BootMoveFacts DEF BootMoves, doctorVars
  <2> QED
    BY <2>1, <2>2
<1>3. ASSUME NEW d \in Doctors, StartDoctor(d) PROVE Alone'
  <2>1. /\ MayStart /\ dpc' = [dpc EXCEPT ![d] = "http"] /\ UNCHANGED <<bpc, env>>
    BY <1>3 DEF StartDoctor, bootVars, restVars
  <2> QED
    BY <2>1 DEF MayStart, Types, DoctorTypes
<1>4. ASSUME NEW d \in Doctors, DoctorStep(d) \/ DoctorCrash(d) PROVE Alone'
  <2>1. DoctorRuns(d) /\ \A f \in Doctors \ {d} : dpc'[f] = dpc[f]
    BY <1>4, DoctorStepRuns
  <2>2. UNCHANGED <<bpc, env>>
    BY <1>4, DoctorMoveFacts DEF DoctorMoves, bootVars, restVars
  <2> QED
    BY <2>1, <2>2
<1>5. CASE QueueMoves \/ EmulatorMoves \/ UNCHANGED vars
  <2>1. UNCHANGED <<bpc, dpc, env>>
    BY <1>5, QueueMoveFacts
    DEF EmulatorMoves, Reset, GetReady, InstanceStarts, vars, bootVars, doctorVars, restVars
  <2> QED
    BY <2>1
<1> QED
  BY <1>1, <1>2, <1>3, <1>4, <1>5, NextSplits DEF BootMoves, DoctorMoves

-------------------------------------------------------------------------------
(* What a bootstrap has made *)

LEMMA MadeKept ==
    ASSUME NEW b, Made(b), bpc'[b] = bpc[b], made \subseteq made', up \subseteq up'
    PROVE  Made(b)'
BY DEF Made

LEMMA BootGrows ==
    ASSUME NEW b \in Bootstraps, BootStep(b) \/ BootCrash(b)
    PROVE  made \subseteq made' /\ UNCHANGED <<up, clean, env>>
BY DEF BootStep, BootCrash, CheckHealth, Create, CreateFails, BlockPublicAccess, GetDlqArn,
       WaitTcpPort, BackUp, WriteEnv, CopyEnv, stackVars, restVars

(* A bootstrap's own step leaves behind what its next stage builds on. *)
LEMMA MadeNext ==
    ASSUME BootTypes, NEW b \in Bootstraps, Made(b), BootStep(b) \/ BootCrash(b)
    PROVE  Made(b)'
<1> USE BootOrder
    DEF BootTypes, Made, BootRunning, PastBucket, PastDlq, PastQueue, PastDb, PastRedis,
        PastDbUp, PastRedisUp, PastWrite, Copies, Boot, BootFails
<1>0. made \subseteq made' /\ up' = up
  BY BootGrows
<1>1. CASE BootCrash(b)
  BY <1>1 DEF BootCrash
<1>2. CASE CheckHealth(b)
  BY <1>2 DEF CheckHealth, stackVars
<1>3. ASSUME NEW what \in {"bucket", "dlq", "queue", "db", "redis"}, Create(b, what)
      PROVE  Made(b)'
  BY <1>3 DEF Create
<1>4. ASSUME NEW what \in {"bucket", "dlq", "queue", "db", "redis"}, CreateFails(b, what)
      PROVE  Made(b)'
  BY <1>4 DEF CreateFails
<1>5. CASE BlockPublicAccess(b)
  <2>1. bpc[b] = "private" /\ bpc' = [bpc EXCEPT ![b] = "dlq"]
    BY <1>5 DEF BlockPublicAccess
  <2> QED
    BY <1>0, <2>1
<1>6. CASE GetDlqArn(b)
  BY <1>6 DEF GetDlqArn, stackVars
<1>7. CASE WaitTcpPort(b)
  BY <1>7 DEF WaitTcpPort, stackVars
<1>8. CASE BackUp(b)
  BY <1>8 DEF BackUp
<1>9. CASE WriteEnv(b)
  BY <1>9 DEF WriteEnv
<1>10. CASE CopyEnv(b)
  BY <1>10 DEF CopyEnv
<1> QED
  BY <1>1, <1>2, <1>3, <1>4, <1>5, <1>6, <1>7, <1>8, <1>9, <1>10 DEF BootStep

LEMMA MadeStep == Types /\ MadeInv /\ [Next]_vars => MadeInv'
<1> SUFFICES ASSUME Types, MadeInv, [Next]_vars PROVE MadeInv'
  OBVIOUS
<1> USE DEF MadeInv, Cleanly
<1>1. ASSUME NEW b \in Bootstraps, StartBootstrap(b) PROVE MadeInv'
  <2>1. /\ bpc' = [bpc EXCEPT ![b] = "health"] /\ clean' = clean \cup {b}
        /\ UNCHANGED <<made, up, env>>
    BY <1>1 DEF StartBootstrap, stackVars
  <2>2. Made(b)'
    BY <2>1 DEF Types, BootTypes, Made, PastBucket, PastDlq, PastQueue, PastDb, PastRedis,
       PastDbUp, PastRedisUp, PastWrite, Copies
  <2>3. \A c \in Bootstraps \ {b} : bpc'[c] = bpc[c]
    BY <2>1 DEF Types, BootTypes
  <2>4. ASSUME NEW c \in clean \ {b} PROVE Made(c)'
    BY <2>1, <2>3, MadeKept DEF Types, BootTypes
  <2> QED
    BY <2>1, <2>2, <2>3, <2>4
<1>2. ASSUME NEW b \in Bootstraps, BootStep(b) \/ BootCrash(b) PROVE MadeInv'
  <2>1. made \subseteq made' /\ UNCHANGED <<up, clean, env>>
    BY <1>2, BootGrows
  <2>2. /\ bpc[b] # "idle"
        /\ \A c \in Bootstraps \ {b} : bpc'[c] = bpc[c]
    BY <1>2, BootStepRuns, BootOrder
    DEF Types, BootRuns, BootRunning, PastBucket, PastDlq, PastQueue, PastDb, PastRedis,
        PastDbUp, PastRedisUp, PastWrite, Copies
  <2>3. ASSUME NEW c \in clean PROVE Made(c)'
    BY <1>2, <2>1, <2>2, MadeKept, MadeNext DEF Types, BootTypes
  <2> QED
    BY <2>1, <2>2, <2>3
<1>3. ASSUME NEW d \in Doctors, DoctorMoves(d) PROVE MadeInv'
  BY <1>3, DoctorMoveFacts, MadeKept DEF bootVars, stackVars, restVars
<1>4. CASE QueueMoves
  BY <1>4, QueueMoveFacts, MadeKept DEF bootVars, stackVars, restVars
<1>5. CASE Reset
  BY <1>5, ResetFacts
<1>6. ASSUME GetReady \/ (\E i \in {"db", "redis"} : InstanceStarts(i)) \/ UNCHANGED vars
      PROVE  MadeInv'
  <2>1. /\ made \subseteq made' /\ up \subseteq up'
        /\ UNCHANGED <<bpc, clean, env>>
    BY <1>6 DEF GetReady, InstanceStarts, vars, bootVars, stackVars, restVars
  <2> QED
    BY <2>1, MadeKept
<1> QED
  BY <1>1, <1>2, <1>3, <1>4, <1>5, <1>6, NextSplits DEF BootMoves, EmulatorMoves

-------------------------------------------------------------------------------
(* Why a bootstrap fails *)

FailedWell(b) ==
    /\ bpc[b] = "failed" => env.faults \cap {"flaky", "slow", "reset"} # {}
    /\ bpc[b] = "dbLate" => env.faults \cap {"slow", "reset"} # {}

LEMMA FailNext ==
    ASSUME BootTypes, MadeInv, NEW b \in Bootstraps, FailedWell(b), BootMoves(b)
    PROVE  FailedWell(b)'
<1> USE BootOrder
    DEF BootTypes, FailedWell, Boot, BootFails
<1>0. env' = env
  BY BootMoveFacts
<1>1. CASE StartBootstrap(b) \/ BootCrash(b)
  BY <1>0, <1>1 DEF StartBootstrap, BootCrash
<1>2. CASE CheckHealth(b)
  BY <1>0, <1>2 DEF CheckHealth
<1>3. ASSUME NEW what \in {"bucket", "dlq", "queue", "db", "redis"}, Create(b, what)
      PROVE  FailedWell(b)'
  BY <1>0, <1>3 DEF Create
<1>4. ASSUME NEW what \in {"bucket", "dlq", "queue", "db", "redis"}, CreateFails(b, what)
      PROVE  FailedWell(b)'
  <2>1. what = "queue" /\ "reset" \notin env.faults => "dlq" \in made
    BY <1>4 DEF CreateFails, MadeInv, Cleanly, Made, PastDlq
  <2>2. env.faults \cap {"flaky", "reset"} # {}
    BY <1>4, <2>1 DEF CreateFails
  <2>3. bpc'[b] = "failed"
    BY <1>4 DEF CreateFails
  <2> QED
    BY <1>0, <2>2, <2>3
<1>5. CASE WaitTcpPort(b)
  <2>1. ASSUME "reset" \notin env.faults, bpc[b] \in {"dbPort", "redisPort"}
        PROVE  {"db", "redis"} \subseteq made
    BY <2>1 DEF MadeInv, Cleanly, Made, PastDb, PastRedis, PastDbUp
  <2>2. \/ "db" \in up /\ Boot(b, "dbPort")
        \/ Late("db") /\ bpc[b] = "dbPort" /\ bpc' = [bpc EXCEPT ![b] = "dbLate"]
        \/ "redis" \in up /\ Boot(b, "redisPort")
        \/ Late("redis") /\ bpc[b] = "redisPort" /\ BootFails(b)
        \/ bpc[b] = "dbLate" /\ BootFails(b)
    BY <1>5 DEF WaitTcpPort
  <2>3. CASE bpc' = [bpc EXCEPT ![b] = "dbLate"] /\ Late("db") /\ bpc[b] = "dbPort"
    BY <1>0, <2>1, <2>3 DEF Late
  <2>4. CASE bpc[b] = "redisPort" /\ BootFails(b) /\ Late("redis")
    BY <1>0, <2>1, <2>4 DEF Late
  <2> QED
    BY <1>0, <2>2, <2>3, <2>4
<1>6. CASE BlockPublicAccess(b) \/ GetDlqArn(b) \/ BackUp(b) \/ WriteEnv(b) \/ CopyEnv(b)
  BY <1>0, <1>6 DEF BlockPublicAccess, GetDlqArn, BackUp, WriteEnv, CopyEnv
<1> QED
  BY <1>1, <1>2, <1>3, <1>4, <1>5, <1>6 DEF BootMoves, BootStep

FailInv == \A b \in Bootstraps : FailedWell(b)

LEMMA FailStep == Types /\ MadeInv /\ FailInv /\ [Next]_vars => FailInv'
<1> SUFFICES ASSUME Types, MadeInv, FailInv, [Next]_vars PROVE FailInv'
  OBVIOUS
<1>1. ASSUME NEW b \in Bootstraps, BootMoves(b) PROVE FailInv'
  <2>1. env' = env /\ \A c \in Bootstraps \ {b} : bpc'[c] = bpc[c]
    BY <1>1, BootStepRuns, BootMoveFacts DEF BootMoves, StartBootstrap, Types, BootTypes
  <2> QED
    BY <1>1, <2>1, FailNext DEF FailInv, FailedWell, Types
<1>2. ASSUME UNCHANGED <<bpc, env>> PROVE FailInv'
  BY <1>2 DEF FailInv, FailedWell
<1> QED
  BY <1>1, <1>2, NextSplits, DoctorMoveFacts, QueueMoveFacts
  DEF EmulatorMoves, Reset, GetReady, InstanceStarts, vars, bootVars, restVars

(* Bootstrapping again, or twice at a time, or after a death halfway, fails *)
(* for no reason of its own: only a failing call, a slow container or a     *)
(* reset of the emulator under it makes a bootstrap fail.                   *)
THEOREM BootstrapIsRepeatable == Spec => []BootstrapsRepeat
<1>1. Init => MadeInv /\ FailInv
  BY DEF Init, MadeInv, Cleanly, FailInv, FailedWell
<1>2. FailInv => BootstrapsRepeat
  BY DEF FailInv, FailedWell, BootstrapsRepeat
<1> QED BY <1>1, <1>2, Typing, MadeStep, FailStep, PTL DEF Spec

-------------------------------------------------------------------------------
(* The files *)

(* What a bootstrap does to the files it writes, and to nobody else's stage. *)
FileMove(b) ==
    \/ /\ UNCHANGED <<files.generated, files.dotenv>>
       /\ bpc'[b] \notin PastWrite
       /\ bpc[b] \in PastWrite => "crash" \in env.faults
    \/ /\ bpc[b] = "write" /\ bpc'[b] = "writing"
       /\ files'.generated = "torn" /\ files'.dotenv = files.dotenv
    \/ /\ bpc[b] = "writing" /\ bpc'[b] = "copy"
       /\ files'.generated = "stack" /\ files'.dotenv = files.dotenv
    \/ /\ bpc[b] = "copy" /\ bpc'[b] = "copying" /\ files.dotenv = "none"
       /\ files'.generated = files.generated /\ files'.dotenv = "torn"
    \/ /\ bpc[b] = "copy" /\ bpc'[b] = "done" /\ files.dotenv # "none"
       /\ UNCHANGED <<files.generated, files.dotenv>>
    \/ /\ bpc[b] = "copying" /\ bpc'[b] = "done"
       /\ files'.generated = files.generated /\ files'.dotenv = files.generated

LEMMA FileMoves == ASSUME BootTypes, NEW b \in Bootstraps, BootMoves(b) PROVE FileMove(b)
<1> USE BootOrder DEF BootTypes, PastWrite, Copies, Boot, BootFails
<1>1. CASE StartBootstrap(b)
  BY <1>1 DEF StartBootstrap, stackVars, FileMove
<1>2. CASE BootCrash(b)
  BY <1>2 DEF BootCrash, stackVars, FileMove
<1>3. CASE CheckHealth(b)
  BY <1>3 DEF CheckHealth, stackVars, FileMove
<1>4. ASSUME NEW what \in {"bucket", "dlq", "queue", "db", "redis"},
             Create(b, what) \/ CreateFails(b, what)
      PROVE  FileMove(b)
  BY <1>4 DEF Create, CreateFails, FileMove
<1>5. CASE BlockPublicAccess(b) \/ GetDlqArn(b)
  BY <1>5 DEF BlockPublicAccess, GetDlqArn, stackVars, FileMove
<1>6. CASE WaitTcpPort(b)
  BY <1>6 DEF WaitTcpPort, stackVars, FileMove
<1>7. CASE BackUp(b)
  BY <1>7 DEF BackUp, FileMove
<1>8. CASE WriteEnv(b)
  BY <1>8 DEF WriteEnv, FileMove
<1>9. CASE CopyEnv(b)
  BY <1>9 DEF CopyEnv, FileMove
<1> QED
  BY <1>1, <1>2, <1>3, <1>4, <1>5, <1>6, <1>7, <1>8, <1>9 DEF BootMoves, BootStep

(* Without "overlap" nobody else is at work while b runs. *)
LEMMA NobodyElse ==
    ASSUME Types, Alone, NEW b \in Bootstraps, BootRuns(b), "overlap" \notin env.faults,
           NEW c \in Bootstraps \ {b}
    PROVE  bpc[c] \notin {"writing", "copying"}
BY BootOrder DEF Alone, BootRuns, BootRunning, PastBucket, PastDlq, PastQueue, PastDb, PastRedis,
   PastDbUp, PastRedisUp, PastWrite, Copies

WrittenInv ==
    \A b \in Bootstraps : /\ bpc[b] \in PastWrite => files.generated # "none"
                          /\ bpc[b] \in Copies => files.dotenv # "none"

TornInv ==
    files.generated = "torn" => "crash" \in env.faults \/ \E c \in Bootstraps : bpc[c] = "writing"

CopyInv ==
    env.faults \cap {"overlap", "crash"} = {} =>
        /\ files.dotenv = "torn" => \E c \in Bootstraps : bpc[c] = "copying"
        /\ \A b, c \in Bootstraps : ~(bpc[b] = "done" /\ bpc[c] = "copying")

FileInv == WrittenInv /\ TornInv /\ CopyInv

LEMMA FileNext ==
    ASSUME Types, Alone, FileInv, NEW b \in Bootstraps, BootMoves(b)
    PROVE  FileInv'
<1>1. FileMove(b) /\ env' = env /\ bpc \in [Bootstraps -> BootStages]
  BY FileMoves, BootMoveFacts DEF Types, BootTypes
<1>2. \A c \in Bootstraps \ {b} : bpc'[c] = bpc[c]
  BY BootStepRuns DEF BootMoves, StartBootstrap, Types, BootTypes
<1>3. files.generated # "torn" \/ "crash" \in env.faults \/ \E c \in Bootstraps : bpc[c] = "writing"
  BY DEF FileInv, TornInv
<1>4. WrittenInv'
  BY <1>1, <1>2 DEF FileInv, WrittenInv, FileMove, PastWrite, Copies
<1>5. TornInv'
  BY <1>1, <1>2 DEF FileInv, TornInv, FileMove, PastWrite, Copies
<1>6. CopyInv'
  <2> SUFFICES ASSUME env.faults \cap {"overlap", "crash"} = {}
               PROVE  /\ files'.dotenv = "torn" => \E c \in Bootstraps : bpc'[c] = "copying"
                      /\ \A a, c \in Bootstraps : ~(bpc'[a] = "done" /\ bpc'[c] = "copying")
    BY <1>1 DEF CopyInv
  <2>1. /\ files.dotenv = "torn" => \E c \in Bootstraps : bpc[c] = "copying"
        /\ \A a, c \in Bootstraps : ~(bpc[a] = "done" /\ bpc[c] = "copying")
        /\ \A a \in Bootstraps : bpc[a] = "done" => files.dotenv # "none"
    BY DEF FileInv, CopyInv, WrittenInv, Copies
  <2>2. CASE StartBootstrap(b)
    <3>1. files' = files /\ bpc[b] = "idle" /\ bpc' = [bpc EXCEPT ![b] = "health"]
      BY <2>2 DEF StartBootstrap, stackVars
    <3> QED
      BY <1>1, <2>1, <3>1
  <2>3. CASE BootStep(b) \/ BootCrash(b)
    <3>1. BootRuns(b) /\ \A c \in Bootstraps \ {b} : bpc[c] \notin {"writing", "copying"}
      BY <2>3, BootStepRuns, NobodyElse DEF Types
    <3>2. bpc[b] = "copying" => files.generated # "torn"
      BY <1>3, <3>1
    <3> QED
      BY <1>1, <1>2, <2>1, <3>1, <3>2 DEF FileMove, PastWrite, Copies
  <2> QED
    BY <2>2, <2>3 DEF BootMoves
<1> QED BY <1>4, <1>5, <1>6 DEF FileInv

LEMMA FileStep == Types /\ Alone /\ FileInv /\ [Next]_vars => FileInv'
<1> SUFFICES ASSUME Types, Alone, FileInv, [Next]_vars PROVE FileInv'
  OBVIOUS
<1>1. ASSUME UNCHANGED <<bpc, env, files>> PROVE FileInv'
  BY <1>1 DEF FileInv, WrittenInv, TornInv, CopyInv
<1> QED
  BY <1>1, FileNext, NextSplits, DoctorMoveFacts, QueueMoveFacts
  DEF EmulatorMoves, Reset, GetReady, InstanceStarts, vars, bootVars, stackVars, restVars

LEMMA BootInvariant == Spec => [](Alone /\ MadeInv /\ FileInv)
<1>1. Init => Alone /\ MadeInv /\ FileInv
  BY BootOrder, CheckOrder
  DEF Init, Alone, BootRuns, DoctorRuns, BootRunning, DoctorRunning, BeforeSend, PastBucket,
      PastDlq, PastQueue, PastDb, PastRedis, PastDbUp, PastRedisUp, PastWrite, Copies,
      MadeInv, Cleanly, FileInv, WrittenInv, TornInv, CopyInv
<1> QED BY <1>1, Typing, AloneStep, MadeStep, FileStep, PTL DEF Spec

(* A bootstrap that reports completion left everything the API and the      *)
(* worker connect to in place and reachable, and files that are whole but   *)
(* for another bootstrap's writing, or for a death or an overlap.           *)
THEOREM CompletionIsTrue == Spec => []CompletedMeansProvisioned
<1>1. Alone /\ MadeInv /\ FileInv => CompletedMeansProvisioned
  <2> SUFFICES ASSUME MadeInv, FileInv, NEW b \in Bootstraps, bpc[b] = "done"
               PROVE  /\ b \in clean => ApiServed /\ "dlq" \in made
                      /\ "none" \notin {files.generated, files.dotenv}
                      /\ files.generated = "torn" =>
                            "crash" \in env.faults \/ \E c \in Bootstraps : bpc[c] = "writing"
                      /\ files.dotenv = "torn" => env.faults \cap {"overlap", "crash"} # {}
    BY DEF CompletedMeansProvisioned
  <2>1. b \in clean => ApiServed /\ "dlq" \in made
    BY DEF MadeInv, Made, ApiServed, PastBucket, PastDlq, PastQueue, PastDb, PastRedis, PastDbUp,
       PastRedisUp, PastWrite, Copies
  <2>2. "none" \notin {files.generated, files.dotenv}
    BY DEF FileInv, WrittenInv, PastWrite, Copies
  <2> QED
    BY <2>1, <2>2 DEF FileInv, TornInv, CopyInv
<1> QED BY <1>1, BootInvariant, PTL

-------------------------------------------------------------------------------
(* Why a check fails *)

Quiet == env.faults \cap {"flaky", "reset", "traffic", "overlap", "crash"} = {}

(* Nobody but the one doctor at work has a message on the queue. *)
QuietQueue ==
    /\ current = {}
    /\ \A e \in Events : place[e] = "none"
    /\ \A d \in Doctors : /\ place[d] \in {"queued", "inFlight"} => dpc[d] \in {"receive", "delete"}
                          /\ dpc[d] = "receive" => place[d] = "queued"
                          /\ dpc[d] \in {"receive", "delete"} => "queue" \in made

(* A doctor that started on a provisioned stack has met no failure. *)
Grounded(d) ==
    /\ ApiServed /\ d \in url /\ ok[d] /\ dpc[d] \notin {"idle", "fail"}
    /\ dpc[d] = "get" => d \in objects

QuietGround == /\ \A d \in Doctors : dpc[d] = "idle" => ok[d]
               /\ \A d \in ground : Grounded(d)

GroundInv == Quiet => QuietQueue /\ QuietGround

LEMMA ProvisionedServes == MadeInv /\ Provisioned => ApiServed
BY DEF Provisioned, MadeInv, Made, ApiServed, PastBucket, PastDlq, PastQueue, PastDb, PastRedis,
   PastDbUp, PastRedisUp, PastWrite, Copies

(* A doctor that starts on a provisioned stack finds the queue's URL. *)
LEMMA GroundHasUrl ==
    ASSUME Types, FileInv, MadeInv, Quiet, NEW d \in Doctors, StartDoctor(d), Provisioned
    PROVE  d \in url'
<1>1. PICK b \in Bootstraps : bpc[b] = "done"
  BY DEF Provisioned
<1>2. files.generated # "none"
  BY <1>1 DEF FileInv, WrittenInv, PastWrite, Copies
<1>3. files.generated # "torn"
  <2>1. \A c \in Bootstraps : ~BootRuns(c)
    BY DEF StartDoctor, MayStart, Quiet
  <2>2. \A c \in Bootstraps : bpc[c] # "writing"
    BY <2>1, BootOrder DEF BootRuns, BootRunning, PastBucket, PastDlq, PastQueue, PastDb,
       PastRedis, PastDbUp, PastRedisUp, PastWrite
  <2> QED
    BY <2>2 DEF FileInv, TornInv, Quiet
<1>4. files.generated = "stack"
  BY <1>2, <1>3 DEF Types, BootTypes
<1> QED
  BY <1>4 DEF StartDoctor

(* Steps that take nothing from the stack, the queue or the doctors. *)
LEMMA GroundKept ==
    ASSUME GroundInv, made \subseteq made', up \subseteq up',
           UNCHANGED <<env, dpc, ok, url, objects, ground, place, current>>
    PROVE  GroundInv'
BY DEF GroundInv, Quiet, QuietQueue, QuietGround, Grounded, ApiServed

(* A check that changes no message, in a quiet environment. *)
LEMMA GroundChecks ==
    ASSUME Types, Quiet, QuietQueue, QuietGround,
           NEW d \in Doctors, NEW at \in DoctorRunning \ {"send", "receive", "delete"},
           Check(d, at) \/ CheckFails(d, at), d \in ground => Check(d, at),
           at = "put" /\ d \in ground => d \in objects',
           objects \subseteq objects' \cup {d},
           UNCHANGED <<env, made, up, url, ground, place, current>>
    PROVE  GroundInv'
<1>1. /\ dpc[d] = at
      /\ \A f \in Doctors \ {d} : dpc'[f] = dpc[f] /\ ok'[f] = ok[f]
      /\ Check(d, at) => /\ ok'[d] = ok[d]
                        /\ dpc'[d] = IF at = "ping" /\ ~ok[d] THEN "fail" ELSE AfterCheck[at]
      /\ dpc'[d] # "idle"
      /\ dpc'[d] \in {AfterCheck[at], SkipTo(at), "fail"}
  BY CheckFacts
<1>2. dpc'[d] \notin {"receive", "delete"}
  BY <1>1, CheckOrder DEF DoctorRunning, BeforeSend
<1>3. QuietQueue'
  BY <1>1, <1>2 DEF QuietQueue, DoctorRunning, BeforeSend
<1>4. ASSUME d \in ground PROVE Grounded(d)'
  <2>1. ok[d] /\ d \in url /\ ApiServed
    BY <1>4 DEF QuietGround, Grounded
  <2>2. dpc'[d] = AfterCheck[at] /\ ok'[d] = ok[d]
    BY <1>1, <1>4, <2>1
  <2>3. AfterCheck[at] \notin {"idle", "fail"} /\ (AfterCheck[at] = "get" => at = "put")
    BY CheckOrder DEF DoctorRunning, BeforeSend
  <2> QED
    BY <1>4, <2>1, <2>2, <2>3 DEF Grounded, ApiServed
<1>5. ASSUME NEW f \in ground \ {d} PROVE Grounded(f)'
  <2>1. Grounded(f) /\ f \in Doctors
    BY DEF QuietGround, Types, DoctorTypes
  <2> QED
    BY <1>1, <2>1 DEF Grounded, ApiServed
<1>6. QuietGround'
  BY <1>1, <1>4, <1>5 DEF QuietGround
<1> QED BY <1>3, <1>6 DEF GroundInv

LEMMA DoctorKeepsGround ==
    ASSUME Types, MessageInv, Alone, MadeInv, FileInv, Quiet, QuietQueue, QuietGround,
           NEW d \in Doctors, DoctorMoves(d)
    PROVE  GroundInv'
<1>0. /\ UNCHANGED <<made, up, env, current>>
      /\ \A f \in {"flaky", "reset", "traffic", "overlap", "crash"} : f \notin env.faults
      /\ dpc \in [Doctors -> DoctorStages] /\ ground \subseteq Doctors
  BY DoctorMoveFacts DEF stackVars, restVars, Quiet, Types, DoctorTypes
<1>1. CASE StartDoctor(d)
  <2>1. /\ dpc[d] = "idle" /\ dpc' = [dpc EXCEPT ![d] = "http"]
        /\ ground' = IF Provisioned THEN ground \cup {d} ELSE ground
        /\ url \subseteq url'
        /\ UNCHANGED <<ok, objects, place>>
    BY <1>1 DEF StartDoctor, queueVars
  <2>2. QuietQueue'
    BY <1>0, <2>1 DEF QuietQueue
  <2>3. d \notin ground /\ ok[d]
    BY <2>1 DEF QuietGround, Grounded
  <2>4. \A f \in ground : Grounded(f)'
    BY <1>0, <2>1, <2>3 DEF QuietGround, Grounded, ApiServed
  <2>5. Provisioned => Grounded(d)'
    BY <1>0, <1>1, <2>1, <2>3, GroundHasUrl, ProvisionedServes DEF Grounded, ApiServed
  <2> QED
    BY <1>0, <2>1, <2>2, <2>4, <2>5 DEF GroundInv, QuietGround
<1>2. ASSUME NEW at \in {"http", "head", "get", "attributes", "pgSelect", "ping"}, Look(d, at)
      PROVE  GroundInv'
  <2>1. d \in ground => Serves(d, at)
    <3>1. d \in ground /\ dpc[d] = at => ApiServed /\ d \in url /\ (at = "get" => d \in objects)
      BY DEF QuietGround, Grounded
    <3>2. dpc[d] = at
      BY <1>2 DEF Look, Check, CheckFails
    <3> QED
      BY <3>1, <3>2 DEF Serves, ApiServed
  <2>2. Check(d, at) \/ CheckFails(d, at)
    BY <1>2 DEF Look
  <2>3. d \in ground => Check(d, at)
    BY <1>0, <1>2, <2>1 DEF Look
  <2>4. UNCHANGED <<url, objects, ground, place>>
    BY <1>2 DEF Look, queueVars
  <2>5. at \in DoctorRunning \ {"send", "receive", "delete"} /\ at # "put"
    BY DEF DoctorRunning, BeforeSend
  <2> QED
    BY <1>0, <2>2, <2>3, <2>4, <2>5, GroundChecks
<1>3. ASSUME NEW at \in {"put", "remove"}, Touch(d, at) PROVE GroundInv'
  <2>1. d \in ground => Serves(d, at)
    BY DEF QuietGround, Grounded, Serves, ApiServed
  <2>2. Check(d, at) \/ CheckFails(d, at)
    BY <1>3 DEF Touch
  <2>3. d \in ground => Check(d, at) /\ (at = "put" => d \in objects')
    BY <1>0, <1>3, <2>1 DEF Touch
  <2>4. objects \subseteq objects' \cup {d} /\ UNCHANGED <<url, ground, place>>
    BY <1>3 DEF Touch, queueVars
  <2>5. at \in DoctorRunning \ {"send", "receive", "delete"}
    BY DEF DoctorRunning, BeforeSend
  <2> QED
    BY <1>0, <2>2, <2>3, <2>4, <2>5, GroundChecks
<1>4. ASSUME NEW at \in {"send", "receive", "delete"}, Check(d, at) \/ (d \notin ground /\ CheckFails(d, at)),
             QuietQueue', UNCHANGED <<url, objects, ground>>
      PROVE  GroundInv'
  <2>1. at \in DoctorRunning
    BY DEF DoctorRunning, BeforeSend
  <2>2. /\ \A f \in Doctors \ {d} : dpc'[f] = dpc[f] /\ ok'[f] = ok[f]
        /\ Check(d, at) => ok'[d] = ok[d] /\ dpc'[d] = AfterCheck[at]
        /\ dpc'[d] # "idle"
    BY <1>4, <2>1, CheckFacts
  <2>3. AfterCheck[at] \in {"receive", "delete", "pgSelect"}
    BY CheckOrder
  <2>4. ASSUME NEW f \in ground PROVE Grounded(f)'
    <3>1. Grounded(f) /\ f \in Doctors
      BY <1>0 DEF QuietGround
    <3> QED
      BY <1>0, <1>4, <2>2, <2>3, <3>1 DEF Grounded, ApiServed
  <2> QED
    BY <1>4, <2>2, <2>4 DEF GroundInv, QuietGround
<1>5. CASE DoctorSends(d)
  <2>1. dpc[d] = "send" /\ UNCHANGED <<url, objects, ground>>
    BY <1>5 DEF DoctorSends, Check, CheckFails
  <2>2. place[d] = "none"
    BY <2>1 DEF MessageInv, OwnMessage, BeforeSend
  <2>3. \/ "queue" \in made /\ Check(d, "send") /\ place' = [place EXCEPT ![d] = "queued"]
        \/ "queue" \notin made /\ CheckFails(d, "send") /\ place' = place
    BY <1>0, <1>5 DEF DoctorSends, Serves
  <2>4. /\ \A f \in Doctors \ {d} : dpc'[f] = dpc[f]
        /\ dpc'[d] = IF "queue" \in made THEN "receive" ELSE "pgSelect"
    BY <2>3, CheckFacts, CheckOrder DEF DoctorRunning, BeforeSend
  <2>5. QuietQueue'
    BY <1>0, <2>2, <2>3, <2>4, MessageKinds DEF QuietQueue, Types, QueueTypes
  <2>6. d \in ground => "queue" \in made
    BY DEF QuietGround, Grounded, ApiServed
  <2> QED
    BY <1>4, <2>1, <2>3, <2>5, <2>6
<1>6. CASE DoctorReceives(d)
  <2>1. PICK m \in Messages :
          /\ place[m] = "queued" /\ place' = [place EXCEPT ![m] = "inFlight"]
          /\ IF m = d THEN Check(d, "receive") ELSE CheckFails(d, "receive")
    BY <1>6 DEF DoctorReceives
  <2>2. m = d
    <3>1. m \in Doctors /\ dpc[m] \in {"receive", "delete"} /\ dpc[d] = "receive"
      BY <2>1 DEF QuietQueue, Messages, Check, CheckFails
    <3> QED
      BY <1>0, <3>1, CheckOrder DEF Alone, DoctorRuns, DoctorRunning
  <2>3. /\ \A f \in Doctors \ {d} : dpc'[f] = dpc[f]
        /\ dpc[d] = "receive" /\ dpc'[d] = "delete"
    BY <2>1, <2>2, CheckFacts, CheckOrder DEF DoctorRunning
  <2>4. QuietQueue'
    BY <1>0, <2>1, <2>2, <2>3, MessageKinds DEF QuietQueue, Types, QueueTypes
  <2> QED
    BY <1>4, <1>6, <2>1, <2>2, <2>4 DEF DoctorReceives
<1>7. CASE DoctorReceivesNothing(d)
  <2>1. dpc[d] = "receive" /\ place[d] # "queued"
    BY <1>7, MessageKinds DEF DoctorReceivesNothing, CheckFails, Quiet
  <2> QED
    BY <2>1 DEF QuietQueue
<1>8. CASE DoctorDeletes(d)
  <2>1. dpc[d] = "delete" /\ UNCHANGED <<url, objects, ground>>
    BY <1>8 DEF DoctorDeletes, Check, CheckFails
  <2>2. took[d] = d /\ "queue" \in made
    BY <2>1 DEF MessageInv, OwnMessage, QuietQueue
  <2>3. /\ Check(d, "delete")
        /\ place' = [place EXCEPT ![d] = IF @ \in {"queued", "inFlight"} THEN "deleted" ELSE @]
    BY <1>0, <1>8, <2>2 DEF DoctorDeletes, Serves
  <2>4. /\ \A f \in Doctors \ {d} : dpc'[f] = dpc[f]
        /\ dpc'[d] = "pgSelect"
    BY <2>3, CheckFacts, CheckOrder DEF DoctorRunning
  <2>5. QuietQueue'
    BY <1>0, <2>1, <2>3, <2>4, MessageKinds DEF QuietQueue, Types, QueueTypes
  <2> QED
    BY <1>4, <2>1, <2>3, <2>5
<1>9. CASE DoctorCrash(d)
  BY <1>0, <1>9 DEF DoctorCrash
<1>10. ~DoctorReceiveLost(d)
  BY DEF DoctorReceiveLost, AnswerLost, Quiet
<1> QED
  BY <1>1, <1>2, <1>3, <1>5, <1>6, <1>7, <1>8, <1>9, <1>10 DEF DoctorMoves, DoctorStep

LEMMA QueueKeepsGround ==
    ASSUME Types, MessageInv, Quiet, QuietQueue, QuietGround, QueueMoves
    PROVE  GroundInv'
<1>0. /\ UNCHANGED <<dpc, ok, url, objects, ground, made, up, env>> /\ "traffic" \notin env.faults
      /\ current = {}
  BY QueueMoveFacts DEF doctorVars, stackVars, restVars, Quiet, QuietQueue
<1>1. PICK m \in Messages : Expire(m)
  BY <1>0 DEF QueueMoves, Publish, ConsumerReceives, ConsumerReceiveLost, ConsumerDeletes,
             ConsumerFails
<1>2. /\ place[m] = "inFlight" /\ current' = {}
      /\ place' = [place EXCEPT ![m] = IF receives[m] >= MaxReceives THEN "dead" ELSE "queued"]
  BY <1>0, <1>1 DEF Expire
<1>3. m \in Doctors /\ dpc[m] = "delete"
  BY <1>2 DEF QuietQueue, Messages
<1>4. QuietQueue'
  BY <1>0, <1>2, <1>3, MessageKinds DEF QuietQueue, Types, QueueTypes
<1>5. QuietGround'
  BY <1>0 DEF QuietGround, Grounded, ApiServed
<1> QED BY <1>4, <1>5 DEF GroundInv

LEMMA GroundStep ==
    Types /\ MessageInv /\ Alone /\ MadeInv /\ FileInv /\ GroundInv /\ [Next]_vars => GroundInv'
<1> SUFFICES ASSUME Types, MessageInv, Alone, MadeInv, FileInv, GroundInv, [Next]_vars
             PROVE  GroundInv'
  OBVIOUS
<1>1. ASSUME NEW b \in Bootstraps, BootMoves(b) PROVE GroundInv'
  <2>1. UNCHANGED <<env, dpc, ok, url, objects, ground, place, current>>
    BY <1>1, BootMoveFacts DEF doctorVars, queueVars
  <2>2. made \subseteq made' /\ up \subseteq up'
    BY <1>1, BootGrows DEF BootMoves, StartBootstrap, stackVars
  <2> QED
    BY <2>1, <2>2, GroundKept
<1>2. ASSUME GetReady \/ (\E i \in {"db", "redis"} : InstanceStarts(i)) \/ UNCHANGED vars
      PROVE  GroundInv'
  BY <1>2, GroundKept
  DEF GetReady, InstanceStarts, vars, doctorVars, queueVars, stackVars, restVars
<1>3. env' = env
  BY <1>1, <1>2, NextSplits, BootMoveFacts, DoctorMoveFacts, QueueMoveFacts
  DEF EmulatorMoves, Reset, GetReady, InstanceStarts, vars, restVars
<1>4. CASE ~Quiet
  BY <1>3, <1>4 DEF GroundInv, Quiet
<1>5. CASE Quiet
  <2>1. QuietQueue /\ QuietGround /\ ~Reset
    BY <1>5 DEF GroundInv, Quiet, Reset
  <2>2. ASSUME NEW d \in Doctors, DoctorMoves(d) PROVE GroundInv'
    BY <1>5, <2>1, <2>2, DoctorKeepsGround
  <2>3. CASE QueueMoves
    BY <1>5, <2>1, <2>3, QueueKeepsGround
  <2> QED
    BY <1>1, <1>2, <2>1, <2>2, <2>3, NextSplits DEF EmulatorMoves
<1> QED BY <1>4, <1>5

ReadyInv == ready.on /\ ready.status = "unavailable" => "flaky" \in env.faults

LEMMA ReadyStep == Types /\ MadeInv /\ ReadyInv /\ [Next]_vars => ReadyInv'
<1> SUFFICES ASSUME Types, MadeInv, ReadyInv, [Next]_vars PROVE ReadyInv'
  OBVIOUS
<1>1. CASE GetReady
  <2>1. env' = env /\ Provisioned \in BOOLEAN
    BY <1>1 DEF GetReady, Provisioned
  <2>2. \/ ready' = [status |-> "ok", on |-> Provisioned]
        \/ /\ ~ApiServed \/ "flaky" \in env.faults
           /\ ready' = [status |-> "unavailable", on |-> Provisioned]
    BY <1>1 DEF GetReady
  <2> QED
    BY <2>1, <2>2, ProvisionedServes DEF ReadyInv
<1>2. ASSUME UNCHANGED <<ready, env>> PROVE ReadyInv'
  BY <1>2 DEF ReadyInv
<1> QED
  BY <1>1, <1>2, NextSplits, BootMoveFacts, DoctorMoveFacts, QueueMoveFacts
  DEF EmulatorMoves, Reset, InstanceStarts, vars, restVars

(* On a stack that a completed bootstrap left, with nobody else at the      *)
(* queue and no failing call, no doctor fails, run after run, whatever      *)
(* earlier doctors left behind; and the API is unavailable on a provisioned *)
(* stack only when a call fails.                                            *)
THEOREM DoctorIsTruthful == Spec => []CheckFailuresExplained
<1>1. Init => GroundInv /\ ReadyInv
  BY MessageKinds DEF Init, GroundInv, QuietQueue, QuietGround, ReadyInv
<1>2. GroundInv /\ ReadyInv => CheckFailuresExplained
  BY DEF GroundInv, QuietGround, Grounded, Quiet, ReadyInv, CheckFailuresExplained
<1> QED
  BY <1>1, <1>2, Typing, BootInvariant, GroundStep, ReadyStep, PTL DEF Spec

===============================================================================
