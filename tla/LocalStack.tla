------------------------------- MODULE LocalStack -------------------------------
(***************************************************************************)
(* The local environment: bootstrap-ministack.ts, which provisions the     *)
(* emulated AWS resources and writes the environment files, and            *)
(* doctor-ministack.ts, which tries them out, next to the worker's         *)
(* consumer, whose queue the doctor borrows for its test message, and the  *)
(* readiness check of the API.  Scripts are processes of their own: they   *)
(* may overlap, die, and be run again, and `local:reset` empties the       *)
(* emulator under them.                                                    *)
(***************************************************************************)
EXTENDS Integers, FiniteSets

CONSTANTS
    Bootstraps,    \* runs of the bootstrap script
    Doctors,       \* runs of the doctor script; its test message has its name
    Events,        \* messages of the relay
    MaxTries,      \* tries of the health check; 30 in the script
    MaxReceives,   \* maxReceiveCount of the redrive policy; 5 in the script
    MaxResets,     \* bound on the resets of the emulator
    Environments   \* what may happen together, and how many scripts are run

FaultKinds == {"flaky",    \* a call fails, or takes effect and its answer is lost
               "slow",     \* a container takes longer than the wait for its port
               "crash",    \* a script is killed
               "overlap",  \* scripts run at the same time
               "reset",    \* the emulator is reset
               "traffic"}  \* the relay and the consumer use the queue

(* The marker of a doctor that received no message. *)
Nothing  == "nothing"

ASSUME LocalStackAssumption ==
    /\ MaxTries \in Nat \ {0}
    /\ MaxReceives \in Nat \ {0}
    /\ MaxResets \in Nat
    /\ Environments \subseteq [faults : SUBSET FaultKinds, bootstraps : Nat, doctors : Nat]
    /\ Events \cap Doctors = {} /\ Nothing \notin Events \cup Doctors
    /\ IsFiniteSet(Doctors)

VARIABLES
    env,        \* the environment, fixed
    made,       \* AWS resources of the emulator
    up,         \* instances whose port is open
    files,      \* generated (.env.local.generated), backup (.bak), dotenv (.env)
    bpc,        \* bpc[b]: the stage of bootstrap b
    tries,      \* tries[b]: failed health checks of b
    clean,      \* bootstraps no reset came after the start of (history)
    dpc,        \* dpc[d]: the stage of doctor d, or its verdict
    url,        \* doctors that found the URL of the queue
    ok,         \* ok[d]: no check of d has failed so far
    ground,     \* doctors that started on a provisioned stack (history)
    objects,    \* test objects in the bucket
    place,      \* place[m]: where message m is
    receives,   \* receives[m]: times m was received
    took,       \* took[d]: the message doctor d received (history)
    current,    \* the messages the consumer is working on
    attempts,   \* attempts[e]: times the consumer received event e (history)
    unseen,     \* unseen[e]: receives of e whose answer was lost (history)
    handled,    \* events the consumer handled
    ready,      \* the last readiness of the API, and what it was asked on (history)
    resets      \* resets so far

bootVars   == <<bpc, tries>>
doctorVars == <<dpc, url, ok, ground, objects, took>>
queueVars  == <<place, receives, current, attempts, unseen, handled>>
stackVars  == <<made, up, files>>
restVars   == <<env, clean, ready, resets>>
vars == <<bootVars, doctorVars, queueVars, stackVars, restVars>>

Messages == Events \cup Doctors

Resources == {"bucket", "private", "dlq", "queue", "db", "redis"}

(* The stages of bootstrap's run() and of the doctor's, in their order.     *)
AfterBoot == [health |-> "bucket", bucket |-> "private", private |-> "dlq", dlq |-> "arn",
              arn |-> "queue", queue |-> "db", db |-> "redis", redis |-> "dbPort",
              dbPort |-> "redisPort", redisPort |-> "backup", backup |-> "write",
              write |-> "writing", writing |-> "copy", copy |-> "copying",
              copying |-> "done"]
AfterCheck == [http |-> "head", head |-> "put", put |-> "get", get |-> "remove",
               remove |-> "attributes", attributes |-> "send", send |-> "receive",
               receive |-> "delete", delete |-> "pgSelect", pgSelect |-> "ping",
               ping |-> "pass"]

(* Where the doctor goes on when a check fails: the next function.          *)
SkipTo(at) ==
    CASE at = "http" -> "head"
      [] at \in {"head", "put", "get", "remove"} -> "attributes"
      [] at \in {"attributes", "send", "receive", "delete"} -> "pgSelect"
      [] at = "pgSelect" -> "ping"
      [] at = "ping" -> "fail"

BootRuns(b)   == bpc[b] \in DOMAIN AfterBoot \cup {"dbLate"}
DoctorRuns(d) == dpc[d] \in DOMAIN AfterCheck

(* `pnpm` runs the scripts one after the other, terminals do not. *)
MayStart ==
    \/ "overlap" \in env.faults
    \/ (\A b \in Bootstraps : ~BootRuns(b)) /\ (\A d \in Doctors : ~DoctorRuns(d))

Init ==
    /\ env \in Environments
    /\ made = {} /\ up = {}
    /\ files \in [generated : {"none", "stack"}, backup : {"none"},
                  dotenv : {"none", "own"}]
    /\ bpc = [b \in Bootstraps |-> "idle"]
    /\ tries = [b \in Bootstraps |-> 0]
    /\ clean = {}
    /\ dpc = [d \in Doctors |-> "idle"]
    /\ url = {} /\ ok = [d \in Doctors |-> TRUE]
    /\ ground = {} /\ objects = {}
    /\ place = [m \in Messages |-> "none"]
    /\ receives = [m \in Messages |-> 0]
    /\ took = [d \in Doctors |-> Nothing]
    /\ current = {}
    /\ attempts = [e \in Events |-> 0]
    /\ unseen = [e \in Events |-> 0]
    /\ handled = {}
    /\ ready = [status |-> "unknown", on |-> FALSE]
    /\ resets = 0

-------------------------------------------------------------------------------
(* bootstrap-ministack.ts *)

Boot(b, at) == bpc[b] = at /\ bpc' = [bpc EXCEPT ![b] = AfterBoot[at]]

BootFails(b) == bpc' = [bpc EXCEPT ![b] = "failed"]

StartBootstrap(b) ==
    /\ bpc[b] = "idle"
    /\ Cardinality({c \in Bootstraps : bpc[c] # "idle"}) < env.bootstraps
    /\ MayStart
    /\ bpc'   = [bpc EXCEPT ![b] = "health"]
    /\ clean' = clean \cup {b}
    /\ UNCHANGED <<tries, doctorVars, queueVars, stackVars, env, ready, resets>>

(* Seeded fault: one try more than there are. *)
CheckHealthOnceMore(b) ==
    /\ \/ Boot(b, "health") /\ UNCHANGED tries
       \/ /\ bpc[b] = "health" /\ "flaky" \in env.faults
          /\ tries' = [tries EXCEPT ![b] = @ + 1]
          /\ IF tries[b] < MaxTries THEN UNCHANGED bpc ELSE BootFails(b)
    /\ UNCHANGED <<doctorVars, queueVars, stackVars, restVars>>

CheckHealth(b) ==
    /\ \/ Boot(b, "health") /\ UNCHANGED tries
       \/ /\ bpc[b] = "health" /\ "flaky" \in env.faults
          /\ tries' = [tries EXCEPT ![b] = @ + 1]
          /\ IF tries[b] + 1 < MaxTries THEN UNCHANGED bpc ELSE BootFails(b)
    /\ UNCHANGED <<doctorVars, queueVars, stackVars, restVars>>

(* Seeded fault: what exists already is an error. *)
CreateStrictly(b, what) ==
    /\ IF what \in made THEN bpc[b] = what /\ BootFails(b) ELSE Boot(b, what)
    /\ made' = made \cup {what}
    /\ UNCHANGED <<tries, doctorVars, queueVars, up, files, restVars>>

(* The resource is made, or exists already, which is as good.  Creating a   *)
(* queue again with the same attributes is no error either, and the ARN put *)
(* together when it cannot be read is the one the emulator uses.            *)
Create(b, what) ==
    /\ Boot(b, what)
    /\ made' = made \cup {what}
    /\ UNCHANGED <<tries, doctorVars, queueVars, up, files, restVars>>

(* Seeded fault: a failed creation is only a warning. *)
CreateWarns(b, what) ==
    /\ Boot(b, what)
    /\ "flaky" \in env.faults
    /\ UNCHANGED <<tries, doctorVars, queueVars, stackVars, restVars>>

(* The call fails, and may have taken effect. *)
CreateFails(b, what) ==
    /\ bpc[b] = what
    /\ "flaky" \in env.faults \/ (what = "queue" /\ "dlq" \notin made)
    /\ made' \in {made, made \cup {what}}
    /\ BootFails(b)
    /\ UNCHANGED <<tries, doctorVars, queueVars, up, files, restVars>>

(* A failure here only costs a warning. *)
BlockPublicAccess(b) ==
    /\ Boot(b, "private")
    /\ \/ "bucket" \in made /\ made' = made \cup {"private"}
       \/ ("flaky" \in env.faults \/ "bucket" \notin made) /\ UNCHANGED made
    /\ UNCHANGED <<tries, doctorVars, queueVars, up, files, restVars>>

GetDlqArn(b) ==
    /\ Boot(b, "arn")
    /\ UNCHANGED <<tries, doctorVars, queueVars, stackVars, restVars>>

(* The port opens after the wait has given up, or never. *)
Late(what) == what \notin up /\ ("slow" \in env.faults \/ what \notin made)

(* Both ports are waited for, the second one too if the first wait failed. *)
WaitTcpPort(b) ==
    /\ \/ "db" \in up /\ Boot(b, "dbPort")
       \/ Late("db") /\ bpc[b] = "dbPort" /\ bpc' = [bpc EXCEPT ![b] = "dbLate"]
       \/ "redis" \in up /\ Boot(b, "redisPort")
       \/ Late("redis") /\ bpc[b] = "redisPort" /\ BootFails(b)
       \/ bpc[b] = "dbLate" /\ BootFails(b)
    /\ UNCHANGED <<tries, doctorVars, queueVars, stackVars, restVars>>

BackUp(b) ==
    /\ Boot(b, "backup")
    /\ files' = IF files.generated = "none" THEN files
                ELSE [files EXCEPT !.backup = files.generated]
    /\ UNCHANGED <<tries, doctorVars, queueVars, made, up, restVars>>

(* writeFileSync empties the file first; so does the copy below.            *)
WriteEnv(b) ==
    /\ \/ Boot(b, "write") /\ files' = [files EXCEPT !.generated = "torn"]
       \/ Boot(b, "writing") /\ files' = [files EXCEPT !.generated = "stack"]
    /\ UNCHANGED <<tries, doctorVars, queueVars, made, up, restVars>>

(* .env is only written if there is none, not even if it is torn. *)
CopyEnv(b) ==
    /\ \/ files.dotenv = "none" /\ Boot(b, "copy") /\ files' = [files EXCEPT !.dotenv = "torn"]
       \/ /\ files.dotenv # "none" /\ bpc[b] = "copy"
          /\ bpc' = [bpc EXCEPT ![b] = "done"] /\ UNCHANGED files
       \/ Boot(b, "copying") /\ files' = [files EXCEPT !.dotenv = files.generated]
    /\ UNCHANGED <<tries, doctorVars, queueVars, made, up, restVars>>

BootCrash(b) ==
    /\ "crash" \in env.faults /\ BootRuns(b)
    /\ bpc' = [bpc EXCEPT ![b] = "crashed"]
    /\ UNCHANGED <<tries, doctorVars, queueVars, stackVars, restVars>>

BootStep(b) ==
    \/ CheckHealth(b)
    \/ \E what \in {"bucket", "dlq", "queue", "db", "redis"} :
          Create(b, what) \/ CreateFails(b, what)
    \/ BlockPublicAccess(b) \/ GetDlqArn(b)
    \/ WaitTcpPort(b) \/ BackUp(b) \/ WriteEnv(b) \/ CopyEnv(b)

-------------------------------------------------------------------------------
(* doctor-ministack.ts *)

(* A bootstrap completed, and its resources have not been reset since. *)
Provisioned == \E b \in Bootstraps : bpc[b] = "done" /\ b \in clean

(* loadEnv: the generated file goes before .env, whatever is in it.  A .env *)
(* of the developer's own leads elsewhere, and such a doctor is left out.   *)
StartDoctor(d) ==
    /\ dpc[d] = "idle"
    /\ Cardinality({c \in Doctors : dpc[c] # "idle"}) < env.doctors
    /\ MayStart
    /\ files.generated # "none" \/ files.dotenv # "own"
    /\ dpc'    = [dpc EXCEPT ![d] = "http"]
    /\ url'    = IF "stack" = (IF files.generated # "none" THEN files.generated ELSE files.dotenv)
                 THEN url \cup {d} ELSE url
    /\ ground' = IF Provisioned THEN ground \cup {d} ELSE ground
    /\ UNCHANGED <<ok, objects, took, bootVars, queueVars, stackVars, restVars>>

Check(d, at) ==
    /\ dpc[d] = at
    /\ dpc' = [dpc EXCEPT ![d] = IF at = "ping" /\ ~ok[d] THEN "fail" ELSE AfterCheck[at]]
    /\ UNCHANGED ok

CheckFails(d, at) ==
    /\ dpc[d] = at
    /\ dpc' = [dpc EXCEPT ![d] = SkipTo(at)]
    /\ ok'  = [ok EXCEPT ![d] = FALSE]

(* What a check needs of the stack; reading the answer back is "get".       *)
Serves(d, at) ==
    CASE at \in {"head", "put", "remove"}  -> "bucket" \in made
      [] at = "get"                        -> d \in objects
      [] at = "attributes"                 -> d \in url /\ "queue" \in made
      [] at \in {"send", "delete"}         -> "queue" \in made
      [] at = "pgSelect"                   -> "db" \in up
      [] at = "ping"                       -> "redis" \in up
      [] OTHER                             -> TRUE

(* The checks that change nothing. *)
Look(d, at) ==
    /\ \/ Serves(d, at) /\ Check(d, at)
       \/ ("flaky" \in env.faults \/ ~Serves(d, at)) /\ CheckFails(d, at)
    /\ UNCHANGED <<url, objects, took, ground, bootVars, queueVars, stackVars, restVars>>

(* testS3's object is put and removed. *)
Touch(d, at) ==
    LET after == IF at = "put" THEN objects \cup {d} ELSE objects \ {d} IN
    /\ \/ Serves(d, at) /\ Check(d, at) /\ objects' = after
       \/ "flaky" \in env.faults /\ Serves(d, at) /\ CheckFails(d, at)
          /\ objects' \in {objects, after}
       \/ ~Serves(d, at) /\ CheckFails(d, at) /\ UNCHANGED objects
    /\ UNCHANGED <<url, took, ground, bootVars, queueVars, stackVars, restVars>>

DoctorSends(d) ==
    LET sent == [place EXCEPT ![d] = "queued"] IN
    /\ \/ Serves(d, "send") /\ Check(d, "send") /\ place' = sent
       \/ "flaky" \in env.faults /\ Serves(d, "send") /\ CheckFails(d, "send")
          /\ place' \in {place, sent}
       \/ ~Serves(d, "send") /\ CheckFails(d, "send") /\ UNCHANGED place
    /\ UNCHANGED <<url, objects, took, ground, receives, current, attempts, unseen, handled,
                   bootVars, stackVars, restVars>>

(* Seeded fault: whatever was received is taken for the test message. *)
DoctorTakesAny(d) ==
    /\ \E m \in Messages :
          /\ place[m] = "queued"
          /\ place'    = [place EXCEPT ![m] = "inFlight"]
          /\ receives' = [receives EXCEPT ![m] = @ + 1]
          /\ took'     = [took EXCEPT ![d] = m]
          /\ Check(d, "receive")
    /\ UNCHANGED <<url, objects, ground, current, attempts, unseen, handled,
                   bootVars, stackVars, restVars>>

(* One message is received, any of those on the queue.  If it is not the    *)
(* doctor's own the check fails, and the message is left to its visibility  *)
(* timeout.                                                                 *)
DoctorReceives(d) ==
    /\ \E m \in Messages :
          /\ place[m] = "queued"
          /\ place'    = [place EXCEPT ![m] = "inFlight"]
          /\ receives' = [receives EXCEPT ![m] = @ + 1]
          /\ took'     = [took EXCEPT ![d] = m]
          /\ IF m = d THEN Check(d, "receive") ELSE CheckFails(d, "receive")
    /\ UNCHANGED <<url, objects, ground, current, attempts, unseen, handled,
                   bootVars, stackVars, restVars>>

(* The queue is empty, or the call fails. *)
DoctorReceivesNothing(d) ==
    /\ "flaky" \in env.faults \/ \A m \in Messages : place[m] # "queued"
    /\ CheckFails(d, "receive")
    /\ UNCHANGED <<url, objects, took, ground, bootVars, queueVars, stackVars, restVars>>

(* A receive that takes effect and loses its answer: the message is in      *)
(* flight, and nobody has it.                                               *)
AnswerLost(m) ==
    /\ "flaky" \in env.faults /\ place[m] = "queued"
    /\ place'    = [place EXCEPT ![m] = "inFlight"]
    /\ receives' = [receives EXCEPT ![m] = @ + 1]
    /\ unseen'   = [e \in Events |-> IF e = m THEN unseen[e] + 1 ELSE unseen[e]]

(* The SDK gives up, or asks again. *)
DoctorReceiveLost(d) ==
    /\ \E m \in Messages : AnswerLost(m)
    /\ \/ CheckFails(d, "receive")
       \/ dpc[d] = "receive" /\ UNCHANGED <<dpc, ok>>
    /\ UNCHANGED <<url, objects, took, ground, current, attempts, handled,
                   bootVars, stackVars, restVars>>

(* Seeded fault: the test message is left on the queue. *)
DoctorLeaves(d) ==
    /\ Check(d, "delete")
    /\ UNCHANGED <<url, objects, took, ground, bootVars, queueVars, stackVars, restVars>>

(* The message goes, unless it is in the dead-letter queue by now. *)
DoctorDeletes(d) ==
    LET gone == [place EXCEPT ![took[d]] = IF @ \in {"queued", "inFlight"} THEN "deleted" ELSE @]
    IN
    /\ \/ Serves(d, "delete") /\ Check(d, "delete") /\ place' = gone
       \/ "flaky" \in env.faults /\ Serves(d, "delete") /\ CheckFails(d, "delete")
          /\ place' \in {place, gone}
       \/ ~Serves(d, "delete") /\ CheckFails(d, "delete") /\ UNCHANGED place
    /\ UNCHANGED <<url, objects, took, ground, receives, current, attempts, unseen, handled,
                   bootVars, stackVars, restVars>>

DoctorCrash(d) ==
    /\ "crash" \in env.faults /\ DoctorRuns(d)
    /\ dpc' = [dpc EXCEPT ![d] = "crashed"]
    /\ UNCHANGED <<url, ok, ground, objects, took, bootVars, queueVars, stackVars, restVars>>

DoctorStep(d) ==
    \/ \E at \in {"http", "head", "get", "attributes", "pgSelect", "ping"} : Look(d, at)
    \/ Touch(d, "put") \/ Touch(d, "remove")
    \/ DoctorSends(d) \/ DoctorReceives(d) \/ DoctorReceivesNothing(d) \/ DoctorReceiveLost(d)
    \/ DoctorDeletes(d)

-------------------------------------------------------------------------------
(* The emulator, the relay and the consumer *)

InstanceStarts(i) ==
    /\ i \in made \ up
    /\ up' = up \cup {i}
    /\ UNCHANGED <<bootVars, doctorVars, queueVars, made, files, restVars>>

(* pnpm local:reset *)
Reset ==
    /\ "reset" \in env.faults /\ resets < MaxResets
    /\ resets'  = resets + 1
    /\ made'    = {} /\ up' = {} /\ objects' = {}
    /\ clean'   = {} /\ ground' = {}
    /\ place'   = [m \in Messages |-> IF place[m] = "none" THEN "none" ELSE "wiped"]
    /\ current' = {}
    /\ UNCHANGED <<bootVars, dpc, url, ok, took, receives, attempts, unseen, handled, files,
                   env, ready>>

Publish(e) ==
    /\ "traffic" \in env.faults /\ "queue" \in made
    /\ place[e] = "none"
    /\ place' = [place EXCEPT ![e] = "queued"]
    /\ UNCHANGED <<receives, current, attempts, unseen, handled,
                   bootVars, doctorVars, stackVars, restVars>>

ConsumerReceives(m) ==
    /\ "traffic" \in env.faults
    /\ place[m] = "queued" /\ current = {}
    /\ place'    = [place EXCEPT ![m] = "inFlight"]
    /\ receives' = [receives EXCEPT ![m] = @ + 1]
    /\ current'  = {m}
    /\ attempts' = [e \in Events |-> IF e = m THEN attempts[e] + 1 ELSE attempts[e]]
    /\ UNCHANGED <<unseen, handled, bootVars, doctorVars, stackVars, restVars>>

(* pollLoop() logs the error and polls again. *)
ConsumerReceiveLost(m) ==
    /\ "traffic" \in env.faults /\ current = {}
    /\ AnswerLost(m)
    /\ UNCHANGED <<current, attempts, handled, bootVars, doctorVars, stackVars, restVars>>

(* An event is handled and deleted; a doctor's message has no type and is   *)
(* deleted as it is.                                                        *)
ConsumerDeletes(m) ==
    /\ m \in current
    /\ current' = {}
    /\ handled' = handled \cup ({m} \cap Events)
    /\ place'   = IF place[m] \in {"queued", "inFlight"} THEN [place EXCEPT ![m] = "deleted"]
                  ELSE place
    /\ UNCHANGED <<receives, attempts, unseen, bootVars, doctorVars, stackVars, restVars>>

ConsumerFails(m) ==
    /\ m \in current
    /\ current' = {}
    /\ UNCHANGED <<place, receives, attempts, unseen, handled,
                   bootVars, doctorVars, stackVars, restVars>>

(* The visibility timeout; a message received too often goes to the         *)
(* dead-letter queue instead of back.                                       *)
Expire(m) ==
    /\ place[m] = "inFlight"
    /\ place' = [place EXCEPT ![m] = IF receives[m] >= MaxReceives THEN "dead" ELSE "queued"]
    /\ UNCHANGED <<receives, current, attempts, unseen, handled,
                   bootVars, doctorVars, stackVars, restVars>>

ApiServed == {"bucket", "queue"} \subseteq made /\ {"db", "redis"} \subseteq up

(* GET /health/ready: every indicator is asked, the API having been started *)
(* with the .env that is there; "private" and "dlq" are none of theirs.     *)
GetReady ==
    /\ files.dotenv = "stack"
    /\ \/ ApiServed /\ ready' = [status |-> "ok", on |-> Provisioned]
       \/ /\ ~ApiServed \/ "flaky" \in env.faults
          /\ ready' = [status |-> "unavailable", on |-> Provisioned]
    /\ UNCHANGED <<bootVars, doctorVars, queueVars, stackVars, env, clean, resets>>

Next ==
    \/ \E b \in Bootstraps : StartBootstrap(b) \/ BootStep(b) \/ BootCrash(b)
    \/ \E d \in Doctors : StartDoctor(d) \/ DoctorStep(d) \/ DoctorCrash(d)
    \/ \E i \in {"db", "redis"} : InstanceStarts(i)
    \/ Reset \/ GetReady
    \/ \E e \in Events : Publish(e)
    \/ \E m \in Messages : \/ ConsumerReceives(m) \/ ConsumerReceiveLost(m)
                           \/ ConsumerDeletes(m) \/ ConsumerFails(m) \/ Expire(m)

Spec == Init /\ [][Next]_vars

-------------------------------------------------------------------------------
(* Properties *)

(* Every variable keeps its type; a script gives up in time, the queue      *)
(* redelivers no more often than it is told to, and what is part of a       *)
(* resource goes with it.                                                   *)
TypeOK ==
    /\ env \in Environments
    /\ made \subseteq Resources /\ up \subseteq made \cap {"db", "redis"}
    /\ "private" \in made \/ objects # {} => "bucket" \in made
    /\ files \in [generated : {"none", "torn", "stack"}, backup : {"none", "torn", "stack"},
                  dotenv : {"none", "own", "torn", "stack"}]
    /\ DOMAIN bpc = Bootstraps /\ clean \subseteq Bootstraps
    /\ tries \in [Bootstraps -> 0..MaxTries]
    /\ DOMAIN dpc = Doctors /\ ok \in [Doctors -> BOOLEAN]
    /\ UNION {url, ground, objects} \subseteq Doctors
    /\ place \in [Messages -> {"none", "queued", "inFlight", "deleted", "dead", "wiped"}]
    /\ receives \in [Messages -> 0..MaxReceives]
    /\ took \in [Doctors -> Messages \cup {Nothing}]
    /\ current \subseteq Messages /\ handled \subseteq Events
    /\ attempts \in [Events -> 0..MaxReceives]
    /\ unseen \in [Events -> 0..MaxReceives]
    /\ ready.status \in {"unknown", "ok", "unavailable"}
    /\ resets \in 0..MaxResets

(* A bootstrap that reports completion leaves everything the API and the    *)
(* worker connect to in place and reachable, whatever earlier bootstraps    *)
(* left behind when they failed or died.  Its files stay whole but for      *)
(* another bootstrap that is writing or died doing so; a .env that is half  *)
(* a copy, which no later bootstrap repairs, takes a death or an overlap.   *)
CompletedMeansProvisioned ==
    \A b \in Bootstraps :
        bpc[b] = "done" =>
            /\ b \in clean => ApiServed /\ "dlq" \in made
            /\ "none" \notin {files.generated, files.dotenv}
            /\ files.generated = "torn" =>
                  "crash" \in env.faults \/ \E c \in Bootstraps : bpc[c] = "writing"
            /\ files.dotenv = "torn" => env.faults \cap {"overlap", "crash"} # {}

(* Bootstrapping again, or twice at a time, or after a crash halfway, fails *)
(* for no reason of its own.                                                *)
BootstrapsRepeat ==
    \A b \in Bootstraps :
        bpc[b] = "failed" => env.faults \cap {"flaky", "slow", "reset"} # {}

(* Running the doctor next to the worker costs no event: a deleted one was  *)
(* handled, and one is dead-lettered early only by as many receives as      *)
(* doctors took of it or, where calls fail, lost their answer.              *)
EventsSurviveDoctor ==
    \A e \in Events :
        LET taken == Cardinality({d \in Doctors : took[d] = e}) IN
        /\ place[e] = "deleted" => e \in handled
        /\ place[e] = "dead" =>
              /\ attempts[e] + taken + unseen[e] = MaxReceives
              /\ "flaky" \notin env.faults => attempts[e] + taken = MaxReceives

(* On a stack a completed bootstrap left, with nobody else at the queue and *)
(* no failing call, the doctor passes, run after run, and the API is ready. *)
CheckFailuresExplained ==
    /\ env.faults \cap {"flaky", "reset", "traffic", "overlap", "crash"} = {} =>
          \A d \in ground : dpc[d] # "fail"
    /\ ready.on /\ ready.status = "unavailable" => "flaky" \in env.faults

===============================================================================
