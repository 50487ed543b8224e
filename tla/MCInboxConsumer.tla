---------------------------- MODULE MCInboxConsumer ----------------------------
(* InboxConsumer on a small instance: the relay has sent one event twice,   *)
(* or once beside a message of another kind, to one or two consumers.       *)
EXTENDS InboxConsumer, TLC

CONSTANTS c1, c2, m1, m2, e1

OneConsumer  == {c1}
TwoConsumers == {c1, c2}

TwinMessages == {m1, m2}
TwinEvents   == m1 :> e1 @@ m2 :> e1

Twins(k)       == m1 :> k @@ m2 :> k
Beside(k)      == m1 :> "advice" @@ m2 :> k
Scenario(k, f) == [kind |-> k, faults |-> f]

SlowFaults     == {"slow", "delete", "auditLost", "undo", "shutdown"}
CrashFaults    == {"crash", "receiveLost", "audit", "auditLost", "undo", "delete", "shutdown"}
PolicyFaults   == {"policies", "delete", "crash"}

(* Every fault together for a role exempt from the policies, the two        *)
(* mixtures that lose no event, orderly shutdowns, a role subject to the    *)
(* policies, and the messages the consumer does not handle.                 *)
SafetyScenarios ==
    {Scenario(Twins("advice"), f) : f \in 
            {FaultKinds \ {"policies"}, SlowFaults, CrashFaults, {"shutdown"}, PolicyFaults}}
        \cup {Scenario(Beside(k), CrashFaults) : k \in {"untyped", "untenanted"}}
        \cup {Scenario(Twins("other"), CrashFaults)}
        \cup {Scenario(Beside("malformed"), f) : f \in {CrashFaults, {"shutdown"}}}

CalmScenario    == {Scenario(Twins("advice"), {})}
ReserveScenario == {Scenario(Twins("advice"), {"reserve"})}

(* Consumers are interchangeable. *)
Symmetry == Permutations(TwoConsumers)

===============================================================================
