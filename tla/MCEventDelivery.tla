---------------------------- MODULE MCEventDelivery ----------------------------
(* EventDelivery with one or two relay workers and consumers. *)
EXTENDS EventDelivery, TLC

CONSTANTS w1, w2, c1, c2

OneWorker    == {w1}
TwoWorkers   == {w1, w2}
OneConsumer  == {c1}
TwoConsumers == {c1, c2}

QueueFaults   == {"send", "sendLost"}
CleanFaults   == {"send", "crash", "shutdown"}
RelayAny      == {"send", "sendLost", "db", "dbLost", "crash", "shutdown"}
StopFaults    == {"shutdown"}
HandlerFaults == {"receiveLost", "audit", "auditLost", "undo", "delete", "crash", "shutdown"}
SlowFaults    == {"slow", "delete"}

RelaySafety    == {CleanFaults, RelayAny, {"policies", "db", "crash"}}
ConsumerSafety == {StopFaults, HandlerFaults, {"policies", "crash"}}
RelayLive      == {QueueFaults}
ConsumerLive   == {{"receiveLost", "audit", "auditLost", "delete", "crash"}, SlowFaults}

(* Workers are interchangeable, and so are consumers. *)
Symmetry == Permutations(TwoWorkers) \cup Permutations(TwoConsumers)

===============================================================================
