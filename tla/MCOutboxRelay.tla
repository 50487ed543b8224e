----------------------------- MODULE MCOutboxRelay -----------------------------
(* OutboxRelay on a small instance: up to three events and one or two workers. *)
EXTENDS OutboxRelay

CONSTANTS w1, w2

OneWorker  == {w1}
TwoWorkers == {w1, w2}

(* Every fault at once for a role exempt from the policies, and a role      *)
(* subject to them.                                                         *)
EveryFault    == {FaultKinds \ {"policies"}, {"policies", "db", "crash"}}
QueueFaults   == {{"send", "sendLost"}, {"policies"}}
QueueAndCrash == {{"send", "crash"}}

===============================================================================
