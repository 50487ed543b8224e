--------------------------- MODULE MCAdviceGeneration ---------------------------
(* AdviceGeneration with two requests for one match and one connection. *)
EXTENDS AdviceGeneration, TLC

CONSTANTS m1, r1, r2

OneMatch    == {m1}
TwoRequests == {r1, r2}
SameMatch   == [r \in Requests |-> m1]

SomeFaults  == {{"read", "db"}, {"db", "crash"}, {"dbLost", "audit", "auditLost"}}

===============================================================================
