---------------------------- MODULE OutboxContract ----------------------------
(***************************************************************************)
(* What the transactional outbox promises about the events of committed    *)
(* aggregates, with no worker, claim, row lock or clock in it: an event is *)
(* handed to the queue only after its transaction committed and only while *)
(* it is neither published nor failed, at most MaxAttempts times; it is    *)
(* confirmed only after a hand-over; a failed event is final.              *)
(*                                                                         *)
(* OutboxRelay implements this specification (OutboxRelay!Contract).       *)
(***************************************************************************)
EXTENDS Integers

CONSTANTS Events,       \* the events of committed aggregates
          MaxAttempts   \* how often an event may be handed to the queue

VARIABLES phase,        \* phase[e]: where event e is
          sent          \* sent[e]: messages the queue accepted for e

contractVars == <<phase, sent>>

Init == /\ phase = [e \in Events |-> "absent"]
        /\ sent  = [e \in Events |-> 0]

(* The aggregate and its event become visible together. *)
Commit(e) == /\ phase[e] = "absent"
             /\ phase' = [phase EXCEPT ![e] = "queued"]
             /\ UNCHANGED sent

Send(e) == /\ phase[e] = "queued"
           /\ sent[e] < MaxAttempts
           /\ sent' = [sent EXCEPT ![e] = @ + 1]
           /\ UNCHANGED phase

Confirm(e) == /\ phase[e] = "queued"
              /\ sent[e] > 0
              /\ phase' = [phase EXCEPT ![e] = "published"]
              /\ UNCHANGED sent

(* The confirmation was stored but its answer was lost: the relay takes it *)
(* back and the event is due again.                                        *)
Retract(e) == /\ phase[e] = "published"
              /\ phase' = [phase EXCEPT ![e] = "queued"]
              /\ UNCHANGED sent

GiveUp(e) == /\ phase[e] \in {"queued", "published"}
             /\ phase' = [phase EXCEPT ![e] = "failed"]
             /\ UNCHANGED sent

Next == \E e \in Events : Commit(e) \/ Send(e) \/ Confirm(e) \/ Retract(e) \/ GiveUp(e)

Spec == Init /\ [][Next]_contractVars
===============================================================================
