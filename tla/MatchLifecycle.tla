----------------------------- MODULE MatchLifecycle -----------------------------
(***************************************************************************)
(* Matches: creation by CreateMatchHandler, whose audit entry is a second  *)
(* write, and the status transitions Match.transitionTo allows.  No code   *)
(* in src/ stores a transition yet; here whoever owns the row applies one  *)
(* as transitionTo computes it.                                            *)
(***************************************************************************)
EXTENDS Integers

CONSTANTS Matches,      \* matches that may be created
          MaxVersion    \* bound on a match's version

VARIABLES status,       \* status[m]: the row's status, ABSENT before it exists
          version,      \* version[m]: the row's version
          auditing,     \* matches whose handler is about to write the audit entry
          matchAudits,  \* matches with a MATCH_CREATED entry
          faults        \* the kinds of fault of this environment

matchVars == <<status, version, auditing, matchAudits>>

Statuses == {"ABSENT", "SCHEDULED", "POSTPONED", "CANCELLED", "LIVE", "FINISHED", "ABANDONED"}

Init ==
    /\ status      = [m \in Matches |-> "ABSENT"]
    /\ version     = [m \in Matches |-> 0]
    /\ auditing    = {}
    /\ matchAudits = {}

(* The targets transitionTo accepts. *)
Allowed(s) ==
    CASE s = "SCHEDULED" -> {"LIVE", "POSTPONED", "CANCELLED"}
      [] s = "POSTPONED" -> {"SCHEDULED", "CANCELLED"}
      [] s = "LIVE"      -> {"FINISHED", "ABANDONED"}
      [] OTHER           -> {}

-------------------------------------------------------------------------------
Create(m) ==
    /\ status[m] = "ABSENT"
    /\ status'   = [status EXCEPT ![m] = "SCHEDULED"]
    /\ version'  = [version EXCEPT ![m] = 1]
    /\ auditing' = auditing \cup {m}
    /\ UNCHANGED matchAudits

AuditMatch(m) ==
    /\ m \in auditing
    /\ auditing'    = auditing \ {m}
    /\ matchAudits' = matchAudits \cup {m}
    /\ UNCHANGED <<status, version>>

(* The entry is lost, or only its answer; the match exists all the same. *)
AuditMatchFails(m) ==
    /\ m \in auditing
    /\ \/ "audit" \in faults /\ UNCHANGED matchAudits
       \/ "auditLost" \in faults /\ matchAudits' = matchAudits \cup {m}
    /\ auditing' = auditing \ {m}
    /\ UNCHANGED <<status, version>>

Transition(m) ==
    /\ status[m] # "ABSENT" /\ version[m] < MaxVersion
    /\ \E s \in Allowed(status[m]) : status' = [status EXCEPT ![m] = s]
    /\ version' = [version EXCEPT ![m] = @ + 1]
    /\ UNCHANGED <<auditing, matchAudits>>

Next == \E m \in Matches : Create(m) \/ AuditMatch(m) \/ AuditMatchFails(m) \/ Transition(m)

===============================================================================
