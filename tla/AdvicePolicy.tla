------------------------------ MODULE AdvicePolicy ------------------------------
(***************************************************************************)
(* Advice.evaluate: the conservative gates between the data about a match  *)
(* and a recommendation, in the order of the code.  Probabilities, scores  *)
(* and odds are hundredths (odds of 1.90 are 190), so that the comparisons *)
(* are exact.  The code computes in binary floating point, where a derived *)
(* value that equals its threshold may land on either side of it: "ties"   *)
(* names the values that landed below.                                     *)
(***************************************************************************)
EXTENDS Integers

MatchStatuses == {"SCHEDULED", "POSTPONED", "CANCELLED", "LIVE", "FINISHED", "ABANDONED"}
Decisions     == {"RECOMMENDED", "REJECTED", "ABSTAINED"}
Reasons       == {"NO_PRODUCTION_DATA_PROVIDER", "INSUFFICIENT_VERIFIED_DATA",
                  "RISK_POLICY_REJECTED", "NO_APPROVED_MODEL", "NO_VALID_ODDS",
                  "SUSPENDED_MARKET", "STALE_ODDS", "UNCERTAINTY_TOO_HIGH",
                  "EDGE_BELOW_THRESHOLD", "EXPECTED_VALUE_BELOW_THRESHOLD"}

NoMatch  == "no match"
NoReason == "no reason"

Percent == 0..100

(* The quote's constructor refuses odds of 1 and less. *)
Odds == {o \in Nat : o > 100}

(* "ties" are the values among range, edge and ev rounded below a limit     *)
(* they equal.                                                              *)
Input(odds) ==
    [hasProvider : BOOLEAN, match : MatchStatuses \cup {NoMatch},
     hasModel : BOOLEAN,                        \* approved, with a prediction
     hasQuote : BOOLEAN, suspended : BOOLEAN, stale : BOOLEAN,
     quality : Percent, lower : Percent, upper : Percent,
     calibrated : Percent, odds : odds, ties : SUBSET {"range", "edge", "ev"}]

(* PredictionValue refuses bounds that cross. *)
Valid(i) == i.lower <= i.upper

-------------------------------------------------------------------------------
MinQuality     == 70
MaxUncertainty == 15
MinEdge        == 3
MinValue       == 5

TooUncertain(i) ==
    \/ i.upper - i.lower > MaxUncertainty
    \/ i.upper - i.lower = MaxUncertainty /\ "range" \notin i.ties

(* edge = p - 1/odds < 3%, multiplied by the odds. *)
EdgeTooSmall(i) ==
    \/ i.calibrated * i.odds - 10000 < MinEdge * i.odds
    \/ i.calibrated * i.odds - 10000 = MinEdge * i.odds /\ "edge" \in i.ties

(* ev = p * odds - 1 < 5%. *)
ValueTooSmall(i) ==
    \/ i.calibrated * i.odds < 10000 + 100 * MinValue
    \/ i.calibrated * i.odds = 10000 + 100 * MinValue /\ "ev" \in i.ties

Verdict(decision, reason) == [decision |-> decision, reason |-> reason]
Abstain(reason) == Verdict("ABSTAINED", reason)
Reject(reason)  == Verdict("REJECTED", reason)

Evaluate(i) ==
    IF ~i.hasProvider              THEN Abstain("NO_PRODUCTION_DATA_PROVIDER")
    ELSE IF i.match = NoMatch      THEN Abstain("INSUFFICIENT_VERIFIED_DATA")
    ELSE IF i.match # "SCHEDULED"  THEN Reject("RISK_POLICY_REJECTED")
    ELSE IF ~i.hasModel            THEN Abstain("NO_APPROVED_MODEL")
    ELSE IF ~i.hasQuote            THEN Abstain("NO_VALID_ODDS")
    ELSE IF i.suspended            THEN Abstain("SUSPENDED_MARKET")
    ELSE IF i.stale                THEN Abstain("STALE_ODDS")
    ELSE IF i.quality < MinQuality THEN Abstain("INSUFFICIENT_VERIFIED_DATA")
    ELSE IF TooUncertain(i)        THEN Abstain("UNCERTAINTY_TOO_HIGH")
    ELSE IF EdgeTooSmall(i)        THEN Reject("EDGE_BELOW_THRESHOLD")
    ELSE IF ValueTooSmall(i)       THEN Reject("EXPECTED_VALUE_BELOW_THRESHOLD")
    ELSE Verdict("RECOMMENDED", NoReason)

===============================================================================
