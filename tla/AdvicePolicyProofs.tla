--------------------------- MODULE AdvicePolicyProofs ---------------------------
(***************************************************************************)
(* Theorems about Advice.evaluate for every input in whole hundredths: what *)
(* a recommendation promises, which gate decides at all, and that better   *)
(* data never lose a recommendation.                                       *)
(***************************************************************************)
EXTENDS AdvicePolicy, TLAPS

(* The gates an input passes when it is recommended. *)
Passes(i) ==
    /\ i.hasProvider /\ i.match = "SCHEDULED"
    /\ i.hasModel /\ i.hasQuote /\ ~i.suspended /\ ~i.stale
    /\ ~(i.quality < MinQuality)
    /\ ~TooUncertain(i) /\ ~EdgeTooSmall(i) /\ ~ValueTooSmall(i)

(* Evaluate, read as its gates: what follows need not unfold their order.   *)
LEMMA RecommendedWhenAllPass ==
    ASSUME NEW i \in Input(Odds)
    PROVE  Evaluate(i).decision = "RECOMMENDED" <=> Passes(i)
<1>1. i.hasProvider \in BOOLEAN /\ i.hasModel \in BOOLEAN /\ i.hasQuote \in BOOLEAN
      /\ i.suspended \in BOOLEAN /\ i.stale \in BOOLEAN
  BY DEF Input
<1>2. i.match = "SCHEDULED" => i.match # NoMatch
  BY DEF NoMatch
<1> QED
  BY <1>1, <1>2 DEF Evaluate, Passes, Abstain, Reject, Verdict, NoReason

-------------------------------------------------------------------------------
(* The numbers of an input are integers. *)
LEMMA Numbers ==
    ASSUME NEW i \in Input(Odds)
    PROVE  /\ i.calibrated \in Nat /\ i.odds \in Nat /\ i.odds > 100
           /\ i.lower \in Nat /\ i.upper \in Nat /\ i.quality \in Nat
           /\ i.calibrated * i.odds \in Nat
<1>1. /\ i.calibrated \in Percent /\ i.lower \in Percent /\ i.upper \in Percent
      /\ i.quality \in Percent /\ i.odds \in Odds
  BY DEF Input
<1>2. i.calibrated \in Nat /\ i.odds \in Nat
  BY <1>1 DEF Percent, Odds
<1>3. i.calibrated * i.odds \in Nat
  BY <1>2
<1> QED BY <1>1, <1>2, <1>3 DEF Percent, Odds

(* The expected-value gate decides nothing the edge gate has not decided,   *)
(* except at odds of 1.66 and less: with longer odds an edge of 3% already  *)
(* is an expected value of 5%.  That is so of odds and probabilities in     *)
(* whole hundredths; between two hundredths the code's numbers may differ.  *)
THEOREM ValueGateNeedsShortOdds ==
    ASSUME NEW i \in Input(Odds), Evaluate(i).reason = "EXPECTED_VALUE_BELOW_THRESHOLD"
    PROVE  i.odds <= 166
<1>1. ~EdgeTooSmall(i) /\ ValueTooSmall(i)
  BY DEF Evaluate, Abstain, Reject, Verdict, NoReason
<1> DEFINE stake == i.calibrated * i.odds
<1>2. stake \in Nat /\ i.odds \in Nat
  BY Numbers
<1>3. stake - 10000 >= 3 * i.odds
  BY <1>1, <1>2 DEF EdgeTooSmall, MinEdge
<1>4. stake <= 10500
  BY <1>1, <1>2 DEF ValueTooSmall, MinValue
<1> HIDE DEF stake
<1> QED BY <1>2, <1>3, <1>4

(* A recommended bet has an expected value of at least 5%, whatever the     *)
(* rounding, and is never a mere long shot: its probability is at least 4%. *)
THEOREM RecommendationPays ==
    ASSUME NEW i \in Input(Odds), Evaluate(i).decision = "RECOMMENDED"
    PROVE  i.calibrated * i.odds >= 10500 /\ i.calibrated >= 4
<1>1. ~EdgeTooSmall(i) /\ ~ValueTooSmall(i)
  BY RecommendedWhenAllPass DEF Passes
<1> DEFINE stake == i.calibrated * i.odds
<1>2. stake \in Nat /\ i.odds \in Nat /\ i.calibrated \in Nat
  BY Numbers
<1>3. stake >= 10500
  BY <1>1, <1>2 DEF ValueTooSmall, MinValue
<1>4. stake - 10000 >= 3 * i.odds
  BY <1>1, <1>2 DEF EdgeTooSmall, MinEdge
<1>5. i.calibrated >= 4
  <2>1. SUFFICES ASSUME i.calibrated <= 3
                 PROVE  FALSE
    BY <1>2
  <2>2. i.calibrated * i.odds <= 3 * i.odds
    BY <1>2, <2>1
  <2> QED BY <1>2, <1>4, <2>2
<1> QED BY <1>3, <1>5

-------------------------------------------------------------------------------
(* j's data are at least as good as i's: nothing i has is missing, the      *)
(* quality, the probability and the odds are no lower, the range no wider.  *)
AtLeastAsGood(i, j) ==
    /\ i.hasProvider => j.hasProvider
    /\ j.match = i.match
    /\ i.hasModel => j.hasModel
    /\ i.hasQuote => j.hasQuote
    /\ j.suspended => i.suspended
    /\ j.stale => i.stale
    /\ j.quality >= i.quality
    /\ j.calibrated >= i.calibrated
    /\ j.odds >= i.odds
    /\ j.upper - j.lower <= i.upper - i.lower

(* Better data never lose a recommendation, provided floating point rounds  *)
(* a range, edge or value that meets its limit alike in both.  Without the  *)
(* proviso it fails: a range of 0.15 passes or not by its end points.       *)
THEOREM BetterDataKeepsRecommendation ==
    ASSUME NEW i \in Input(Odds), NEW j \in Input(Odds),
           AtLeastAsGood(i, j), j.ties = i.ties,
           Evaluate(i).decision = "RECOMMENDED"
    PROVE  Evaluate(j).decision = "RECOMMENDED"
<1>1. Passes(i)
  BY RecommendedWhenAllPass
<1>2. /\ i.calibrated \in Nat /\ i.odds \in Nat /\ i.odds > 100
      /\ j.calibrated \in Nat /\ j.odds \in Nat
      /\ i.lower \in Nat /\ i.upper \in Nat /\ j.lower \in Nat /\ j.upper \in Nat
      /\ i.quality \in Nat /\ j.quality \in Nat
      /\ i.calibrated * i.odds \in Nat /\ j.calibrated * j.odds \in Nat
  BY Numbers
<1>3. i.calibrated >= 4
  BY RecommendationPays
<1>4. j.hasProvider /\ j.match = "SCHEDULED" /\ j.hasModel /\ j.hasQuote /\ ~j.suspended /\ ~j.stale
  BY <1>1 DEF Passes, AtLeastAsGood
<1>5. ~(j.quality < MinQuality)
  BY <1>1, <1>2 DEF Passes, AtLeastAsGood, MinQuality
<1>6. ~TooUncertain(j)
  BY <1>1, <1>2 DEF Passes, AtLeastAsGood, TooUncertain, MaxUncertainty
<1>7. /\ j.calibrated * j.odds >= i.calibrated * i.odds
      /\ j.calibrated * j.odds - 3 * j.odds >= i.calibrated * i.odds - 3 * i.odds
  <2>1. PICK p \in Nat, o \in Nat : j.calibrated = i.calibrated + p /\ j.odds = i.odds + o
    <3>1. j.calibrated - i.calibrated \in Nat /\ j.odds - i.odds \in Nat
      BY <1>2 DEF AtLeastAsGood
    <3> QED BY <1>2, <3>1
  <2>2. j.calibrated * j.odds = i.calibrated * i.odds + i.calibrated * o + p * i.odds + p * o
    BY <1>2, <2>1
  <2>3. i.calibrated * o >= 3 * o /\ p * i.odds >= 0 /\ p * o >= 0
    BY <1>2, <1>3, <2>1
  <2> QED BY <1>2, <2>1, <2>2, <2>3
<1>8. ~EdgeTooSmall(j)
  <2> DEFINE x == i.calibrated * i.odds
             y == j.calibrated * j.odds
  <2>1. x \in Nat /\ y \in Nat
    BY <1>2
  <2>2. ~(x - 10000 < 3 * i.odds) /\ ~(x - 10000 = 3 * i.odds /\ "edge" \in i.ties)
    BY <1>1 DEF Passes, EdgeTooSmall, MinEdge
  <2>3. y - 3 * j.odds >= x - 3 * i.odds
    BY <1>7
  <2> HIDE DEF x, y
  <2>4. ~(y - 10000 < 3 * j.odds) /\ ~(y - 10000 = 3 * j.odds /\ "edge" \in j.ties)
    BY <1>2, <2>1, <2>2, <2>3
  <2> QED BY <2>4 DEF EdgeTooSmall, MinEdge, x, y
<1>9. ~ValueTooSmall(j)
  BY <1>1, <1>2, <1>7 DEF Passes, ValueTooSmall, MinValue
<1> QED BY <1>4, <1>5, <1>6, <1>8, <1>9, RecommendedWhenAllPass DEF Passes

===============================================================================
