------------------------------- MODULE RiskMesh -------------------------------
(***************************************************************************)
(* RiskMesh::evaluate (talon-risk mesh.rs) with the stress multiplier it   *)
(* is scaled by (talon-types risk.rs).  The code computes in exact         *)
(* decimals; here every limit is cross-multiplied into integers, the       *)
(* multiplier being counted in quarters, so no rounding is introduced.     *)
(***************************************************************************)
EXTENDS Integers

CONSTANTS
    MaxPositions,     \* TierRiskParams.max_concurrent_positions
    MaxRiskPct,       \* TierRiskParams.max_single_position_risk_pct
    MaxExposurePct,   \* TierRiskParams.max_total_exposure_pct
    AllocationPct     \* ModuleRiskAllocation: module -> percent, 0 when absent

ASSUME LimitsAssumption ==
    /\ MaxPositions \in Nat
    /\ MaxRiskPct \in Nat
    /\ MaxExposurePct \in Nat
    /\ \A m \in DOMAIN AllocationPct : AllocationPct[m] \in Nat

StressTier == {"Normal", "Tier1", "Tier2", "Flameout", "Nosedive"}

(* The order in which the tiers deepen (the enum's derived Ord).           *)
Severity == [t \in StressTier |->
    CASE t = "Normal" -> 0 [] t = "Tier1" -> 1 [] t = "Tier2" -> 2
      [] t = "Flameout" -> 3 [] t = "Nosedive" -> 4]

(* multiplier() in quarters: 1, 0.75, 0.5, 0.25, 0.                        *)
Quarters(t) == 4 - Severity[t]

(* The dollar entry price the mesh assumes for every order.                *)
MockEntry == 100

Distance(a, b) == IF a >= b THEN a - b ELSE b - a

(* x as a percentage of the account is above limit * q / 4.  An account    *)
(* worth zero counts as 100 percent; a negative one turns the quotient's   *)
(* sign.                                                                   *)
ExceedsPct(x, netLiq, limit, q) ==
    IF netLiq = 0     THEN 400 > limit * q
    ELSE IF netLiq > 0 THEN x * 400 > limit * q * netLiq
                       ELSE x * 400 < limit * q * netLiq

(* What the mesh reads from the open positions: how many there are, how    *)
(* many belong to the intent's module, and their summed entry value.       *)
EmptyBook == [count |-> 0, inModule |-> 0, exposure |-> 0]

PositionLimitHit(book, q) == book.count * 4 >= MaxPositions * q

AllocationExhausted(order, book, q) ==
    LET moduleMax == MaxPositions * AllocationPct[order.module] * q   \* x 400
    IN  book.inModule * 400 >= moduleMax /\ moduleMax > 0

(* order.stop is the set of the stop prices given: empty or a singleton.   *)
SingleRiskTooHigh(order, netLiq, q) ==
    \E s \in order.stop :
        ExceedsPct(Distance(MockEntry, s) * order.qty, netLiq, MaxRiskPct, q)

ExposureTooHigh(order, book, netLiq, q) ==
    ExceedsPct(book.exposure + MockEntry * order.qty, netLiq, MaxExposurePct, q)

(* RiskDecision::Approved.  The checks run in this order and the first to  *)
(* fail only picks the text of the rejection; ReducedSize is never built.  *)
Approves(order, book, netLiq, tier) ==
    LET q == Quarters(tier)
    IN  /\ tier # "Nosedive"
        /\ ~PositionLimitHit(book, q)
        /\ ~AllocationExhausted(order, book, q)
        /\ ~SingleRiskTooHigh(order, netLiq, q)
        /\ ~ExposureTooHigh(order, book, netLiq, q)
=============================================================================
