----------------------------- MODULE StressEngine -----------------------------
(***************************************************************************)
(* The stress engine (talon-risk stress.rs) together with the mesh whose   *)
(* limits it scales: the high-water mark, the tier the drawdown puts the   *)
(* account in, the operator's override with its cooldown, and the          *)
(* tightening of stops under Flameout.                                     *)
(*                                                                         *)
(* The operations are those of the type's public interface.  Each is one   *)
(* step: they take &mut self and await nothing.                            *)
(***************************************************************************)
EXTENDS RiskMesh

CONSTANTS
    ThresholdPct,     \* StressParams: the drawdown at which a tier begins
    CooldownMins,     \* StressParams.override_cooldown_mins
    InitialEquity,    \* what StressEngine::new is given
    Equities,         \* what update can be given
    Orders, Books,    \* what evaluate can be asked about, see RiskMesh
    Openings,         \* the positions that can be open when Flameout engages
    Prices            \* where their prices can move to

(* stop is the set of the stop prices: empty or a singleton.               *)
PositionType == [long : BOOLEAN, entry : Nat, price : Nat, stop : SUBSET Int]

ASSUME StressAssumption ==
    /\ ThresholdPct \in [StressTier \ {"Normal"} -> 1..100]
    /\ CooldownMins \in Nat \ {0}
    /\ InitialEquity \in Nat \ {0}
    /\ Equities \subseteq Int
    /\ Prices \subseteq Nat
    /\ Orders \subseteq [module : DOMAIN AllocationPct, qty : Nat, stop : SUBSET Int]
    /\ Books \subseteq [count : Nat, inModule : Nat, exposure : Int]
    /\ Openings \subseteq PositionType

VARIABLES
    peak,         \* peak_equity
    tier,         \* current_tier
    idle,         \* minutes since last_override, up to the cooldown; None is
                  \* the cooldown, as neither refuses an override
    position,     \* a position the engine is handed to tighten its stop
    equity,       \* history: the equity last reported to update
    sinceUpdate   \* history: minutes since then, up to AgeBound

vars == <<peak, tier, idle, position, equity, sinceUpdate>>

(* With four tiers to climb nothing depends on a longer time.              *)
AgeBound == 3 * CooldownMins

-----------------------------------------------------------------------------
(* from_drawdown_pct of the drawdown from p to e.                          *)

(* It is at least pct percent of the peak, in absolute value.              *)
DropsBy(p, e, pct) ==
    IF p = 0 THEN pct = 0 ELSE Distance(p, e) * 100 >= pct * Distance(p, 0)

Reached(p, e) ==
    {"Normal"} \cup {t \in StressTier \ {"Normal"} : DropsBy(p, e, ThresholdPct[t])}

FromDrawdown_ShallowestFirst(p, e) ==
    CHOOSE t \in StressTier :
        IF Reached(p, e) = {"Normal"} THEN t = "Normal"
        ELSE /\ t \in Reached(p, e) \ {"Normal"}
             /\ \A s \in Reached(p, e) \ {"Normal"} : Severity[t] <= Severity[s]

(* The deepest tier whose threshold is reached.                            *)
FromDrawdown(p, e) ==
    CHOOSE t \in Reached(p, e) : \A s \in Reached(p, e) : Severity[s] <= Severity[t]

-----------------------------------------------------------------------------
(* flameout_tighten_stops for one position.                                *)

(* The position is still open: its price has not reached its stop.         *)
StopBehindPrice(p) ==
    \A s \in p.stop : IF p.long THEN s < p.price ELSE s > p.price

IsProfitable(p) == IF p.long THEN p.price > p.entry ELSE p.price < p.entry

(* Half a distance.  Prices are counted in a unit so small that the model  *)
(* only halves even distances: see WholeHalves.                            *)
Half(d) == d \div 2

NewStop_SidesSwapped(p, s) ==
    LET half == Half(Distance(p.entry, s))
    IN  IF IsProfitable(p) THEN p.entry
        ELSE IF p.long THEN p.price + half ELSE p.price - half

NewStop(p, s) ==
    LET half == Half(Distance(p.entry, s))
    IN  IF IsProfitable(p) THEN p.entry
        ELSE IF p.long THEN p.price - half ELSE p.price + half

(* Bound of the model: a stop is tightened while its distance is even.     *)
WholeHalves(p) == \A s \in p.stop : Distance(p.entry, s) % 2 = 0

-----------------------------------------------------------------------------
Init ==
    /\ peak = InitialEquity
    /\ tier = "Normal"
    /\ idle = CooldownMins
    /\ position \in {p \in Openings : StopBehindPrice(p)}
    /\ equity = InitialEquity
    /\ sinceUpdate = 0

Update_NoHighWater(e) ==
    /\ peak' = e
    /\ tier' = FromDrawdown(peak', e)
    /\ equity' = e
    /\ sinceUpdate' = 0
    /\ UNCHANGED <<idle, position>>

(* update: the tier is the drawdown's, whatever an override had made it.   *)
Update(e) ==
    /\ peak' = IF e > peak THEN e ELSE peak
    /\ tier' = FromDrawdown(peak', e)
    /\ equity' = e
    /\ sinceUpdate' = 0
    /\ UNCHANGED <<idle, position>>

OverrideUp_KeepsTheStamp ==
    /\ idle >= CooldownMins
    /\ tier # "Normal"
    /\ tier' \in {t \in StressTier : Severity[t] = Severity[tier] - 1}
    /\ UNCHANGED <<peak, idle, position, equity, sinceUpdate>>

(* override_up when it succeeds; its two refusals change nothing.          *)
OverrideUp ==
    /\ idle >= CooldownMins
    /\ tier # "Normal"
    /\ tier' \in {t \in StressTier : Severity[t] = Severity[tier] - 1}
    /\ idle' = 0
    /\ UNCHANGED <<peak, position, equity, sinceUpdate>>

(* A minute passes.                                                        *)
Minute ==
    /\ idle' = IF idle < CooldownMins THEN idle + 1 ELSE idle
    /\ sinceUpdate' = IF sinceUpdate < AgeBound THEN sinceUpdate + 1 ELSE sinceUpdate
    /\ UNCHANGED <<peak, tier, position, equity>>

(* The market moves; a price that reaches the stop closes the position,    *)
(* which is then no longer tightened.                                      *)
PriceMove(x) ==
    /\ position' = [position EXCEPT !.price = x]
    /\ StopBehindPrice(position')
    /\ UNCHANGED <<peak, tier, idle, equity, sinceUpdate>>

(* The protocol that Flameout is to fire.                                  *)
FlameoutTightenStops ==
    /\ tier = "Flameout"
    /\ WholeHalves(position)
    /\ position' = [position EXCEPT !.stop = {NewStop(position, s) : s \in @}]
    /\ UNCHANGED <<peak, tier, idle, equity, sinceUpdate>>

Next ==
    \/ \E e \in Equities : Update(e)
    \/ OverrideUp
    \/ Minute
    \/ \E x \in Prices : PriceMove(x)
    \/ FlameoutTightenStops

Spec == Init /\ [][Next]_vars

-----------------------------------------------------------------------------
(* The variables have their types, and the high-water mark is positive and *)
(* no lower than the equity last reported.                                 *)
TypeOK ==
    /\ peak \in Nat \ {0}
    /\ tier \in StressTier
    /\ idle \in 0..CooldownMins
    /\ position \in PositionType
    /\ equity \in Int
    /\ sinceUpdate \in 0..AgeBound
    /\ equity <= peak

(* The operator lifts the tier by one step per cooldown and no faster:     *)
(* since the last update the tier has come up from where the drawdown puts *)
(* it by at most one step, and one more for every full cooldown that       *)
(* passed; it is never deeper than the drawdown puts it (override_up).     *)
LiftedOneTierPerCooldown ==
    LET lifted == Severity[FromDrawdown(peak, equity)] - Severity[tier]
    IN  0 <= lifted /\ lifted <= 1 + (sinceUpdate \div CooldownMins)

(* A loss never widens the gate: whatever the mesh approves after an       *)
(* update to a lower equity it would have approved before it, overrides,   *)
(* zero and negative equity included (update, evaluate).                   *)
LosingNeverAdmitsMore ==
    [][equity' < equity =>
          \A o \in Orders, b \in Books :
              Approves(o, b, equity', tier') => Approves(o, b, equity, tier)]_vars

(* Tightening never triggers a stop: an open position's new stop stays on  *)
(* the far side of the current price, for a short as for a long            *)
(* (flameout_tighten_stops).                                               *)
TighteningNeverTriggers == StopBehindPrice(position)

(* What specs/TALON_ARCHITECTURE_v3_2_0.md:659 says of Flameout, "breakeven *)
(* or current stop, whichever is tighter": a stop only ever moves towards  *)
(* the price.  The code does not compare with the current stop.            *)
StopsOnlyTighten ==
    [][\A s \in position.stop, new \in position'.stop :
          IF position.long THEN new >= s ELSE new <= s]_vars
=============================================================================
