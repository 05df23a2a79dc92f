---------------------------- MODULE GovernorProofs ----------------------------
(***************************************************************************)
(* What TLAPS proves of the governor: of the stress engine it owns         *)
(* (StressEngine), of the mesh the engine's tier scales (RiskMesh), and of *)
(* its trust ledger (TrustLedger).                                         *)
(***************************************************************************)
EXTENDS Governor, FiniteSetTheorems, TLAPS

-----------------------------------------------------------------------------
(* The tiers.                                                              *)

(* The tiers in the order of their severity. *)
LEMMA SeverityIs ==
    /\ Severity["Normal"] = 0 /\ Severity["Tier1"] = 1 /\ Severity["Tier2"] = 2
    /\ Severity["Flameout"] = 3 /\ Severity["Nosedive"] = 4
    /\ \A t \in StressTier : Severity[t] \in 0..4 /\ Quarters(t) = 4 - Severity[t]
    /\ \A s, t \in StressTier : Severity[s] = Severity[t] => s = t
  BY DEF Severity, StressTier, Quarters

(* A nonempty set of tiers has a deepest one.                              *)
LEMMA DeepestExists ==
    ASSUME NEW S, S \subseteq StressTier, S # {}
    PROVE  \E t \in S : \A s \in S : Severity[s] <= Severity[t]
<1>1. \A s \in S : Severity[s] <= 4 /\ (s # "Nosedive" => Severity[s] <= 3)
  BY SeverityIs DEF StressTier
<1>2. CASE "Nosedive" \in S
  BY <1>1, <1>2, SeverityIs
<1>3. CASE "Nosedive" \notin S /\ "Flameout" \in S
  BY <1>1, <1>3, SeverityIs
<1>4. CASE "Nosedive" \notin S /\ "Flameout" \notin S /\ "Tier2" \in S
  BY <1>4, SeverityIs DEF StressTier
<1>5. CASE S \subseteq {"Normal", "Tier1"}
  <2>1. CASE "Tier1" \in S
    BY <1>5, <2>1, SeverityIs
  <2>2. CASE S = {"Normal"}
    BY <2>2, SeverityIs
  <2> QED
    BY <1>5, <2>1, <2>2
<1> QED
  BY <1>2, <1>3, <1>4, <1>5 DEF StressTier

(* The drawdown's tier is the deepest it reaches.                          *)
LEMMA FromDrawdownIs ==
    ASSUME NEW p, NEW e
    PROVE  /\ FromDrawdown(p, e) \in Reached(p, e)
           /\ FromDrawdown(p, e) \in StressTier
           /\ \A s \in Reached(p, e) : Severity[s] <= Severity[FromDrawdown(p, e)]
<1>1. Reached(p, e) \subseteq StressTier /\ Reached(p, e) # {}
  BY DEF Reached, StressTier
<1>2. \E t \in Reached(p, e) : \A s \in Reached(p, e) : Severity[s] <= Severity[t]
  BY <1>1, DeepestExists
<1> QED
  BY <1>1, <1>2 DEF FromDrawdown

(* The deeper the fall from the same peak, the deeper the tier; and an     *)
(* account that lost everything is in Nosedive.                            *)
LEMMA LowerIsDeeper ==
    ASSUME NEW p \in Nat \ {0}, NEW e \in Int, NEW f \in Int, f <= e, e <= p
    PROVE  /\ Severity[FromDrawdown(p, e)] <= Severity[FromDrawdown(p, f)]
           /\ f <= 0 => FromDrawdown(p, f) = "Nosedive"
<1> USE StressAssumption
<1>1. ASSUME NEW t \in StressTier \ {"Normal"}
      PROVE  /\ DropsBy(p, e, ThresholdPct[t]) => DropsBy(p, f, ThresholdPct[t])
             /\ f <= 0 => DropsBy(p, f, ThresholdPct[t])
  <2>1. ThresholdPct[t] \in 1..100
    BY <1>1
  <2>2. PICK c \in 1..100 : c = ThresholdPct[t]
    BY <2>1
  <2>3. Distance(p, 0) = p /\ Distance(p, e) = p - e /\ Distance(p, f) = p - f
    BY DEF Distance
  <2>4. f <= 0 => (p - f) * 100 >= c * p
    <3>1. c * p <= 100 * p
      BY <2>2
    <3> QED
      BY <3>1
  <2> QED
    BY <2>2, <2>3, <2>4 DEF DropsBy
<1>2. Reached(p, e) \subseteq Reached(p, f)
  BY <1>1 DEF Reached
<1>3. f <= 0 => "Nosedive" \in Reached(p, f)
  BY <1>1 DEF Reached, StressTier
<1>4. f <= 0 => FromDrawdown(p, f) = "Nosedive"
  <2>1. /\ FromDrawdown(p, f) \in StressTier
        /\ f <= 0 => 4 <= Severity[FromDrawdown(p, f)]
    BY <1>3, FromDrawdownIs, SeverityIs
  <2>2. "Nosedive" \in StressTier
    BY DEF StressTier
  <2> QED
    BY <2>1, <2>2, SeverityIs
<1>5. Severity[FromDrawdown(p, e)] <= Severity[FromDrawdown(p, f)]
  <2>1. FromDrawdown(p, e) \in Reached(p, f)
    BY <1>2, FromDrawdownIs
  <2> QED
    BY <2>1, FromDrawdownIs
<1> QED
  BY <1>4, <1>5

(* At its peak the account is in no tier.                                  *)
LEMMA NoDrawdown ==
    ASSUME NEW p \in Nat \ {0}
    PROVE  FromDrawdown(p, p) = "Normal"
<1>1. ASSUME NEW t \in StressTier \ {"Normal"} PROVE ~DropsBy(p, p, ThresholdPct[t])
  <2>1. PICK c \in 1..100 : c = ThresholdPct[t]
    BY StressAssumption
  <2>2. c * p > 0
    OBVIOUS
  <2> QED
    BY <2>1, <2>2 DEF DropsBy, Distance
<1>2. Reached(p, p) = {"Normal"}
  BY <1>1 DEF Reached
<1> QED
  BY <1>2, FromDrawdownIs

-----------------------------------------------------------------------------
(* The mesh.                                                               *)

(* Products of natural numbers grow with their factors. *)
LEMMA TimesIsMonotone ==
    ASSUME NEW a \in Nat, NEW b \in Nat, NEW c \in Nat, NEW d \in Nat, a <= b, c <= d
    PROVE  a * c <= b * d /\ a * c \in Nat
<1>1. a * c <= b * c
  <2>1. PICK k \in Nat : b = a + k
    OBVIOUS
  <2>2. b * c = a * c + k * c /\ k * c >= 0
    BY <2>1
  <2> QED
    BY <2>2
<1>2. b * c <= b * d
  <2>1. PICK k \in Nat : d = c + k
    OBVIOUS
  <2>2. b * d = b * c + b * k /\ b * k >= 0
    BY <2>1
  <2> QED
    BY <2>2
<1> QED
  BY <1>1, <1>2

(* With the same limit, what is too much of a larger account at a gentler  *)
(* tier is too much of a smaller one at a deeper tier.                     *)
LEMMA ExceedsIsMonotone ==
    ASSUME NEW x \in Int, NEW e \in Nat \ {0}, NEW f \in Nat \ {0}, f <= e,
           NEW limit \in Nat, NEW q \in Nat, NEW r \in Nat, r <= q,
           ExceedsPct(x, e, limit, q)
    PROVE  ExceedsPct(x, f, limit, r)
<1>1. limit * r <= limit * q /\ limit * r \in Nat /\ limit * q \in Nat
  BY TimesIsMonotone
<1>2. (limit * r) * f <= (limit * q) * e
  BY <1>1, TimesIsMonotone
<1>3. x * 400 > (limit * q) * e
  BY DEF ExceedsPct
<1> QED
  BY <1>1, <1>2, <1>3 DEF ExceedsPct

(* A smaller account at a deeper tier is never allowed more.               *)
LEMMA ApprovesIsMonotone ==
    ASSUME NEW o \in Orders, NEW b \in Books,
           NEW e \in Nat \ {0}, NEW f \in Nat \ {0}, f <= e,
           NEW s \in StressTier, NEW t \in StressTier, Severity[s] <= Severity[t],
           Approves(o, b, f, t)
    PROVE  Approves(o, b, e, s)
<1> DEFINE q == Quarters(s)
           r == Quarters(t)
<1>1. q \in 0..4 /\ r \in 0..4 /\ r <= q
  BY SeverityIs
<1>2. t # "Nosedive" /\ s # "Nosedive" /\ r >= 1
  <2>1. t # "Nosedive"
    BY DEF Approves
  <2>2. Severity[t] <= 3
    BY <2>1, SeverityIs DEF StressTier
  <2>3. r >= 1
    BY <2>2, SeverityIs
  <2> QED
    BY <2>1, <2>2, <2>3, SeverityIs
<1>3. /\ o.qty \in Nat /\ o.stop \subseteq Int /\ AllocationPct[o.module] \in Nat
      /\ b.count \in Nat /\ b.inModule \in Nat /\ b.exposure \in Int
      /\ MaxPositions \in Nat /\ MaxRiskPct \in Nat /\ MaxExposurePct \in Nat
  BY StressAssumption, LimitsAssumption
<1> HIDE DEF q, r
<1>4. ~PositionLimitHit(b, q)
  <2>1. ~(b.count * 4 >= MaxPositions * r)
    BY DEF Approves, PositionLimitHit, r
  <2>2. MaxPositions * r <= MaxPositions * q /\ MaxPositions * r \in Nat /\ MaxPositions * q \in Nat
    BY <1>1, <1>3, TimesIsMonotone
  <2> QED
    BY <1>3, <2>1, <2>2 DEF PositionLimitHit
<1>5. ~AllocationExhausted(o, b, q)
  <2>1. PICK k \in Nat : k = MaxPositions * AllocationPct[o.module]
    BY <1>3, TimesIsMonotone
  <2>2. ~(b.inModule * 400 >= k * r /\ k * r > 0)
    BY <2>1 DEF Approves, AllocationExhausted, r
  <2>3. k * r <= k * q /\ k * r \in Nat /\ k * q \in Nat
    BY <1>1, TimesIsMonotone
  <2>4. k * q > 0 => k * r > 0
    <3>1. k = 0 => k * q = 0
      BY <1>1
    <3>2. k >= 1 => k * r >= 1
      BY <1>1, <1>2
    <3> QED
      BY <2>3, <3>1, <3>2
  <2>5. ~(b.inModule * 400 >= k * q /\ k * q > 0)
    BY <1>3, <2>2, <2>3, <2>4
  <2> QED
    BY <2>1, <2>5 DEF AllocationExhausted
<1>6. ~SingleRiskTooHigh(o, e, q)
  <2>1. SUFFICES ASSUME NEW x \in o.stop,
                        ExceedsPct(Distance(MockEntry, x) * o.qty, e, MaxRiskPct, q)
                 PROVE  ExceedsPct(Distance(MockEntry, x) * o.qty, f, MaxRiskPct, r)
    BY DEF Approves, SingleRiskTooHigh, r
  <2>2. PICK y \in Int : y = Distance(MockEntry, x) * o.qty
    BY <1>3 DEF Distance, MockEntry
  <2>3. ExceedsPct(y, f, MaxRiskPct, r)
    BY <1>1, <1>3, <2>1, <2>2, ExceedsIsMonotone
  <2> QED
    BY <2>2, <2>3
<1>7. ~ExposureTooHigh(o, b, e, q)
  <2>1. PICK x \in Int : x = b.exposure + MockEntry * o.qty
    BY <1>3 DEF MockEntry
  <2>2. ~ExceedsPct(x, f, MaxExposurePct, r)
    BY <2>1 DEF Approves, ExposureTooHigh, r
  <2>3. ~ExceedsPct(x, e, MaxExposurePct, q)
    BY <1>1, <1>3, <2>2, ExceedsIsMonotone
  <2> QED
    BY <2>1, <2>3 DEF ExposureTooHigh
<1> QED
  BY <1>2, <1>4, <1>5, <1>6, <1>7 DEF Approves, q

-----------------------------------------------------------------------------
(* The stress engine.                                                      *)

(* How far the tier is above where the drawdown puts it.                   *)
Lifted == Severity[FromDrawdown(peak, equity)] - Severity[tier]

(* Every step of it but the first took a cooldown since the last update,   *)
(* and the minutes since the last override passed since that update too.   *)
LiftsAreApart ==
    /\ Lifted \in 0..4
    /\ \A n \in 1..4 :
          Lifted = n => \/ sinceUpdate = AgeBound
                        \/ sinceUpdate >= (n - 1) * CooldownMins + idle

StressInv == TypeOK /\ StopBehindPrice(position) /\ LiftsAreApart

(* A new engine satisfies the invariant.                                   *)
LEMMA InitStressInv == Init => StressInv
<1> SUFFICES ASSUME Init PROVE StressInv
  OBVIOUS
<1> USE StressAssumption
<1>1. TypeOK /\ StopBehindPrice(position)
  BY DEF Init, TypeOK, AgeBound, StressTier
<1>2. Lifted = 0
  BY NoDrawdown, SeverityIs DEF Init, Lifted
<1> QED
  BY <1>1, <1>2 DEF StressInv, LiftsAreApart

(* A tightened stop stays on its side of the price.                        *)
LEMMA NewStopIsBehind ==
    ASSUME NEW p \in PositionType, StopBehindPrice(p), WholeHalves(p), NEW s \in p.stop
    PROVE  /\ NewStop(p, s) \in Int
           /\ IF p.long THEN NewStop(p, s) < p.price ELSE NewStop(p, s) > p.price
<1>1. p.entry \in Nat /\ p.price \in Nat /\ s \in Int /\ p.long \in BOOLEAN
  BY DEF PositionType
<1>2. PICK d \in Int : d = Distance(p.entry, s)
  BY <1>1 DEF Distance
<1>3. d % 2 = 0 /\ d >= 0 /\ (s # p.entry => d > 0)
  BY <1>1, <1>2 DEF WholeHalves, Distance
<1>4. d \div 2 \in Int /\ (s # p.entry => d \div 2 >= 1)
  BY <1>3
<1>5. IF p.long THEN s < p.price ELSE s > p.price
  BY DEF StopBehindPrice
<1>6. CASE IsProfitable(p)
  BY <1>1, <1>6 DEF IsProfitable, NewStop
<1>7. CASE ~IsProfitable(p)
  <2>1. s # p.entry
    BY <1>1, <1>5, <1>7 DEF IsProfitable
  <2>2. NewStop(p, s) = IF p.long THEN p.price - (d \div 2) ELSE p.price + (d \div 2)
    BY <1>2, <1>7 DEF NewStop, Half
  <2> QED
    BY <1>1, <1>4, <2>1, <2>2
<1> QED
  BY <1>6, <1>7

(* A minute more of both clocks.                                           *)
LEMMA OneMinuteMore ==
    ASSUME NEW a \in Nat, NEW b \in Nat, NEW c \in Nat, NEW k \in Nat,
           b <= a + 1, c >= k + a
    PROVE  c + 1 >= k + b
  OBVIOUS

(* Every step of the engine, its override and its stops included, keeps    *)
(* the invariant.                                                          *)
LEMMA NextStressInv == StressInv /\ [Next]_vars => StressInv'
<1> SUFFICES ASSUME StressInv, [Next]_vars PROVE StressInv'
  OBVIOUS
<1> USE StressAssumption
<1>0. /\ TypeOK /\ StopBehindPrice(position) /\ LiftsAreApart
      /\ CooldownMins \in Nat \ {0} /\ AgeBound = 3 * CooldownMins
  BY DEF StressInv, AgeBound
<1>1. ASSUME NEW e \in Equities, Update(e) PROVE StressInv'
  <2>1. /\ e \in Int /\ e <= peak' /\ peak' \in Nat \ {0}
        /\ equity' = e /\ tier' = FromDrawdown(peak', e)
        /\ sinceUpdate' = 0 /\ idle' = idle /\ position' = position
    BY <1>0, <1>1 DEF Update, TypeOK
  <2>2. tier' \in StressTier
    BY <2>1, FromDrawdownIs
  <2>3. TypeOK'
    BY <1>0, <2>1, <2>2 DEF TypeOK, AgeBound
  <2>4. Lifted' = 0
    BY <2>1, <2>2, SeverityIs DEF Lifted
  <2>5. StopBehindPrice(position)'
    BY <1>0, <2>1 DEF StopBehindPrice
  <2> QED
    BY <2>3, <2>4, <2>5 DEF StressInv, LiftsAreApart
<1>2. CASE OverrideUp
  <2>1. /\ idle = CooldownMins /\ idle' = 0 /\ sinceUpdate' = sinceUpdate
        /\ tier' \in StressTier /\ Severity[tier'] = Severity[tier] - 1
        /\ UNCHANGED <<peak, equity, position>>
    BY <1>0, <1>2 DEF OverrideUp, TypeOK
  <2>2. Lifted' = Lifted + 1 /\ Lifted' \in 0..4
    <3>1. /\ Severity[FromDrawdown(peak, equity)] \in 0..4
          /\ Severity[tier] \in 0..4 /\ Severity[tier'] \in 0..4
      BY <1>0, <2>1, FromDrawdownIs, SeverityIs DEF TypeOK
    <3> QED
      BY <1>0, <2>1, <3>1 DEF Lifted, LiftsAreApart
  <2>3. ASSUME NEW n \in 1..4, Lifted' = n
        PROVE  sinceUpdate' = AgeBound \/ sinceUpdate' >= (n - 1) * CooldownMins + idle'
    <3>1. CASE n = 1
      BY <1>0, <2>1, <3>1 DEF TypeOK
    <3>2. CASE n # 1
      <4>1. n - 1 \in 1..4 /\ Lifted = n - 1
        BY <2>2, <2>3, <3>2, <1>0 DEF LiftsAreApart
      <4>2. sinceUpdate = AgeBound \/ sinceUpdate >= (n - 2) * CooldownMins + idle
        BY <1>0, <4>1 DEF LiftsAreApart
      <4>3. (n - 2) * CooldownMins + CooldownMins = (n - 1) * CooldownMins
        BY <1>0
      <4> QED
        BY <1>0, <2>1, <4>2, <4>3 DEF TypeOK
    <3> QED
      BY <3>1, <3>2
  <2>4. AgeBound' = AgeBound
    BY DEF AgeBound
  <2>5. LiftsAreApart'
    BY <2>1, <2>2, <2>3, <2>4 DEF LiftsAreApart
  <2> QED
    BY <1>0, <2>1, <2>5 DEF StressInv, TypeOK, StopBehindPrice
<1>3. CASE Minute
  <2>1. /\ UNCHANGED <<peak, tier, position, equity>>
        /\ idle' \in 0..CooldownMins /\ idle' <= idle + 1
        /\ sinceUpdate' \in 0..AgeBound
        /\ (sinceUpdate' = AgeBound \/ sinceUpdate' = sinceUpdate + 1)
        /\ sinceUpdate = AgeBound => sinceUpdate' = AgeBound
    BY <1>0, <1>3 DEF Minute, TypeOK
  <2>2. Lifted' = Lifted /\ TypeOK' /\ StopBehindPrice(position)' /\ AgeBound' = AgeBound
    BY <1>0, <2>1 DEF Lifted, TypeOK, StopBehindPrice, AgeBound
  <2>3. ASSUME NEW n \in 1..4, Lifted' = n
        PROVE  sinceUpdate' = AgeBound \/ sinceUpdate' >= (n - 1) * CooldownMins + idle'
    <3>1. sinceUpdate = AgeBound \/ sinceUpdate >= (n - 1) * CooldownMins + idle
      BY <1>0, <2>2, <2>3 DEF LiftsAreApart
    <3>2. PICK k \in Nat : k = (n - 1) * CooldownMins
      BY <1>0, TimesIsMonotone
    <3>3. idle \in Nat /\ idle' \in Nat /\ sinceUpdate \in Nat
      BY <1>0, <2>1 DEF TypeOK
    <3> QED
      <4>1. sinceUpdate >= k + idle => sinceUpdate + 1 >= k + idle'
        BY <2>1, <3>2, <3>3, OneMinuteMore
      <4>2. sinceUpdate' = AgeBound \/ sinceUpdate' >= k + idle'
        BY <2>1, <3>1, <3>2, <4>1
      <4> QED
        BY <3>2, <4>2
  <2>4. LiftsAreApart'
    BY <1>0, <2>2, <2>3 DEF LiftsAreApart
  <2> QED
    BY <2>2, <2>4 DEF StressInv
<1>4. ASSUME UNCHANGED <<peak, tier, idle, equity, sinceUpdate>>,
             position' \in PositionType, StopBehindPrice(position')
      PROVE  StressInv'
  <2>1. LiftsAreApart' /\ TypeOK'
    BY <1>0, <1>4 DEF LiftsAreApart, Lifted, AgeBound, TypeOK
  <2> QED
    BY <1>4, <2>1 DEF StressInv, StopBehindPrice
<1>5. ASSUME NEW x \in Prices, PriceMove(x) PROVE StressInv'
  <2>1. position' \in PositionType
    BY <1>0, <1>5 DEF PriceMove, TypeOK, PositionType
  <2> QED
    BY <1>4, <1>5, <2>1 DEF PriceMove
<1>6. CASE FlameoutTightenStops
  <2>1. position' = [position EXCEPT !.stop = {NewStop(position, s) : s \in position.stop}]
    BY <1>6 DEF FlameoutTightenStops
  <2>2. \A s \in position.stop :
           /\ NewStop(position, s) \in Int
           /\ IF position.long THEN NewStop(position, s) < position.price
                               ELSE NewStop(position, s) > position.price
    BY <1>0, <1>6, NewStopIsBehind DEF FlameoutTightenStops, TypeOK
  <2>3. position' \in PositionType
    BY <1>0, <2>1, <2>2 DEF TypeOK, PositionType
  <2>4. /\ position'.stop = {NewStop(position, s) : s \in position.stop}
        /\ position'.price = position.price /\ position'.long = position.long
    BY <1>0, <2>1 DEF TypeOK, PositionType
  <2>5. StopBehindPrice(position')
    BY <2>2, <2>4 DEF StopBehindPrice
  <2> QED
    BY <1>4, <1>6, <2>3, <2>5 DEF FlameoutTightenStops
<1>7. CASE UNCHANGED vars
  BY <1>0, <1>4, <1>7 DEF vars, TypeOK
<1> QED
  BY <1>1, <1>2, <1>3, <1>5, <1>6, <1>7 DEF Next

(* One more lift needs one more cooldown.                                  *)
LEMMA LiftsTakeTime == StressInv => LiftedOneTierPerCooldown
<1> SUFFICES ASSUME StressInv PROVE LiftedOneTierPerCooldown
  OBVIOUS
<1>0. /\ Lifted \in 0..4 /\ sinceUpdate \in Nat /\ idle \in Nat
      /\ CooldownMins \in Nat \ {0}
  BY StressAssumption DEF StressInv, TypeOK, LiftsAreApart, AgeBound
<1>1. ASSUME NEW k \in 0..3, sinceUpdate >= k * CooldownMins
      PROVE  sinceUpdate \div CooldownMins >= k
  <2>1. PICK q \in Int, r \in 0..CooldownMins - 1 :
           sinceUpdate = q * CooldownMins + r /\ q = sinceUpdate \div CooldownMins
    BY <1>0
  <2>2. (q + 1) * CooldownMins > k * CooldownMins
    BY <1>0, <1>1, <2>1
  <2>3. q + 1 > k
    BY <1>0, <2>1, <2>2
  <2> QED
    BY <2>1, <2>3
<1>2. ASSUME NEW n \in 1..4, Lifted = n PROVE sinceUpdate >= (n - 1) * CooldownMins
  <2>1. (n - 1) * CooldownMins <= 3 * CooldownMins /\ (n - 1) * CooldownMins \in Nat
    BY <1>0, TimesIsMonotone
  <2>2. sinceUpdate = 3 * CooldownMins \/ sinceUpdate >= (n - 1) * CooldownMins + idle
    BY <1>2 DEF StressInv, LiftsAreApart, AgeBound
  <2> QED
    BY <1>0, <2>1, <2>2
<1>3. Lifted <= 1 + (sinceUpdate \div CooldownMins)
  <2>1. CASE Lifted = 0
    BY <1>0, <1>1, <2>1
  <2>2. CASE Lifted \in 1..4
    <3>1. PICK k \in 0..3 : Lifted = k + 1
      BY <2>2
    <3>2. sinceUpdate >= k * CooldownMins
      BY <1>2, <3>1
    <3> QED
      BY <1>0, <1>1, <3>1, <3>2
  <2> QED
    BY <1>0, <2>1, <2>2
<1> QED
  BY <1>0, <1>3 DEF LiftedOneTierPerCooldown, Lifted

(* After a loss nothing is admitted that was not before it.                *)
LEMMA NextLosing ==
    StressInv /\ StressInv' /\ [Next]_vars
    => [equity' < equity =>
          \A o \in Orders, b \in Books :
              Approves(o, b, equity', tier') => Approves(o, b, equity, tier)]_vars
<1> SUFFICES ASSUME StressInv, [Next]_vars, equity' < equity,
                    NEW o \in Orders, NEW b \in Books, Approves(o, b, equity', tier')
             PROVE  Approves(o, b, equity, tier)
  OBVIOUS
<1>0. /\ peak \in Nat \ {0} /\ equity \in Int /\ equity <= peak /\ tier \in StressTier
      /\ Severity[tier] <= Severity[FromDrawdown(peak, equity)]
  <2>1. Severity[tier] \in 0..4 /\ Severity[FromDrawdown(peak, equity)] \in 0..4
    BY FromDrawdownIs, SeverityIs DEF StressInv, TypeOK
  <2> QED
    BY <2>1 DEF StressInv, TypeOK, LiftsAreApart, Lifted
<1>1. PICK e \in Equities : Update(e)
  BY <1>0 DEF Next, OverrideUp, Minute, PriceMove, FlameoutTightenStops, vars
<1>2. equity' = e /\ e \in Int /\ peak' = peak /\ tier' = FromDrawdown(peak, e)
  BY <1>0, <1>1, StressAssumption DEF Update
<1>3. /\ Severity[FromDrawdown(peak, equity)] <= Severity[tier']
      /\ e <= 0 => tier' = "Nosedive"
  BY <1>0, <1>2, LowerIsDeeper
<1>4. tier' \in StressTier /\ Severity[tier] <= Severity[tier']
  <2>1. tier' \in StressTier
    BY <1>2, FromDrawdownIs
  <2>2. /\ Severity[tier] \in Int /\ Severity[tier'] \in Int
        /\ Severity[FromDrawdown(peak, equity)] \in Int
    BY <1>0, <2>1, FromDrawdownIs, SeverityIs
  <2> QED
    BY <1>0, <1>3, <2>1, <2>2
<1>5. e > 0
  BY <1>2, <1>3 DEF Approves
<1>6. e \in Nat \ {0} /\ equity \in Nat \ {0} /\ e <= equity
  BY <1>0, <1>2, <1>5
<1>7. Approves(o, b, e, tier')
  BY <1>2
<1> QED
  BY <1>0, <1>4, <1>6, <1>7, ApprovesIsMonotone

-----------------------------------------------------------------------------
(* The trust ledger.                                                       *)

(* What the log says of a decision.                                        *)
Decisions == {Approval(k, o) : k \in Keys, o \in Occasions} \cup {Rejection(k) : k \in Keys}

(* An entry of the ledger is what the log says of the current streak: the  *)
(* counter and the three sets are those of the approvals since the last    *)
(* rejection, whatever was recorded under other keys in between.           *)
LedgerIsStreak ==
    /\ log \in Seq(Decisions)
    /\ \A k \in Keys :
          /\ entries[k].approvals = Cardinality(Streak(k))
          /\ entries[k].days = {log[n].day : n \in Streak(k)}
          /\ entries[k].vix = {log[n].vix : n \in Streak(k)}
          /\ entries[k].times = {log[n].time : n \in Streak(k)}

EntryType == [approvals : Nat, rejections : Nat, days : SUBSET {o.day : o \in Occasions},
              vix : SUBSET {o.vix : o \in Occasions},
              times : SUBSET {o.time : o \in Occasions}]

TrustInv ==
    /\ entries \in [Keys -> EntryType]
    /\ Len(log) <= MaxDecisions
    /\ LedgerIsStreak

(* An empty ledger satisfies the invariant.                                *)
LEMMA InitTrustInv == TrustInit => TrustInv
<1> SUFFICES ASSUME TrustInit PROVE TrustInv
  OBVIOUS
<1>1. \A k : Streak(k) = {}
  BY DEF TrustInit, Streak
<1>2. \A k \in Keys : entries[k] = NewEntry
  BY DEF TrustInit
<1>3. NewEntry \in EntryType
  BY DEF NewEntry, EntryType
<1>4. entries \in [Keys -> EntryType]
  BY <1>3 DEF TrustInit
<1>5. log \in Seq(Decisions) /\ Len(log) <= MaxDecisions
  BY TrustAssumption DEF TrustInit
<1>6. Cardinality({}) = 0
  BY FS_EmptySet
<1>7. LedgerIsStreak
  <2>1. ASSUME NEW k \in Keys
        PROVE  /\ entries[k].approvals = Cardinality(Streak(k))
               /\ entries[k].days = {log[n].day : n \in Streak(k)}
               /\ entries[k].vix = {log[n].vix : n \in Streak(k)}
               /\ entries[k].times = {log[n].time : n \in Streak(k)}
    <3>1. /\ entries[k].approvals = 0 /\ entries[k].days = {}
          /\ entries[k].vix = {} /\ entries[k].times = {}
      BY <1>2 DEF NewEntry
    <3>2. Streak(k) = {}
      BY <1>1
    <3> QED
      BY <1>6, <3>1, <3>2
  <2> QED
    BY <1>5, <2>1 DEF LedgerIsStreak
<1> QED
  BY <1>4, <1>5, <1>7 DEF TrustInv

(* A streak lies in the log.                                               *)
LEMMA StreaksAreFinite ==
    ASSUME log \in Seq(Decisions), NEW k
    PROVE  IsFiniteSet(Streak(k)) /\ Streak(k) \subseteq 1..Len(log)
<1>1. Streak(k) \subseteq 1..Len(log) /\ Len(log) \in Nat
  BY DEF Streak
<1>2. IsFiniteSet(1..Len(log))
  BY <1>1, FS_Interval
<1> QED
  BY <1>1, <1>2, FS_Subset

(* A decision changes the streak of its own key only: an approval makes it *)
(* one longer, a rejection ends it.                                        *)
LEMMA StreakGrows ==
    ASSUME log \in Seq(Decisions), NEW d \in Decisions, log' = Append(log, d),
           d.approved \in BOOLEAN, NEW k
    PROVE  /\ Len(log) + 1 \notin Streak(k)
           /\ log'[Len(log) + 1] = d
           /\ \A n \in Streak(k) : log'[n] = log[n]
           /\ Streak(k)' = IF d.key # k THEN Streak(k)
                           ELSE IF d.approved THEN Streak(k) \cup {Len(log) + 1}
                           ELSE {}
<1>1. /\ Len(log) \in Nat /\ DOMAIN log = 1..Len(log)
      /\ DOMAIN log' = 1..Len(log) + 1 /\ Len(log') = Len(log) + 1
      /\ log'[Len(log) + 1] = d
      /\ \A n \in 1..Len(log) : log'[n] = log[n]
  OBVIOUS
<1>2. PICK z \in Nat : z = Len(log)
  BY <1>1
<1>3. \A n \in 1..z + 1 : n \in 1..z \/ n = z + 1
  BY <1>2
<1>4. \A n \in 1..z : \A m : m \in n..z + 1 <=> m \in n..z \/ m = z + 1
  BY <1>2
<1>5. ASSUME NEW n
      PROVE  n \in Streak(k)' <=>
                IF d.key # k THEN n \in Streak(k)
                ELSE d.approved /\ (n \in Streak(k) \/ n = z + 1)
  <2>1. CASE n \in 1..z
    <3>1. n \in Streak(k) <=>
             /\ log[n].key = k
             /\ \A m \in n..z : log[m].key = k => log[m].approved
      BY <1>1, <1>2, <2>1 DEF Streak
    <3>2. n \in Streak(k)' <=>
             /\ log'[n].key = k
             /\ \A m \in n..z + 1 : log'[m].key = k => log'[m].approved
      BY <1>1, <1>2, <2>1 DEF Streak
    <3>3. \A m \in n..z : m \in 1..z /\ log'[m] = log[m]
      BY <1>1, <1>2, <2>1
    <3>4. log'[n] = log[n] /\ n # z + 1 /\ n \in n..z
      BY <1>1, <1>2, <2>1
    <3>5. n \in Streak(k)' <=> n \in Streak(k) /\ (d.key = k => d.approved)
      BY <1>1, <1>2, <1>4, <2>1, <3>1, <3>2, <3>3, <3>4
    <3> QED
      BY <3>4, <3>5
  <2>2. CASE n = z + 1
    <3>1. n \notin Streak(k)
      BY <1>1, <1>2, <2>2 DEF Streak
    <3>2. n \in Streak(k)' <=> d.key = k /\ d.approved
      BY <1>1, <1>2, <2>2 DEF Streak
    <3> QED
      BY <2>2, <3>1, <3>2
  <2>3. CASE n \notin 1..z + 1
    BY <1>1, <1>2, <1>3, <2>3 DEF Streak
  <2> QED
    BY <1>3, <2>1, <2>2, <2>3
<1>6. z + 1 \notin Streak(k)
  BY <1>1, <1>2 DEF Streak
<1>7. \A n \in Streak(k) : log'[n] = log[n]
  BY <1>1 DEF Streak
<1> QED
  BY <1>1, <1>2, <1>5, <1>6, <1>7

(* Every decision recorded keeps the invariant.                            *)
LEMMA NextTrustInv == TrustInv /\ [TrustNext]_trustVars => TrustInv'
<1> SUFFICES ASSUME TrustInv, [TrustNext]_trustVars PROVE TrustInv'
  OBVIOUS
<1>0. /\ entries \in [Keys -> EntryType] /\ log \in Seq(Decisions)
      /\ \A k : IsFiniteSet(Streak(k)) /\ Cardinality(Streak(k)) \in Nat
  BY StreaksAreFinite, FS_CardinalityType DEF TrustInv, LedgerIsStreak
<1>1. ASSUME NEW d \in Decisions, d.approved \in BOOLEAN, log' = Append(log, d),
             Len(log) < MaxDecisions,
             entries' \in [Keys -> EntryType],
             \A k \in Keys : d.key # k => entries'[k] = entries[k],
             \A k \in Keys : d.key = k /\ ~d.approved =>
                entries'[k].approvals = 0 /\ entries'[k].days = {}
                /\ entries'[k].vix = {} /\ entries'[k].times = {},
             \A k \in Keys : d.key = k /\ d.approved =>
                /\ entries'[k].approvals = entries[k].approvals + 1
                /\ entries'[k].days = entries[k].days \cup {d.day}
                /\ entries'[k].vix = entries[k].vix \cup {d.vix}
                /\ entries'[k].times = entries[k].times \cup {d.time}
      PROVE  TrustInv'
  <2>1. log' \in Seq(Decisions) /\ Len(log') <= MaxDecisions
    BY <1>0, <1>1, TrustAssumption
  <2>2. ASSUME NEW k \in Keys
        PROVE  /\ entries'[k].approvals = Cardinality(Streak(k)')
               /\ entries'[k].days = {log'[n].day : n \in Streak(k)'}
               /\ entries'[k].vix = {log'[n].vix : n \in Streak(k)'}
               /\ entries'[k].times = {log'[n].time : n \in Streak(k)'}
    <3>1. PICK z : z = Len(log) + 1
      OBVIOUS
    <3>2. /\ z \notin Streak(k) /\ log'[z] = d
          /\ \A n \in Streak(k) : log'[n] = log[n]
          /\ Streak(k)' = IF d.key # k THEN Streak(k)
                          ELSE IF d.approved THEN Streak(k) \cup {z} ELSE {}
      BY <1>0, <1>1, <3>1, StreakGrows
    <3>3. /\ entries[k].approvals = Cardinality(Streak(k))
          /\ entries[k].days = {log[n].day : n \in Streak(k)}
          /\ entries[k].vix = {log[n].vix : n \in Streak(k)}
          /\ entries[k].times = {log[n].time : n \in Streak(k)}
      BY DEF TrustInv, LedgerIsStreak
    <3>4. CASE d.key # k
      <4>1. Streak(k)' = Streak(k) /\ entries'[k] = entries[k]
        BY <1>1, <3>2, <3>4
      <4>2. /\ {log'[n].day : n \in Streak(k)} = {log[n].day : n \in Streak(k)}
            /\ {log'[n].vix : n \in Streak(k)} = {log[n].vix : n \in Streak(k)}
            /\ {log'[n].time : n \in Streak(k)} = {log[n].time : n \in Streak(k)}
        BY <3>2
      <4> QED
        BY <3>3, <4>1, <4>2
    <3>5. CASE d.key = k /\ d.approved
      <4>1. Streak(k)' = Streak(k) \cup {z}
        BY <3>2, <3>5
      <4>2. Cardinality(Streak(k)') = Cardinality(Streak(k)) + 1
        BY <1>0, <3>2, <4>1, FS_AddElement
      <4>3. /\ {log'[n].day : n \in Streak(k)'} = {log[n].day : n \in Streak(k)} \cup {d.day}
            /\ {log'[n].vix : n \in Streak(k)'} = {log[n].vix : n \in Streak(k)} \cup {d.vix}
            /\ {log'[n].time : n \in Streak(k)'} = {log[n].time : n \in Streak(k)} \cup {d.time}
        BY <3>2, <4>1
      <4> QED
        BY <1>1, <3>3, <3>5, <4>2, <4>3
    <3>6. CASE d.key = k /\ ~d.approved
      <4>1. Streak(k)' = {}
        BY <3>2, <3>6
      <4> QED
        BY <1>1, <3>6, <4>1, FS_EmptySet
    <3> QED
      BY <1>1, <3>4, <3>5, <3>6
  <2> QED
    BY <1>1, <2>1, <2>2 DEF TrustInv, LedgerIsStreak
<1>2. ASSUME NEW k \in Keys, NEW o \in Occasions, RecordApproval(k, o) PROVE TrustInv'
  <2>1. PICK d \in Decisions : d = Approval(k, o)
    BY DEF Decisions
  <2>2. /\ d.approved = TRUE /\ d.key = k
        /\ d.day = o.day /\ d.vix = o.vix /\ d.time = o.time
    BY <2>1 DEF Approval
  <2>3. /\ log' = Append(log, d) /\ Len(log) < MaxDecisions
        /\ entries' = [entries EXCEPT
              ![k].approvals = @ + 1,
              ![k].days      = @ \cup {o.day},
              ![k].vix       = @ \cup {o.vix},
              ![k].times     = @ \cup {o.time}]
    BY <1>2, <2>1 DEF RecordApproval
  <2>4. /\ \A j \in Keys \ {k} : entries'[j] = entries[j]
        /\ entries'[k].approvals = entries[k].approvals + 1
        /\ entries'[k].days = entries[k].days \cup {o.day}
        /\ entries'[k].vix = entries[k].vix \cup {o.vix}
        /\ entries'[k].times = entries[k].times \cup {o.time}
        /\ entries'[k].rejections = entries[k].rejections
    BY <1>0, <2>3 DEF EntryType
  <2>5. PICK e : e = [entries[k] EXCEPT !.approvals = @ + 1, !.days = @ \cup {o.day},
                                        !.vix = @ \cup {o.vix}, !.times = @ \cup {o.time}]
    OBVIOUS
  <2>6. e \in EntryType
    <3>1. entries[k] \in EntryType
      BY <1>0
    <3>2. /\ entries[k].days \cup {o.day} \in SUBSET {x.day : x \in Occasions}
          /\ entries[k].vix \cup {o.vix} \in SUBSET {x.vix : x \in Occasions}
          /\ entries[k].times \cup {o.time} \in SUBSET {x.time : x \in Occasions}
      BY <3>1 DEF EntryType
    <3>3. /\ e.approvals = entries[k].approvals + 1 /\ e.rejections = entries[k].rejections
          /\ e.days = entries[k].days \cup {o.day} /\ e.vix = entries[k].vix \cup {o.vix}
          /\ e.times = entries[k].times \cup {o.time}
          /\ e = [approvals |-> e.approvals, rejections |-> e.rejections,
                  days |-> e.days, vix |-> e.vix, times |-> e.times]
      BY <2>5, <3>1 DEF EntryType
    <3>4. e.approvals \in Nat /\ e.rejections \in Nat
      BY <3>1, <3>3 DEF EntryType
    <3> QED
      BY <3>2, <3>3, <3>4 DEF EntryType
  <2>7. entries' = [entries EXCEPT ![k] = e]
    BY <1>0, <2>3, <2>5 DEF EntryType
  <2>8. entries' \in [Keys -> EntryType]
    BY <1>0, <2>6, <2>7
  <2>9. /\ \A j \in Keys : d.key # j => entries'[j] = entries[j]
        /\ \A j \in Keys : d.key = j => j = k
    BY <2>2, <2>4
  <2>10. \A j \in Keys : d.key = j /\ d.approved =>
           /\ entries'[j].approvals = entries[j].approvals + 1
           /\ entries'[j].days = entries[j].days \cup {d.day}
           /\ entries'[j].vix = entries[j].vix \cup {d.vix}
           /\ entries'[j].times = entries[j].times \cup {d.time}
    BY <2>2, <2>4
  <2>11. /\ d \in Decisions /\ d.approved \in BOOLEAN
         /\ \A j \in Keys : ~(d.key = j /\ ~d.approved)
    BY <2>1, <2>2
  <2> QED
    BY <1>1, <2>3, <2>8, <2>9, <2>10, <2>11
<1>3. ASSUME NEW k \in Keys, RecordRejection(k) PROVE TrustInv'
  <2>1. PICK d \in Decisions : d = Rejection(k)
    BY DEF Decisions
  <2>2. d.approved = FALSE /\ d.key = k
    BY <2>1 DEF Rejection
  <2>3. /\ log' = Append(log, d) /\ Len(log) < MaxDecisions
        /\ entries' = [entries EXCEPT
              ![k] = [NewEntry EXCEPT !.rejections = entries[k].rejections + 1]]
    BY <1>3, <2>1 DEF RecordRejection
  <2>4. PICK e : e = [NewEntry EXCEPT !.rejections = entries[k].rejections + 1]
    OBVIOUS
  <2>5. /\ e \in EntryType
        /\ e.approvals = 0 /\ e.days = {} /\ e.vix = {} /\ e.times = {}
    BY <1>0, <2>4 DEF EntryType, NewEntry
  <2>6. /\ entries' \in [Keys -> EntryType] /\ entries'[k] = e
        /\ \A j \in Keys \ {k} : entries'[j] = entries[j]
    BY <1>0, <2>3, <2>4, <2>5, SMTT(30)
  <2> QED
    BY <1>1, <2>1, <2>2, <2>3, <2>5, <2>6
<1>4. CASE UNCHANGED trustVars
  BY <1>4 DEF TrustInv, LedgerIsStreak, Streak, trustVars
<1> QED
  BY <1>2, <1>3, <1>4 DEF TrustNext

-----------------------------------------------------------------------------
(* The governor.                                                           *)

GovernorInv == StressInv /\ TrustInv

(* Both hold initially.                                                    *)
LEMMA InitGovernorInv == GovernorInit => GovernorInv
  BY InitStressInv, InitTrustInv DEF GovernorInit, GovernorInv

(* The governor moves one of the two at a time.                            *)
LEMMA NextGovernorInv == GovernorInv /\ [GovernorNext]_governorVars => GovernorInv'
<1> SUFFICES ASSUME GovernorInv, [GovernorNext]_governorVars PROVE GovernorInv'
  OBVIOUS
<1>1. [Next]_vars /\ [TrustNext]_trustVars
  BY DEF GovernorNext, EngineMoves, LedgerMoves, governorVars
<1> QED
  BY <1>1, NextStressInv, NextTrustInv DEF GovernorInv

(* The invariant holds throughout.                                         *)
LEMMA GovernorInductive == GovernorSpec => []GovernorInv
  BY InitGovernorInv, NextGovernorInv, PTL DEF GovernorSpec

(* The variables of engine and ledger have their types, the high-water     *)
(* mark is positive and never below the equity last reported.              *)
THEOREM GovernorTypeCorrect == GovernorSpec => []GovernorTypeOK
<1>1. GovernorInv => GovernorTypeOK
  BY DEF GovernorInv, StressInv, TrustInv, EntryType, GovernorTypeOK, TrustTypeOK
<1> QED
  BY <1>1, GovernorInductive, PTL

(* Whatever the updates and overrides, the tier is lifted by no more than  *)
(* one step and one more for every full cooldown since the last update.    *)
THEOREM LiftsAreSpaced == GovernorSpec => []LiftedOneTierPerCooldown
<1>1. GovernorInv => LiftedOneTierPerCooldown
  BY LiftsTakeTime DEF GovernorInv
<1> QED
  BY <1>1, GovernorInductive, PTL

(* Flameout's tightening never puts a stop on the wrong side of the price. *)
THEOREM TighteningIsSafe == GovernorSpec => []TighteningNeverTriggers
<1>1. GovernorInv => TighteningNeverTriggers
  BY DEF GovernorInv, StressInv, TighteningNeverTriggers
<1> QED
  BY <1>1, GovernorInductive, PTL

(* A loss never widens the gate, whatever the thresholds up to 100 percent *)
(* and the limits, and also where the equity turns negative.               *)
THEOREM LosingIsMonotone == GovernorSpec => LosingNeverAdmitsMore
<1>1. GovernorInv /\ GovernorInv' /\ [GovernorNext]_governorVars
      => [equity' < equity =>
            \A o \in Orders, b \in Books :
                Approves(o, b, equity', tier') => Approves(o, b, equity, tier)]_vars
  <2>1. [GovernorNext]_governorVars => [Next]_vars
    BY DEF GovernorNext, EngineMoves, LedgerMoves, governorVars
  <2> QED
    BY <2>1, NextLosing DEF GovernorInv
<1> QED
  BY <1>1, GovernorInductive, PTL DEF GovernorSpec, LosingNeverAdmitsMore

(* A supervised module's order is executed unasked only under a key whose  *)
(* current streak of approvals is long and diverse enough.                 *)
THEOREM AloneOnlyWhereEarned == GovernorSpec => []ExecutesAloneOnlyWhereEarned
<1>1. ASSUME GovernorInv PROVE ExecutesAloneOnlyWhereEarned
  <2> SUFFICES ASSUME NEW k \in Keys, NEW o \in Orders, NEW n \in {equity, 0},
                      SupervisionModel(k.module) # "SupervisedAutonomy",
                      ProcessIntent(k, [o EXCEPT !.module = k.module], n, TRUE) = "Executed"
               PROVE  k.module \notin Strict /\ Earned(k)
    BY DEF ExecutesAloneOnlyWhereEarned
  <2>1. EvaluateSupervision(k.module, HasAutoTrust(k)) = "AutoExecute"
    BY DEF ProcessIntent, Released
  <2>2. SupervisionModel(k.module) = "DualControl" /\ Qualifies(entries[k])
    BY <2>1 DEF EvaluateSupervision, HasAutoTrust
  <2>3. k.module \notin Strict
    <3> SUFFICES ASSUME k.module \in Strict PROVE FALSE
      OBVIOUS
    <3>1. k.module \notin Autonomous /\ k.module \notin Graduating
      BY DEF Autonomous, Strict, Graduating
    <3>2. SupervisionModel(k.module) = "DualControlStrict"
      BY <3>1 DEF SupervisionModel
    <3> QED
      BY <2>2, <3>2
  <2>4. /\ entries[k].approvals = Cardinality(Streak(k))
        /\ entries[k].days = {log[m].day : m \in Streak(k)}
        /\ entries[k].vix = {log[m].vix : m \in Streak(k)}
        /\ entries[k].times = {log[m].time : m \in Streak(k)}
    BY <1>1 DEF GovernorInv, TrustInv, LedgerIsStreak
  <2> QED
    BY <2>2, <2>3, <2>4 DEF Qualifies, Earned
<1>2. GovernorInv => ExecutesAloneOnlyWhereEarned
  BY <1>1
<1> QED
  BY <1>2, GovernorInductive, PTL
=============================================================================
