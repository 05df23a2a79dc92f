------------------------------ MODULE Strategies ------------------------------
(***************************************************************************)
(* The quote sources and the three strategy modules as functions: what a   *)
(* source makes of its raw data (talon-data, ibkr.rs), the indicators      *)
(* (talon-util indicators.rs) and one on_quote of Firebird, Thunderbird    *)
(* and Taxi on the windows of one symbol.  Prices are integers; an         *)
(* indicator is a ratio <<a, b>> with b > 0, compared by cross             *)
(* multiplication, so that no rounding enters a comparison.                *)
(***************************************************************************)
EXTENDS Integers, Sequences, SequencesExt, Sums

CONSTANTS
    RsiPeriod,       \* 14 in the code
    VolLookback,     \* 10
    BbPeriod,        \* 20
    BbDeviation,     \* 2.5, as a ratio
    SwingLookback,   \* 20
    PullbackBars     \* 5, the volumes Taxi looks at

ASSUME StrategyAssumption ==
    /\ {RsiPeriod, VolLookback, BbPeriod, SwingLookback, PullbackBars} \subseteq Nat \ {0}
    /\ BbDeviation \in (Nat \ {0}) \X (Nat \ {0})

NoAverage == 0   \* a quote without an average volume

(* An optional price is the set of it: empty when there is none.           *)
NoPrice == {}

Below(a, b) == a[1] * b[2] < b[1] * a[2]

-----------------------------------------------------------------------------
(* What the sources make of their raw data.                                *)

Quote(s, last, volume, avg, low) ==
    [symbol |-> s, last |-> last, volume |-> volume, avg |-> avg, low |-> low]

(* A five-second bar: the volume is the bar's own.                         *)
BarQuote(b) == Quote(b.symbol, b.close, b.volume, NoAverage, NoPrice)

(* A snapshot: the volume is the day's, its average the day before's, and  *)
(* a snapshot without a last trade has price zero.  The last trade and the *)
(* day's low are separate fields; nothing compares them.                   *)
SnapshotQuote(p) ==
    Quote(p.symbol, IF p.traded THEN p.price ELSE 0, p.dayVolume, p.prevVolume, p.low)

(* The fallback: the volume is that of the last daily bar.                 *)
FallbackQuote(y) == Quote(y.symbol, y.close, y.volume, NoAverage, NoPrice)

-----------------------------------------------------------------------------
(* Indicators.                                                             *)

Latest(w, n) == SubSeq(w, Len(w) - n + 1, Len(w))

(* The mutant: a window that is emptied instead of moved on.               *)
Slide_Restarts(w, x, n) == IF Len(w) < n THEN Append(w, x) ELSE <<x>>

(* push_back, then pop_front while the window is longer than n.            *)
Slide(w, x, n) ==
    LET longer == Append(w, x)
    IN  IF Len(longer) > n THEN Latest(longer, n) ELSE longer

Squares(w) == SumOf([i \in DOMAIN w |-> w[i] * w[i]])
Least(w) == CHOOSE x \in ToSet(w) : \A y \in ToSet(w) : x <= y

Changes(w) == [i \in 1..Len(w) - 1 |-> w[i + 1] - w[i]]

(* 100 - 100 / (1 + gains / losses), as a share of one.                    *)
Rsi(gains, losses) ==
    IF losses = 0 THEN <<1, 1>> ELSE <<gains, gains + losses>>

Positive(c) == [i \in DOMAIN c |-> IF c[i] > 0 THEN c[i] ELSE 0]
Gains(w) == SumOf(Positive(Changes(w)))
Losses(w) == SumOf(Positive([i \in DOMAIN Changes(w) |-> -Changes(w)[i]]))

(* The mutant: gains and losses change places.                             *)
RsiOf_Swapped(prices) ==
    LET w == Latest(prices, RsiPeriod + 1) IN Rsi(Losses(w), Gains(w))

RsiOf(prices) == LET w == Latest(prices, RsiPeriod + 1) IN Rsi(Gains(w), Losses(w))

(* More decreases than half the steps; the division rounds down.           *)
VolumeDeclining(volumes, lookback) ==
    /\ lookback >= 2
    /\ Len(volumes) >= lookback
    /\ Len(SelectSeq(Changes(Latest(volumes, lookback)), LAMBDA c : c < 0))
         > (lookback - 1) \div 2

(* How far the last price is above the mean, in standard deviations: the   *)
(* square of it, with its sign.  The denominator is zero when the band has *)
(* no width.                                                               *)
BandReading(prices) ==
    LET w == Latest(prices, BbPeriod)
        above == BbPeriod * Last(w) - SumOf(w)
    IN  << above * (IF above < 0 THEN -above ELSE above),
           BbPeriod * Squares(w) - SumOf(w) * SumOf(w) >>

Deviations == <<BbDeviation[1] * BbDeviation[1], BbDeviation[2] * BbDeviation[2]>>
HalfDeviations == <<Deviations[1], 4 * Deviations[2]>>

(* QuoteEvent::rvol is there when the quote brings an average.             *)
HasRvol(q) == q.avg > 0

(* rvol >= 3: against the average the quote brings, or else against the    *)
(* mean of the module's own volumes.                                       *)
VolumeClimax(q, volumes) ==
    IF HasRvol(q)
    THEN q.volume >= 3 * q.avg
    ELSE LET w == Latest(volumes, IF Len(volumes) < BbPeriod THEN Len(volumes) ELSE BbPeriod)
         IN  SumOf(w) > 0 /\ q.volume * Len(w) >= 3 * SumOf(w)

-----------------------------------------------------------------------------
(* The modules.  Of each symbol a module remembers its windows and the     *)
(* last reading of its indicator; NoReading before the first.              *)

NoReading == <<>>
Blank == [prices |-> <<>>, volumes |-> <<>>, reading |-> NoReading]

Remember(mem, q, prices, volumes) ==
    [mem EXCEPT !.prices = Slide(@, q.last, prices), !.volumes = Slide(@, q.volume, volumes)]

(* The mutant: stop and target change places.                              *)
Intent_Exchanged(m, q, side, stop, target) ==
    <<[module |-> m, symbol |-> q.symbol, side |-> side, limit |-> 100 * q.last,
       stop |-> {target}, target |-> IF stop = {} THEN 0 ELSE CHOOSE s \in stop : TRUE]>>

(* The limit, the stop if there is one and the target are in hundredths.   *)
Intent(m, q, side, stop, target) ==
    <<[module |-> m, symbol |-> q.symbol, side |-> side, limit |-> 100 * q.last,
       stop |-> stop, target |-> target]>>

Setup(m, q, heating) == {[module |-> m, symbol |-> q.symbol, heating |-> heating]}

Result(mem, intents, setups) == [mem |-> mem, intents |-> intents, setups |-> setups]
Nothing(mem) == Result(mem, <<>>, {})

(* The mutant: the new reading is stored before it is compared.            *)
Judge_StoresFirst(mem, reading, falls) ==
    [mem |-> [mem EXCEPT !.reading = reading], heating |-> FALSE]

(* A result with a reading: the direction is judged against the previous   *)
(* reading, which the new one replaces.                                    *)
Judge(mem, reading, falls) ==
    [mem |-> [mem EXCEPT !.reading = reading],
     heating |-> mem.reading # NoReading
                   /\ IF falls THEN Below(reading, mem.reading)
                               ELSE Below(mem.reading, reading)]

Firebird(old, q) ==
    LET mem == Remember(old, q, RsiPeriod + 2, VolLookback + 1)
        rsi == RsiOf(mem.prices)
        judged == Judge(mem, rsi, TRUE)
    IN  IF Len(mem.prices) < RsiPeriod + 1 THEN Nothing(mem)
        ELSE IF Below(rsi, <<3, 10>>) /\ VolumeDeclining(mem.volumes, VolLookback)
        THEN Result(judged.mem,
                    Intent("Firebird", q, "Long",
                           {100 * (l - 1) : l \in q.low}, 105 * q.last),
                    {})
        ELSE Result(judged.mem, <<>>,
                    IF Below(rsi, <<9, 20>>) THEN Setup("Firebird", q, judged.heating) ELSE {})

Thunderbird(old, q) ==
    LET mem == Remember(old, q, BbPeriod + 2, BbPeriod + 2)
        band == BandReading(mem.prices)
        judged == Judge(mem, band, FALSE)
        middle == (100 * SumOf(Latest(mem.prices, BbPeriod))) \div BbPeriod
    IN  IF Len(mem.prices) < BbPeriod \/ band[2] = 0 THEN Nothing(mem)
        ELSE IF Below(Deviations, band) /\ VolumeClimax(q, mem.volumes)
        THEN Result(judged.mem, Intent("Thunderbird", q, "Short", {103 * q.last}, middle), {})
        ELSE Result(judged.mem, <<>>,
                    IF Below(HalfDeviations, band) /\ Below(band, Deviations)
                    THEN Setup("Thunderbird", q, judged.heating) ELSE {})

(* The lowest of the latest prices, the quote's own among them.            *)
Support(prices) == Least(Latest(prices, SwingLookback))

Taxi(old, q) ==
    LET mem == Remember(old, q, SwingLookback + 2, SwingLookback + 2)
        support == Support(mem.prices)
        dist == <<q.last - support, support>>
        judged == Judge(mem, dist, TRUE)
        lookback == IF Len(mem.volumes) < PullbackBars THEN Len(mem.volumes) ELSE PullbackBars
        stop == 98 * support
    IN  IF Len(mem.prices) < SwingLookback \/ support = 0 \/ q.last <= support
        THEN Nothing(mem)
        ELSE IF Below(dist, <<3, 200>>) /\ VolumeDeclining(mem.volumes, lookback)
        THEN Result(judged.mem,
                    Intent("Taxi", q, "Long", {stop}, 100 * q.last + 3 * (100 * q.last - stop)),
                    {})
        ELSE Result(judged.mem, <<>>,
                    IF Below(dist, <<1, 20>>) THEN Setup("Taxi", q, judged.heating) ELSE {})
=============================================================================
