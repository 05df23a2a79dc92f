----------------------------- MODULE MarketProofs -----------------------------
(***************************************************************************)
(* What TLAPS proves of the market data wiring and of the strategies, for  *)
(* every set of symbols, bars, snapshots and fallbacks, every capacity and *)
(* every period of the indicators.                                         *)
(***************************************************************************)
EXTENDS Market, SumTheorems, FiniteSetTheorems

-----------------------------------------------------------------------------
(* The types.                                                              *)

AtMostOne == {S \in SUBSET Nat : \A l, h \in S : l = h}
QuoteSet == [symbol : Symbols, last : Nat, volume : Nat, avg : Nat, low : AtMostOne]
ReadingSet == {NoReading} \cup (Int \X Int)
MemorySet == [prices : Seq(Nat), volumes : Seq(Nat), reading : ReadingSet]
IntentSet == [module : Modules, symbol : Symbols, side : {"Long", "Short"},
              limit : Int, stop : SUBSET Int, target : Int]
SentSet == [quote : Nat, intent : IntentSet]
SetupSet == [module : Modules, symbol : Symbols, heating : BOOLEAN]

WiringTypes ==
    /\ barCh \in Seq(QuoteSet) /\ published \in Seq(QuoteSet)
    /\ cursor \in [Readers -> Nat]
    /\ \A r \in Readers : cursor[r] <= Len(published)
    /\ lost \in [Readers -> SUBSET Nat]
    /\ \A r \in Readers : \A k \in lost[r] : k \in 1..cursor[r]

ModuleTypes ==
    /\ memory \in [Modules -> [Symbols -> MemorySet]]
    /\ outbox \in Seq(SentSet) /\ sent \in Seq(SentSet)
    /\ found \in SUBSET SetupSet /\ scanner \in SUBSET SetupSet
    /\ inHand \in BOOLEAN
    /\ signals \in [Modules -> Nat] /\ counted \in [Modules -> Nat]

ShownTypes ==
    /\ shown \in [Symbols -> Nat]
    /\ \A s \in Symbols : shown[s] <= cursor["state"]

-----------------------------------------------------------------------------
(* Windows.                                                                *)

(* The end of a sequence.                                                  *)
LEMMA LatestIs ==
    ASSUME NEW S, NEW w \in Seq(S), NEW n \in Nat, n <= Len(w)
    PROVE  /\ Latest(w, n) \in Seq(S) /\ Len(Latest(w, n)) = n
           /\ \A i \in 1..n : Latest(w, n)[i] = w[Len(w) - n + i]
<1>1. PICK l \in Nat : l = Len(w)
  OBVIOUS
<1>2. \A i \in l - n + 1..l : w[i] \in S
  BY <1>1
<1>3. Latest(w, n) = SubSeq(w, l - n + 1, l)
  BY <1>1 DEF Latest
<1> QED
  BY <1>1, <1>2, <1>3

(* Two sequences one after the other.                                      *)
LEMMA ConcatIs ==
    ASSUME NEW S, NEW s \in Seq(S), NEW t \in Seq(S)
    PROVE  /\ s \o t \in Seq(S) /\ Len(s \o t) = Len(s) + Len(t)
           /\ \A i \in 1..Len(s) : (s \o t)[i] = s[i]
           /\ \A i \in 1..Len(t) : (s \o t)[Len(s) + i] = t[i]
<1>0. PICK a \in Nat, b \in Nat : a = Len(s) /\ b = Len(t)
  OBVIOUS
<1>1. PICK x : x = s \o t
  OBVIOUS
<1>2. /\ x \in Seq(S) /\ Len(x) = Len(s) + Len(t)
      /\ \A i \in 1..Len(s) + Len(t) : x[i] = IF i <= Len(s) THEN s[i] ELSE t[i - Len(s)]
  BY <1>1, ConcatProperties, Zenon
<1>3. Len(x) = a + b /\ \A i \in 1..a + b : x[i] = IF i <= a THEN s[i] ELSE t[i - a]
  BY <1>0, <1>2, Zenon
<1>4. \A i \in 1..a : x[i] = s[i]
  BY <1>3
<1>5. \A i \in 1..b : a + i \in 1..a + b /\ ~(a + i <= a) /\ (a + i) - a = i
  OBVIOUS
<1>6. \A i \in 1..b : x[a + i] = t[i]
  BY <1>3, <1>5
<1> QED
  BY <1>0, <1>1, <1>2, <1>4, <1>6, Zenon

(* A window that is not full grows.                                        *)
LEMMA SlideGrows ==
    ASSUME NEW S, NEW w \in Seq(S), NEW x \in S, NEW n \in Nat, Len(w) < n
    PROVE  Slide(w, x, n) = Append(w, x)
<1>1. Len(Append(w, x)) = Len(w) + 1 /\ Len(w) \in Nat
  OBVIOUS
<1>2. ~(Len(Append(w, x)) > n)
  BY <1>1
<1> QED
  BY <1>2 DEF Slide

(* A full window moves on: the new value is last, the rest moves down.     *)
LEMMA SlideMoves ==
    ASSUME NEW S, NEW w \in Seq(S), NEW x \in S, NEW n \in Nat \ {0}, Len(w) >= n
    PROVE  /\ Slide(w, x, n) \in Seq(S) /\ Len(Slide(w, x, n)) = n
           /\ Slide(w, x, n)[n] = x
           /\ \A i \in 1..n - 1 : Slide(w, x, n)[i] = w[Len(w) - n + (i + 1)]
<1>1. PICK t : t = Append(w, x)
  OBVIOUS
<1>2. PICK k \in Nat : k = Len(w)
  OBVIOUS
<1>3. /\ t \in Seq(S) /\ Len(t) = k + 1 /\ t[k + 1] = x
      /\ \A i \in 1..k : t[i] = w[i]
  BY <1>1, <1>2
<1>4. n \in Nat /\ n <= Len(t) /\ Len(t) > n
  BY <1>2, <1>3
<1>5. PICK v : v = Latest(t, n)
  OBVIOUS
<1>6. Slide(w, x, n) = v
  BY <1>1, <1>4, <1>5 DEF Slide
<1>7. /\ v \in Seq(S) /\ Len(v) = n
      /\ \A i \in 1..n : v[i] = t[Len(t) - n + i]
  BY <1>3, <1>4, <1>5, LatestIs, Zenon
<1>8. \A i \in 1..n : v[i] = t[k + 1 - n + i]
  BY <1>3, <1>7
<1>9. v[n] = x
  BY <1>3, <1>8
<1>10. ASSUME NEW i \in 1..n - 1 PROVE v[i] = w[k - n + (i + 1)]
  <2>1. i \in 1..n /\ k + 1 - n + i \in 1..k /\ k + 1 - n + i = k - n + (i + 1)
    BY <1>2
  <2> QED
    BY <1>3, <1>8, <2>1
<1> QED
  BY <1>2, <1>6, <1>7, <1>9, <1>10

(* A window that dropped its oldest values for a new one. *)
MovedOn(v, w, x, n, S) ==
    /\ v \in Seq(S) /\ Len(v) = n /\ v[n] = x
    /\ \A i \in 1..n - 1 : v[i] = w[Len(w) - n + (i + 1)]

(* A full window does that.                                                *)
LEMMA SlideMovesOn ==
    ASSUME NEW S, NEW w \in Seq(S), NEW x \in S, NEW n \in Nat \ {0}, Len(w) >= n
    PROVE  MovedOn(Slide(w, x, n), w, x, n, S)
BY SlideMoves DEF MovedOn

(* The new price is the last of the window.                                *)
LEMMA SlideEnds ==
    ASSUME NEW S, NEW w \in Seq(S), NEW x \in S, NEW n \in Nat \ {0}
    PROVE  Last(Slide(w, x, n)) = x
<1>1. CASE Len(w) < n
  <2>1. Slide(w, x, n) = Append(w, x)
    BY <1>1, SlideGrows
  <2>2. Len(Append(w, x)) = Len(w) + 1 /\ Append(w, x)[Len(w) + 1] = x
    BY AppendProperties
  <2> QED
    BY <2>1, <2>2 DEF Last
<1>2. CASE Len(w) >= n
  <2>1. Len(Slide(w, x, n)) = n /\ Slide(w, x, n)[n] = x
    BY <1>2, SlideMoves
  <2> QED
    BY <2>1 DEF Last
<1> QED
  BY <1>1, <1>2

(* The window of a longer tape is the moved window of the shorter one.     *)
LEMMA WindowMovesOn ==
    ASSUME NEW S, NEW tape \in Seq(S), NEW x \in S, NEW n \in Nat \ {0},
           NEW w, IsLatest(w, tape, n)
    PROVE  IsLatest(Slide(w, x, n), Append(tape, x), n)
<1>1. PICK t : t = Append(tape, x)
  OBVIOUS
<1>2. PICK k \in Nat : k = Len(tape)
  OBVIOUS
<1>3. /\ t \in Seq(S) /\ Len(t) = k + 1 /\ t[k + 1] = x
      /\ \A i \in 1..k : t[i] = tape[i]
  BY <1>1, <1>2
<1>4. w = IF k > n THEN Latest(tape, n) ELSE tape
  BY <1>2 DEF IsLatest
<1>5. PICK v : v = Slide(w, x, n)
  OBVIOUS
<1>6. CASE k > n
  <2>1. /\ w \in Seq(S) /\ Len(w) = n
        /\ \A i \in 1..n : w[i] = tape[k - n + i]
    BY <1>2, <1>4, <1>6, LatestIs
  <2>2. /\ v \in Seq(S) /\ Len(v) = n /\ v[n] = x
        /\ \A i \in 1..n - 1 : v[i] = w[i + 1]
    <3>1. w \in Seq(S) /\ Len(w) >= n
      BY <2>1
    <3>2. /\ v \in Seq(S) /\ Len(v) = n /\ v[n] = x
          /\ \A i \in 1..n - 1 : v[i] = w[Len(w) - n + (i + 1)]
      BY <1>5, <3>1, SlideMoves
    <3>3. \A i \in 1..n - 1 : Len(w) - n + (i + 1) = i + 1
      BY <2>1
    <3> QED
      BY <3>2, <3>3
  <2>3. /\ Latest(t, n) \in Seq(S) /\ Len(Latest(t, n)) = n
        /\ \A i \in 1..n : Latest(t, n)[i] = t[k + 1 - n + i]
    <3>1. t \in Seq(S) /\ n <= Len(t) /\ n \in Nat
      BY <1>3, <1>6
    <3>2. /\ Latest(t, n) \in Seq(S) /\ Len(Latest(t, n)) = n
          /\ \A i \in 1..n : Latest(t, n)[i] = t[Len(t) - n + i]
      BY <3>1, LatestIs
    <3> QED
      BY <1>3, <3>2
  <2>4. ASSUME NEW i \in 1..n PROVE v[i] = Latest(t, n)[i]
    <3>1. CASE i = n
      BY <1>3, <2>2, <2>3, <3>1
    <3>2. CASE i # n
      <4>1. i \in 1..n - 1 /\ i + 1 \in 1..n /\ k - n + (i + 1) \in 1..k
        BY <1>2, <1>6, <3>2
      <4>2. v[i] = w[i + 1] /\ w[i + 1] = tape[k - n + (i + 1)]
        BY <2>1, <2>2, <4>1
      <4>3. Latest(t, n)[i] = t[k - n + (i + 1)]
        BY <2>3
      <4> QED
        BY <1>3, <4>1, <4>2, <4>3
    <3> QED
      BY <3>1, <3>2
  <2>5. v = Latest(t, n)
    BY <2>2, <2>3, <2>4, SeqEqual
  <2> QED
    BY <1>1, <1>3, <1>5, <1>6, <2>5 DEF IsLatest
<1>7. CASE ~(k > n)
  BY <1>1, <1>2, <1>3, <1>4, <1>5, <1>7 DEF IsLatest, Slide
<1> QED
  BY <1>6, <1>7
-----------------------------------------------------------------------------
(* The indicators have values.                                             *)

(* The sum of a window is an integer. *)
LEMMA SumIsInt == ASSUME NEW w \in Seq(Nat) PROVE SumOf(w) \in Int
  BY SumType

(* Gains, losses and with them the RSI are integers.                       *)
LEMMA RsiType ==
    ASSUME NEW prices \in Seq(Nat), Len(prices) >= RsiPeriod + 1
    PROVE  RsiOf(prices) \in Int \X Int
<1>1. PICK w : w = Latest(prices, RsiPeriod + 1)
  OBVIOUS
<1>2. w \in Seq(Nat) /\ Len(w) = RsiPeriod + 1 /\ RsiPeriod \in Nat \ {0}
  <2>1. RsiPeriod \in Nat \ {0}
    BY StrategyAssumption
  <2>2. RsiPeriod + 1 \in Nat /\ RsiPeriod + 1 <= Len(prices)
    BY <2>1
  <2> QED
    BY <1>1, <2>1, <2>2, LatestIs
<1>3. PICK c : c = Changes(w)
  OBVIOUS
<1>4. c \in Seq(Int)
  <2>1. PICK n \in Nat : n + 1 = Len(w)
    BY <1>2
  <2>2. c = [i \in 1..n |-> w[i + 1] - w[i]]
    BY <1>3, <2>1 DEF Changes
  <2>3. \A i \in 1..n : w[i + 1] \in Int /\ w[i] \in Int
    BY <1>2, <2>1
  <2>4. c \in [1..n -> Int]
    BY <2>2, <2>3
  <2> QED
    BY <2>4
<1>5. PICK d : d = [i \in DOMAIN c |-> -c[i]]
  OBVIOUS
<1>6. d \in Seq(Int)
  <2>1. PICK n \in Nat : n = Len(c) /\ DOMAIN c = 1..n
    BY <1>4
  <2>2. d \in [1..n -> Int]
    BY <1>4, <1>5, <2>1
  <2> QED
    BY <2>2
<1>7. ASSUME NEW e \in Seq(Int) PROVE Positive(e) \in Seq(Int)
  <2>1. PICK n \in Nat : n = Len(e) /\ DOMAIN e = 1..n
    OBVIOUS
  <2>2. \A i \in 1..n : e[i] \in Int
    BY <2>1
  <2>3. PICK g : g = Positive(e)
    OBVIOUS
  <2>4. g = [i \in 1..n |-> IF e[i] > 0 THEN e[i] ELSE 0]
    BY <2>1, <2>3 DEF Positive
  <2>5. g \in [1..n -> Int]
    BY <2>2, <2>4
  <2>6. g \in Seq(Int)
    BY <2>5
  <2> QED
    BY <2>3, <2>6
<1>8. Gains(w) \in Int /\ Losses(w) \in Int
  <2>1. Positive(c) \in Seq(Int) /\ Positive(d) \in Seq(Int)
    BY <1>4, <1>6, <1>7
  <2>2. SumOf(Positive(c)) \in Int /\ SumOf(Positive(d)) \in Int
    BY <2>1, SumType
  <2>3. Gains(w) = SumOf(Positive(c)) /\ Losses(w) = SumOf(Positive(d))
    BY <1>3, <1>5 DEF Gains, Losses
  <2> QED
    BY <2>2, <2>3
<1>9. RsiOf(prices) = Rsi(Gains(w), Losses(w))
  BY <1>1 DEF RsiOf
<1> QED
  BY <1>8, <1>9 DEF Rsi

(* The sums of a window and of its squares are integers.                   *)
LEMMA WindowSums ==
    ASSUME NEW prices \in Seq(Nat), Len(prices) >= BbPeriod
    PROVE  /\ BbPeriod \in Nat \ {0}
           /\ Latest(prices, BbPeriod) \in Seq(Nat)
           /\ Len(Latest(prices, BbPeriod)) = BbPeriod
           /\ SumOf(Latest(prices, BbPeriod)) \in Int
           /\ Squares(Latest(prices, BbPeriod)) \in Int
<1>1. PICK w : w = Latest(prices, BbPeriod)
  OBVIOUS
<1>2. w \in Seq(Nat) /\ Len(w) = BbPeriod /\ BbPeriod \in Nat \ {0}
  BY <1>1, LatestIs, StrategyAssumption
<1>3. PICK t : t = [i \in DOMAIN w |-> w[i] * w[i]]
  OBVIOUS
<1>4. t \in Seq(Int)
  BY <1>2, <1>3
<1> QED
  BY <1>1, <1>2, <1>3, <1>4, SumType, SumIsInt DEF Squares

(* A band reading is a pair of integers. *)
LEMMA BandType ==
    ASSUME NEW prices \in Seq(Nat), Len(prices) >= BbPeriod
    PROVE  BandReading(prices) \in Int \X Int
<1>1. PICK w : w = Latest(prices, BbPeriod)
  OBVIOUS
<1>2. /\ w \in Seq(Nat) /\ Len(w) = BbPeriod /\ BbPeriod \in Nat \ {0}
      /\ SumOf(w) \in Int /\ Squares(w) \in Int
  BY <1>1, WindowSums
<1>3. Last(w) \in Int
  BY <1>2 DEF Last
<1>4. PICK a \in Int : a = BbPeriod * Last(w) - SumOf(w)
  BY <1>2, <1>3
<1>5. PICK d \in Int : d = BbPeriod * Squares(w) - SumOf(w) * SumOf(w)
  BY <1>2
<1>6. BandReading(prices) = <<a * (IF a < 0 THEN -a ELSE a), d>>
  BY <1>1, <1>4, <1>5 DEF BandReading
<1> QED
  BY <1>6

(* The swing low is one of the prices and not above any of them.           *)
LEMMA SupportIs ==
    ASSUME NEW prices \in Seq(Nat), Len(prices) >= SwingLookback
    PROVE  Support(prices) \in Nat
<1>1. PICK w : w = Latest(prices, SwingLookback)
  OBVIOUS
<1>2. w \in Seq(Nat) /\ Len(w) = SwingLookback /\ SwingLookback \in Nat \ {0}
  BY <1>1, LatestIs, StrategyAssumption
<1>3. ToSet(w) \in SUBSET Nat /\ ToSet(w) # {}
  <2>1. DOMAIN w = 1..SwingLookback /\ 1 \in 1..SwingLookback
    BY <1>2
  <2>2. \A i \in 1..SwingLookback : w[i] \in Nat
    BY <1>2
  <2> QED
    BY <2>1, <2>2 DEF ToSet
<1>4. \E m \in ToSet(w) : \A k \in ToSet(w) : m <= k
  BY <1>3, LeastNat
<1>5. Least(w) \in ToSet(w)
  BY <1>4 DEF Least
<1> QED
  BY <1>1, <1>3, <1>5 DEF Support

-----------------------------------------------------------------------------
(* The results of the modules.                                             *)

PriceCap(m) == CASE m = "Firebird" -> RsiPeriod + 2
                 [] m = "Thunderbird" -> BbPeriod + 2
                 [] OTHER -> SwingLookback + 2
VolumeCap(m) == CASE m = "Firebird" -> VolLookback + 1
                  [] m = "Thunderbird" -> BbPeriod + 2
                  [] OTHER -> SwingLookback + 2

(* What one quote makes of a module's memory, and what comes out: at most  *)
(* one intent, and setups of the quote's symbol.                           *)
ResultOf(m, old, q, r) ==
    /\ r.mem \in MemorySet
    /\ r.mem.prices = Slide(old.prices, q.last, PriceCap(m))
    /\ r.mem.volumes = Slide(old.volumes, q.volume, VolumeCap(m))
    /\ \/ r.intents = <<>>
       \/ \E i \in IntentSet : r.intents = <<i>> /\ i.module = m
    /\ r.setups \in SUBSET SetupSet
    /\ \A x \in r.setups : x.module = m /\ x.symbol = q.symbol

(* A slid window is a window of natural numbers. *)
LEMMA SlideType ==
    ASSUME NEW w \in Seq(Nat), NEW x \in Nat, NEW n \in Nat \ {0}
    PROVE  Slide(w, x, n) \in Seq(Nat)
<1>1. CASE Len(w) < n
  <2>1. Slide(w, x, n) = Append(w, x)
    BY <1>1, SlideGrows
  <2> QED
    BY <2>1
<1>2. CASE Len(w) >= n
  BY <1>2, SlideMoves
<1> QED
  BY <1>1, <1>2

(* What Remember changes: the two windows slide, the last reading stays. *)
Remembered(mem, old, q, n, v) ==
    /\ mem \in MemorySet
    /\ mem.prices = Slide(old.prices, q.last, n)
    /\ mem.volumes = Slide(old.volumes, q.volume, v)
    /\ mem.reading = old.reading

(* Every Remember is one. *)
LEMMA RememberIs ==
    ASSUME NEW old \in MemorySet, NEW q \in QuoteSet,
           NEW n \in Nat \ {0}, NEW v \in Nat \ {0}
    PROVE  Remembered(Remember(old, q, n, v), old, q, n, v)
<1>1. PICK p \in Seq(Nat) : p = Slide(old.prices, q.last, n)
  BY SlideType DEF MemorySet, QuoteSet
<1>2. PICK u \in Seq(Nat) : u = Slide(old.volumes, q.volume, v)
  BY SlideType DEF MemorySet, QuoteSet
<1>3. Remember(old, q, n, v) = [old EXCEPT !.prices = p, !.volumes = u]
  BY <1>1, <1>2 DEF Remember
<1>4. Remember(old, q, n, v) = [prices |-> p, volumes |-> u, reading |-> old.reading]
  BY <1>3 DEF MemorySet
<1> QED
  BY <1>1, <1>2, <1>4 DEF MemorySet, Remembered

(* What Judge changes and answers: the new reading replaces the old one, and the setup is
   heating exactly when there was an old one and the new one lies on the side the module waits for. *)
LEMMA JudgeIs ==
    ASSUME NEW mem \in MemorySet, NEW reading \in Int \X Int, NEW falls \in BOOLEAN
    PROVE  LET j == Judge(mem, reading, falls)
           IN  /\ j.mem \in MemorySet /\ j.heating \in BOOLEAN
               /\ j.mem.prices = mem.prices /\ j.mem.volumes = mem.volumes
               /\ j.mem.reading = reading
               /\ j.heating <=> /\ mem.reading # NoReading
                                /\ IF falls THEN Below(reading, mem.reading)
                                            ELSE Below(mem.reading, reading)
<1>1. Judge(mem, reading, falls).mem
        = [prices |-> mem.prices, volumes |-> mem.volumes, reading |-> reading]
  BY DEF Judge, MemorySet
<1>2. reading \in ReadingSet
  BY DEF ReadingSet
<1>3. Judge(mem, reading, falls).mem \in MemorySet
  BY <1>1, <1>2 DEF MemorySet
<1> QED
  BY <1>1, <1>3 DEF Judge, Below

(* One intent, as a module makes it.                                       *)
IntentOf(m, q, side, stop, target) ==
    [module |-> m, symbol |-> q.symbol, side |-> side, limit |-> 100 * q.last,
     stop |-> stop, target |-> target]

(* The intent a module makes is one of its own, with the sides it was given. *)
LEMMA IntentIs ==
    ASSUME NEW m \in Modules, NEW q \in QuoteSet, NEW side \in {"Long", "Short"},
           NEW stop \in SUBSET Int, NEW target \in Int
    PROVE  /\ IntentOf(m, q, side, stop, target) \in IntentSet
           /\ IntentOf(m, q, side, stop, target).module = m
           /\ Intent(m, q, side, stop, target) = <<IntentOf(m, q, side, stop, target)>>
  BY DEF IntentOf, IntentSet, QuoteSet, Intent

(* A module shows no setup or one of its own. *)
LEMMA SetupIs ==
    ASSUME NEW m \in Modules, NEW q \in QuoteSet, NEW heating \in BOOLEAN
    PROVE  Setup(m, q, heating) \in SUBSET SetupSet
  BY DEF Setup, SetupSet, QuoteSet

(* A result of the three shapes a module returns.                          *)
LEMMA ShapesOfResults ==
    ASSUME NEW m \in Modules, NEW old \in MemorySet, NEW q \in QuoteSet, NEW mem \in MemorySet,
           mem.prices = Slide(old.prices, q.last, PriceCap(m)),
           mem.volumes = Slide(old.volumes, q.volume, VolumeCap(m))
    PROVE  /\ ResultOf(m, old, q, Nothing(mem))
           /\ \A side \in {"Long", "Short"} : \A stop \in SUBSET Int : \A target \in Int :
                 ResultOf(m, old, q, Result(mem, Intent(m, q, side, stop, target), {}))
           /\ ResultOf(m, old, q, Result(mem, <<>>, {}))
           /\ \A heating \in BOOLEAN :
                 ResultOf(m, old, q, Result(mem, <<>>, Setup(m, q, heating)))
<1>1. ASSUME NEW xs, NEW ys,
             \/ xs = <<>>
             \/ \E i \in IntentSet : xs = <<i>> /\ i.module = m,
             ys \in SUBSET SetupSet,
             \A x \in ys : x.module = m /\ x.symbol = q.symbol
      PROVE  ResultOf(m, old, q, Result(mem, xs, ys))
  BY <1>1 DEF ResultOf, Result
<1>2. ResultOf(m, old, q, Result(mem, <<>>, {}))
  BY <1>1
<1>3. ASSUME NEW side \in {"Long", "Short"}, NEW stop \in SUBSET Int, NEW target \in Int
      PROVE  ResultOf(m, old, q, Result(mem, Intent(m, q, side, stop, target), {}))
  <2>1. PICK i : i = IntentOf(m, q, side, stop, target)
    OBVIOUS
  <2>2. i \in IntentSet /\ i.module = m /\ Intent(m, q, side, stop, target) = <<i>>
    <3>1. /\ IntentOf(m, q, side, stop, target) \in IntentSet
          /\ IntentOf(m, q, side, stop, target).module = m
          /\ Intent(m, q, side, stop, target) = <<IntentOf(m, q, side, stop, target)>>
      BY IntentIs
    <3> QED
      BY <2>1, <3>1
  <2> QED
    BY <1>1, <2>2
<1>4. ASSUME NEW heating \in BOOLEAN
      PROVE  ResultOf(m, old, q, Result(mem, <<>>, Setup(m, q, heating)))
  <2>1. \A x \in Setup(m, q, heating) : x.module = m /\ x.symbol = q.symbol
    BY DEF Setup
  <2> QED
    BY <1>1, <2>1, SetupIs
<1> QED
  BY <1>2, <1>3, <1>4 DEF Nothing

(* Every module keeps at least one price and one volume. *)
LEMMA CapsArePositive ==
    ASSUME NEW m \in Modules
    PROVE  PriceCap(m) \in Nat \ {0} /\ VolumeCap(m) \in Nat \ {0}
<1>1. RsiPeriod \in Nat /\ BbPeriod \in Nat /\ SwingLookback \in Nat /\ VolLookback \in Nat
  BY StrategyAssumption
<1> QED
  BY <1>1 DEF PriceCap, VolumeCap

(* Firebird's answer to a quote: a memory of the right type, at most one intent. *)
LEMMA FirebirdResult ==
    ASSUME NEW old \in MemorySet, NEW q \in QuoteSet
    PROVE  ResultOf("Firebird", old, q, Firebird(old, q))
<1> DEFINE m == "Firebird"
<1>1. PriceCap(m) = RsiPeriod + 2 /\ VolumeCap(m) = VolLookback + 1 /\ m \in Modules
  BY DEF PriceCap, VolumeCap, Modules
<1>2. PICK mem : mem = Remember(old, q, RsiPeriod + 2, VolLookback + 1)
  OBVIOUS
<1>a. RsiPeriod + 2 \in Nat \ {0} /\ VolLookback + 1 \in Nat \ {0}
  BY <1>1, CapsArePositive
<1>b. Remembered(mem, old, q, RsiPeriod + 2, VolLookback + 1)
  BY <1>2, <1>a, RememberIs
<1>3. /\ mem \in MemorySet
      /\ mem.prices = Slide(old.prices, q.last, PriceCap(m))
      /\ mem.volumes = Slide(old.volumes, q.volume, VolumeCap(m))
  BY <1>1, <1>b DEF Remembered
<1>4. PICK rsi : rsi = RsiOf(mem.prices)
  OBVIOUS
<1>5. PICK judged : judged = Judge(mem, rsi, TRUE)
  OBVIOUS
<1>6. PICK stop : stop = {100 * (l - 1) : l \in q.low}
  OBVIOUS
<1>7. stop \in SUBSET Int /\ 105 * q.last \in Int
  <2>1. q.low \subseteq Nat /\ q.last \in Nat
    BY DEF QuoteSet, AtMostOne
  <2> QED
    BY <1>6, <2>1
<1>8. Firebird(old, q) =
        IF Len(mem.prices) < RsiPeriod + 1 THEN Nothing(mem)
        ELSE IF Below(rsi, <<3, 10>>) /\ VolumeDeclining(mem.volumes, VolLookback)
        THEN Result(judged.mem, Intent("Firebird", q, "Long", stop, 105 * q.last), {})
        ELSE Result(judged.mem, <<>>,
                    IF Below(rsi, <<9, 20>>) THEN Setup("Firebird", q, judged.heating) ELSE {})
  BY <1>2, <1>4, <1>5, <1>6 DEF Firebird
<1>9. CASE Len(mem.prices) < RsiPeriod + 1
  BY <1>1, <1>3, <1>8, <1>9, ShapesOfResults
<1>10. CASE ~(Len(mem.prices) < RsiPeriod + 1)
  <2>1. RsiPeriod \in Nat /\ mem.prices \in Seq(Nat)
    BY <1>3, StrategyAssumption DEF MemorySet
  <2>2. rsi \in Int \X Int
    BY <1>4, <1>10, <2>1, RsiType
  <2>3. /\ judged.mem \in MemorySet /\ judged.heating \in BOOLEAN
        /\ judged.mem.prices = mem.prices /\ judged.mem.volumes = mem.volumes
    BY <1>3, <1>5, <2>2, JudgeIs
  <2> QED
    BY <1>1, <1>3, <1>7, <1>8, <1>10, <2>3, ShapesOfResults
<1> QED
  BY <1>9, <1>10

(* Thunderbird's answer to a quote: a memory of the right type, at most one intent. *)
LEMMA ThunderbirdResult ==
    ASSUME NEW old \in MemorySet, NEW q \in QuoteSet
    PROVE  ResultOf("Thunderbird", old, q, Thunderbird(old, q))
<1> DEFINE m == "Thunderbird"
<1>1. PriceCap(m) = BbPeriod + 2 /\ VolumeCap(m) = BbPeriod + 2 /\ m \in Modules
  BY DEF PriceCap, VolumeCap, Modules
<1>2. PICK mem : mem = Remember(old, q, BbPeriod + 2, BbPeriod + 2)
  OBVIOUS
<1>a. BbPeriod + 2 \in Nat \ {0} /\ BbPeriod + 2 \in Nat \ {0}
  BY <1>1, CapsArePositive
<1>b. Remembered(mem, old, q, BbPeriod + 2, BbPeriod + 2)
  BY <1>2, <1>a, RememberIs
<1>3. /\ mem \in MemorySet
      /\ mem.prices = Slide(old.prices, q.last, PriceCap(m))
      /\ mem.volumes = Slide(old.volumes, q.volume, VolumeCap(m))
  BY <1>1, <1>b DEF Remembered
<1>4. PICK band : band = BandReading(mem.prices)
  OBVIOUS
<1>5. PICK judged : judged = Judge(mem, band, FALSE)
  OBVIOUS
<1>6. PICK middle : middle = (100 * SumOf(Latest(mem.prices, BbPeriod))) \div BbPeriod
  OBVIOUS
<1>8. Thunderbird(old, q) =
        IF Len(mem.prices) < BbPeriod \/ band[2] = 0 THEN Nothing(mem)
        ELSE IF Below(Deviations, band) /\ VolumeClimax(q, mem.volumes)
        THEN Result(judged.mem, Intent("Thunderbird", q, "Short", {103 * q.last}, middle), {})
        ELSE Result(judged.mem, <<>>,
                    IF Below(HalfDeviations, band) /\ Below(band, Deviations)
                    THEN Setup("Thunderbird", q, judged.heating) ELSE {})
  BY <1>2, <1>4, <1>5, <1>6 DEF Thunderbird
<1>9. CASE Len(mem.prices) < BbPeriod \/ band[2] = 0
  BY <1>1, <1>3, <1>8, <1>9, ShapesOfResults
<1>10. CASE ~(Len(mem.prices) < BbPeriod \/ band[2] = 0)
  <2>1. mem.prices \in Seq(Nat) /\ Len(mem.prices) >= BbPeriod
    BY <1>3, <1>10, StrategyAssumption DEF MemorySet
  <2>2. band \in Int \X Int
    BY <1>4, <2>1, BandType
  <2>3. /\ judged.mem \in MemorySet /\ judged.heating \in BOOLEAN
        /\ judged.mem.prices = mem.prices /\ judged.mem.volumes = mem.volumes
    BY <1>3, <1>5, <2>2, JudgeIs
  <2>4. middle \in Int /\ 103 * q.last \in Int
    BY <1>6, <2>1, WindowSums DEF QuoteSet
  <2> QED
    BY <1>1, <1>3, <1>8, <1>10, <2>3, <2>4, ShapesOfResults
<1> QED
  BY <1>9, <1>10

(* Taxi's answer to a quote: a memory of the right type, at most one intent. *)
LEMMA TaxiResult ==
    ASSUME NEW old \in MemorySet, NEW q \in QuoteSet
    PROVE  ResultOf("Taxi", old, q, Taxi(old, q))
<1> DEFINE m == "Taxi"
<1>1. PriceCap(m) = SwingLookback + 2 /\ VolumeCap(m) = SwingLookback + 2 /\ m \in Modules
  BY DEF PriceCap, VolumeCap, Modules
<1>2. PICK mem : mem = Remember(old, q, SwingLookback + 2, SwingLookback + 2)
  OBVIOUS
<1>a. SwingLookback + 2 \in Nat \ {0} /\ SwingLookback + 2 \in Nat \ {0}
  BY <1>1, CapsArePositive
<1>b. Remembered(mem, old, q, SwingLookback + 2, SwingLookback + 2)
  BY <1>2, <1>a, RememberIs
<1>3. /\ mem \in MemorySet
      /\ mem.prices = Slide(old.prices, q.last, PriceCap(m))
      /\ mem.volumes = Slide(old.volumes, q.volume, VolumeCap(m))
  BY <1>1, <1>b DEF Remembered
<1>4. PICK support : support = Support(mem.prices)
  OBVIOUS
<1>5. PICK dist : dist = <<q.last - support, support>>
  OBVIOUS
<1>6. PICK judged : judged = Judge(mem, dist, TRUE)
  OBVIOUS
<1>7. PICK lookback :
         lookback = IF Len(mem.volumes) < PullbackBars THEN Len(mem.volumes) ELSE PullbackBars
  OBVIOUS
<1>8. Taxi(old, q) =
        IF Len(mem.prices) < SwingLookback \/ support = 0 \/ q.last <= support
        THEN Nothing(mem)
        ELSE IF Below(dist, <<3, 200>>) /\ VolumeDeclining(mem.volumes, lookback)
        THEN Result(judged.mem,
                    Intent("Taxi", q, "Long", {98 * support},
                           100 * q.last + 3 * (100 * q.last - 98 * support)),
                    {})
        ELSE Result(judged.mem, <<>>,
                    IF Below(dist, <<1, 20>>) THEN Setup("Taxi", q, judged.heating) ELSE {})
  BY <1>2, <1>4, <1>5, <1>6, <1>7 DEF Taxi
<1>9. CASE Len(mem.prices) < SwingLookback \/ support = 0 \/ q.last <= support
  BY <1>1, <1>3, <1>8, <1>9, ShapesOfResults
<1>10. CASE ~(Len(mem.prices) < SwingLookback \/ support = 0 \/ q.last <= support)
  <2>1. mem.prices \in Seq(Nat) /\ Len(mem.prices) >= SwingLookback
    BY <1>3, <1>10, StrategyAssumption DEF MemorySet
  <2>2. support \in Nat
    BY <1>4, <2>1, SupportIs
  <2>3. q.last \in Nat
    BY DEF QuoteSet
  <2>4. dist \in Int \X Int
    BY <1>5, <2>2, <2>3
  <2>5. /\ judged.mem \in MemorySet /\ judged.heating \in BOOLEAN
        /\ judged.mem.prices = mem.prices /\ judged.mem.volumes = mem.volumes
    BY <1>3, <1>6, <2>4, JudgeIs
  <2>6. 98 * support \in Int /\ 100 * q.last + 3 * (100 * q.last - 98 * support) \in Int
    BY <2>2, <2>3
  <2> QED
    BY <1>1, <1>3, <1>8, <1>10, <2>5, <2>6, ShapesOfResults
<1> QED
  BY <1>9, <1>10

(* Whatever the module, its answer to a quote has the shape the loop relies on. *)
LEMMA OnQuoteResult ==
    ASSUME NEW m \in Modules, NEW old \in MemorySet, NEW q \in QuoteSet
    PROVE  ResultOf(m, old, q, OnQuote(m, old, q))
  BY FirebirdResult, ThunderbirdResult, TaxiResult DEF OnQuote, Modules

-----------------------------------------------------------------------------
(* The broadcast and its readers.                                          *)

(* The sources make quotes.                                                *)
LEMMA SourcesMakeQuotes ==
    /\ \A b \in Bars : BarQuote(b) \in QuoteSet
    /\ \A p \in Snapshots : SnapshotQuote(p) \in QuoteSet
    /\ \A y \in Fallbacks : FallbackQuote(y) \in QuoteSet
<1>1. ASSUME NEW b \in Bars PROVE BarQuote(b) \in QuoteSet
  <2>1. b \in [symbol : Symbols, close : Nat, volume : Nat]
    BY MarketAssumption
  <2> QED
    BY <2>1 DEF BarQuote, Quote, QuoteSet, AtMostOne, NoAverage, NoPrice
<1>2. ASSUME NEW p \in Snapshots PROVE SnapshotQuote(p) \in QuoteSet
  <2>1. p \in [symbol : Symbols, traded : BOOLEAN, price : Nat,
               dayVolume : Nat, prevVolume : Nat, low : SUBSET Nat]
        /\ \A l, h \in p.low : l = h
    BY MarketAssumption
  <2> QED
    BY <2>1 DEF SnapshotQuote, Quote, QuoteSet, AtMostOne
<1>3. ASSUME NEW y \in Fallbacks PROVE FallbackQuote(y) \in QuoteSet
  <2>1. y \in [symbol : Symbols, close : Nat, volume : Nat]
    BY MarketAssumption
  <2> QED
    BY <2>1 DEF FallbackQuote, Quote, QuoteSet, AtMostOne, NoAverage, NoPrice
<1> QED
  BY <1>1, <1>2, <1>3

(* The step of a source: nothing happens but to the bars on their way and  *)
(* to the end of the broadcast.                                            *)
SourceStep ==
    /\ barCh' \in Seq(QuoteSet)
    /\ published' = published \/ \E q \in QuoteSet : published' = Append(published, q)

(* Every source publishes at the end of the broadcast and touches no reader. *)
LEMMA SourcesStep ==
    ASSUME WiringTypes, Sources
    PROVE  SourceStep /\ OthersThanSources
<1>1. ASSUME NEW b \in Bars, BarArrives(b) PROVE SourceStep /\ OthersThanSources
  <2>1. BarQuote(b) \in QuoteSet
    BY SourcesMakeQuotes
  <2> QED
    BY <1>1, <2>1 DEF BarArrives, SourceStep, WiringTypes
<1>2. ASSUME Bridge PROVE SourceStep /\ OthersThanSources
  <2>1. Head(barCh) \in QuoteSet /\ Tail(barCh) \in Seq(QuoteSet)
    BY <1>2 DEF Bridge, WiringTypes
  <2> QED
    BY <1>2, <2>1 DEF Bridge, Publish, SourceStep
<1>3. ASSUME NEW p \in Snapshots, PolygonPolls(p) PROVE SourceStep /\ OthersThanSources
  BY <1>3, SourcesMakeQuotes DEF PolygonPolls, Publish, SourceStep, WiringTypes
<1>4. ASSUME NEW y \in Fallbacks, YahooPolls(y) PROVE SourceStep /\ OthersThanSources
  BY <1>4, SourcesMakeQuotes DEF YahooPolls, Publish, SourceStep, WiringTypes
<1> QED
  BY <1>1, <1>2, <1>3, <1>4 DEF Sources

(* A published quote stays where it is.                                    *)
PublishedGrows ==
    /\ published' \in Seq(QuoteSet) /\ Len(published') >= Len(published)
    /\ \A k \in 1..Len(published) : published'[k] = published[k]

(* What was published stays published, in its place. *)
LEMMA GrowsWithSources ==
    ASSUME WiringTypes, SourceStep
    PROVE  PublishedGrows
<1>0. published \in Seq(QuoteSet)
  BY DEF WiringTypes
<1>1. CASE published' = published
  BY <1>0, <1>1 DEF PublishedGrows
<1>2. ASSUME NEW q \in QuoteSet, published' = Append(published, q) PROVE PublishedGrows
  <2>1. PICK t : t = Append(published, q)
    OBVIOUS
  <2>2. /\ t \in Seq(QuoteSet) /\ Len(t) >= Len(published)
        /\ \A k \in 1..Len(published) : t[k] = published[k]
    BY <1>0, <2>1
  <2> QED
    BY <1>2, <2>1, <2>2 DEF PublishedGrows
<1> QED
  BY <1>1, <1>2 DEF SourceStep

(* What skipping or receiving does to the reader r.                        *)
ReaderMoves(r) ==
    /\ cursor' \in [Readers -> Nat] /\ lost' \in [Readers -> SUBSET Nat]
    /\ \A x \in Readers : x # r => cursor'[x] = cursor[x] /\ lost'[x] = lost[x]
    /\ cursor[r] < cursor'[r] /\ cursor'[r] <= Len(published)

(* A reader that lagged moves ahead; what it skips is added to what it lost. *)
LEMMA LaggedMoves ==
    ASSUME WiringTypes, NEW r \in Readers, Lagged(r)
    PROVE  /\ ReaderMoves(r)
           /\ lost'[r] = lost[r] \cup (cursor[r] + 1)..cursor'[r]
<1>1. /\ QuoteCap \in Nat \ {0} /\ Len(published) \in Nat /\ cursor[r] \in Nat
      /\ cursor \in [Readers -> Nat] /\ lost \in [Readers -> SUBSET Nat]
  BY MarketAssumption DEF WiringTypes
<1>2. PICK c \in Nat : c = Len(published) - QuoteCap /\ cursor[r] < c /\ c <= Len(published)
  <2>1. PICK l \in Nat, d \in Nat : l = Len(published) /\ d = cursor[r]
    BY <1>1
  <2>2. l - d > QuoteCap
    BY <2>1 DEF Lagged, Behind, Published
  <2>3. l - QuoteCap \in Nat /\ d < l - QuoteCap /\ l - QuoteCap <= l
    BY <1>1, <2>1, <2>2
  <2> QED
    BY <2>1, <2>3
<1>3. cursor' = [cursor EXCEPT ![r] = c]
  BY <1>2 DEF Lagged, SkipLost, Published
<1>4. lost' = [lost EXCEPT ![r] = lost[r] \cup (cursor[r] + 1)..c]
  BY <1>2 DEF Lagged, SkipLost, Published
<1>5. lost[r] \cup (cursor[r] + 1)..c \in SUBSET Nat
  BY <1>1, <1>2
<1> QED
  BY <1>1, <1>2, <1>3, <1>4, <1>5 DEF ReaderMoves

(* A reader that receives takes the quote after its cursor, one that was published. *)
LEMMA ReceivedMoves ==
    ASSUME WiringTypes, NEW r \in Readers, Received(r)
    PROVE  /\ ReaderMoves(r)
           /\ cursor'[r] = cursor[r] + 1 /\ lost' = lost
           /\ cursor[r] + 1 \in 1..Len(published)
           /\ published[cursor[r] + 1] \in QuoteSet
<1>1. /\ QuoteCap \in Nat \ {0} /\ Len(published) \in Nat /\ cursor[r] \in Nat
      /\ cursor \in [Readers -> Nat] /\ lost \in [Readers -> SUBSET Nat]
      /\ published \in Seq(QuoteSet)
  BY MarketAssumption DEF WiringTypes
<1>2. cursor' = [cursor EXCEPT ![r] = cursor[r] + 1] /\ lost' = lost
  BY DEF Received
<1>3. cursor[r] + 1 \in 1..Len(published)
  BY <1>1 DEF Received, Behind, Published
<1> QED
  BY <1>1, <1>2, <1>3 DEF ReaderMoves

(* Neither a received quote nor a lag takes a reader beyond what was published. *)
LEMMA ReaderKeepsWiring ==
    ASSUME WiringTypes, NEW r \in Readers, ReaderMoves(r),
           lost'[r] = lost[r] \/ lost'[r] = lost[r] \cup (cursor[r] + 1)..cursor'[r],
           UNCHANGED sourceVars
    PROVE  WiringTypes'
<1>1. \A x \in Readers : cursor'[x] <= Len(published)
  BY DEF WiringTypes, ReaderMoves
<1>2. ASSUME NEW x \in Readers, NEW k \in lost'[x] PROVE k \in 1..cursor'[x]
  <2>1. cursor[x] \in Nat /\ cursor'[x] \in Nat /\ cursor[x] <= cursor'[x]
    <3>1. cursor[x] \in Nat /\ cursor'[x] \in Nat
      BY DEF WiringTypes, ReaderMoves
    <3>2. CASE x = r
      BY <3>1, <3>2 DEF ReaderMoves
    <3>3. CASE x # r
      <4>1. cursor'[x] = cursor[x]
        BY <3>3 DEF ReaderMoves
      <4> QED
        BY <3>1, <4>1
    <3> QED
      BY <3>1, <3>2, <3>3
  <2>2. k \in lost[x] \/ k \in (cursor[x] + 1)..cursor'[x]
    <3>1. CASE x = r
      BY <1>2, <3>1
    <3>2. CASE x # r
      BY <1>2, <3>2 DEF ReaderMoves
    <3> QED
      BY <3>1, <3>2
  <2>3. CASE k \in lost[x]
    <3>1. k \in 1..cursor[x]
      BY <2>3 DEF WiringTypes
    <3> QED
      BY <2>1, <3>1
  <2>4. CASE k \in (cursor[x] + 1)..cursor'[x]
    BY <2>1, <2>4
  <2> QED
    BY <2>2, <2>3, <2>4
<1> QED
  BY <1>1, <1>2 DEF WiringTypes, ReaderMoves, sourceVars

(* A published quote has the type the readers expect. *)
LEMMA SourcesKeepWiring ==
    ASSUME WiringTypes, SourceStep, UNCHANGED <<cursor, lost>>
    PROVE  WiringTypes'
<1>1. PublishedGrows
  BY GrowsWithSources
<1>2. \A x \in Readers : cursor[x] \in Nat /\ cursor[x] <= Len(published)
  BY DEF WiringTypes
<1>3. Len(published) \in Nat /\ Len(published') \in Nat
  BY <1>1 DEF WiringTypes, PublishedGrows
<1>4. \A x \in Readers : cursor[x] <= Len(published')
  BY <1>1, <1>2, <1>3 DEF PublishedGrows
<1> QED
  BY <1>1, <1>4 DEF WiringTypes, SourceStep, PublishedGrows

(* The broadcast starts empty, with every reader at its beginning. *)
LEMMA InitWiring == MarketInit => WiringTypes
  BY DEF MarketInit, WiringTypes, Readers

(* No step breaks the types of the broadcast, its sources and its readers. *)
LEMMA NextWiring == WiringTypes /\ [MarketNext]_marketVars => WiringTypes'
<1> SUFFICES ASSUME WiringTypes, [MarketNext]_marketVars PROVE WiringTypes'
  OBVIOUS
<1>0. "state" \in Readers /\ "modules" \in Readers
  BY DEF Readers
<1>1. CASE Sources
  BY <1>1, SourcesStep, SourcesKeepWiring DEF OthersThanSources
<1>2. CASE StateLag
  BY <1>0, <1>2, LaggedMoves, ReaderKeepsWiring DEF StateLag, Lagged
<1>3. CASE StateQuote
  BY <1>0, <1>3, ReceivedMoves, ReaderKeepsWiring DEF StateQuote
<1>4. CASE ModuleLag
  BY <1>0, <1>4, LaggedMoves, ReaderKeepsWiring DEF ModuleLag, Lagged
<1>5. CASE ModulesOnQuote
  BY <1>0, <1>5, ReceivedMoves, ReaderKeepsWiring DEF ModulesOnQuote
<1>6. CASE SendIntent
  BY <1>6 DEF SendIntent, sourceVars, WiringTypes
<1>7. CASE ModulesPublish
  BY <1>7 DEF ModulesPublish, sourceVars, WiringTypes
<1>8. CASE GateTakes
  BY <1>8 DEF GateTakes, sourceVars, WiringTypes
<1>9. CASE UNCHANGED marketVars
  BY <1>9 DEF marketVars, sourceVars, WiringTypes
<1> QED
  BY <1>1, <1>2, <1>3, <1>4, <1>5, <1>6, <1>7, <1>8, <1>9
     DEF MarketNext, StateLoop, ModuleLoop

(* What was published stays, in every step.                                *)
LEMMA NextGrows ==
    WiringTypes /\ [MarketNext]_marketVars => PublishedGrows
<1> SUFFICES ASSUME WiringTypes, [MarketNext]_marketVars PROVE PublishedGrows
  OBVIOUS
<1>1. CASE Sources
  BY <1>1, SourcesStep, GrowsWithSources
<1>2. CASE UNCHANGED sourceVars
  BY <1>2 DEF WiringTypes, PublishedGrows, sourceVars
<1>3. ~Sources => UNCHANGED sourceVars
  BY DEF MarketNext, StateLoop, ModuleLoop, StateLag, StateQuote, ModuleLag, Lagged,
         ModulesOnQuote, SendIntent, ModulesPublish, GateTakes, marketVars
<1> QED
  BY <1>1, <1>2, <1>3

-----------------------------------------------------------------------------
(* The watchlist.                                                          *)

WatchInv == ShownTypes /\ WatchlistIsNewest

(* A step that leaves the state loop alone and only appends keeps the watchlist current. *)
LEMMA WatchFrame ==
    ASSUME WiringTypes, WatchInv, PublishedGrows, shown' = shown,
           cursor'["state"] = cursor["state"], lost'["state"] = lost["state"]
    PROVE  WatchInv'
<1>1. cursor["state"] \in Nat /\ cursor["state"] <= Len(published) /\ Len(published) \in Nat
  BY DEF WiringTypes, Readers
<1>2. \A k \in 1..cursor["state"] : published'[k] = published[k]
  BY <1>1 DEF PublishedGrows
<1> QED
  BY <1>1, <1>2 DEF WatchInv, ShownTypes, WatchlistIsNewest

(* When the state loop lags, the quotes it skips count as lost, not as shown. *)
LEMMA WatchStateLag ==
    ASSUME WiringTypes, WatchInv, StateLag
    PROVE  WatchInv'
<1>1. /\ ReaderMoves("state")
      /\ lost'["state"] = lost["state"] \cup (cursor["state"] + 1)..cursor'["state"]
  BY LaggedMoves DEF StateLag, Readers
<1>2. published' = published /\ shown' = shown
  BY DEF StateLag, Lagged, sourceVars
<1>3. /\ cursor["state"] \in Nat /\ cursor'["state"] \in Nat
      /\ cursor["state"] < cursor'["state"]
  BY <1>1 DEF ReaderMoves, WiringTypes, Readers
<1>4. ShownTypes'
  BY <1>2, <1>3 DEF WatchInv, ShownTypes
<1>5. ASSUME NEW s \in Symbols, NEW k \in 1..cursor'["state"],
             published[k].symbol = s, k \notin lost'["state"]
      PROVE  shown[s] >= k
  <2>1. k \in 1..cursor["state"] /\ k \notin lost["state"]
    BY <1>1, <1>3, <1>5
  <2> QED
    BY <1>5, <2>1 DEF WatchInv, WatchlistIsNewest
<1> QED
  BY <1>2, <1>4, <1>5 DEF WatchInv, WatchlistIsNewest

(* When the state loop receives a quote, it becomes the newest of its symbol. *)
LEMMA WatchStateQuote ==
    ASSUME WiringTypes, WatchInv, StateQuote
    PROVE  WatchInv'
<1>1. /\ cursor'["state"] = cursor["state"] + 1 /\ lost' = lost
      /\ published[cursor["state"] + 1] \in QuoteSet
      /\ cursor["state"] \in Nat
  BY ReceivedMoves DEF StateQuote, Readers, WiringTypes
<1>2. PICK c \in Nat : c = cursor["state"]
  BY <1>1
<1>3. PICK x \in Symbols : x = published[c + 1].symbol
  BY <1>1, <1>2 DEF QuoteSet
<1>4. published' = published /\ shown' = [shown EXCEPT ![x] = c + 1]
  BY <1>2, <1>3 DEF StateQuote, sourceVars
<1>5. /\ shown \in [Symbols -> Nat] /\ \A s \in Symbols : shown[s] <= c
  BY <1>2 DEF WatchInv, ShownTypes
<1>6. ShownTypes'
  BY <1>1, <1>2, <1>4, <1>5 DEF ShownTypes
<1>7. ASSUME NEW s \in Symbols, NEW k \in 1..c + 1,
             published[k].symbol = s, k \notin lost["state"]
      PROVE  shown'[s] >= k
  <2>1. CASE s = x
    BY <1>4, <1>5, <2>1
  <2>2. CASE s # x
    <3>1. k # c + 1
      BY <1>3, <1>7, <2>2
    <3>2. k \in 1..cursor["state"]
      BY <1>2, <3>1
    <3>3. shown[s] >= k
      BY <1>7, <3>2 DEF WatchInv, WatchlistIsNewest
    <3> QED
      BY <1>4, <1>5, <2>2, <3>3
  <2> QED
    BY <2>1, <2>2
<1> QED
  BY <1>1, <1>2, <1>4, <1>6, <1>7 DEF WatchInv, WatchlistIsNewest

(* No step shows a quote other than the newest the state loop has received. *)
LEMMA NextWatch ==
    WiringTypes /\ WatchInv /\ [MarketNext]_marketVars => WatchInv'
<1> SUFFICES ASSUME WiringTypes, WatchInv, [MarketNext]_marketVars PROVE WatchInv'
  OBVIOUS
<1>0. PublishedGrows /\ "state" \in Readers /\ "modules" \in Readers /\ "state" # "modules"
  BY NextGrows DEF Readers
<1>1. CASE StateLag
  BY <1>1, WatchStateLag
<1>2. CASE StateQuote
  BY <1>2, WatchStateQuote
<1>3. CASE ModuleLag
  <2>1. ReaderMoves("modules")
    BY <1>0, <1>3, LaggedMoves DEF ModuleLag
  <2> QED
    BY <1>0, <1>3, <2>1, WatchFrame DEF ReaderMoves, ModuleLag, Lagged
<1>4. CASE ModulesOnQuote
  <2>1. ReaderMoves("modules")
    BY <1>0, <1>4, ReceivedMoves DEF ModulesOnQuote
  <2> QED
    BY <1>0, <1>4, <2>1, WatchFrame DEF ReaderMoves, ModulesOnQuote
<1>5. CASE Sources
  BY <1>0, <1>5, SourcesStep, WatchFrame DEF OthersThanSources
<1>6. CASE SendIntent \/ ModulesPublish \/ GateTakes \/ UNCHANGED marketVars
  BY <1>0, <1>6, WatchFrame DEF SendIntent, ModulesPublish, GateTakes, marketVars
<1> QED
  BY <1>1, <1>2, <1>3, <1>4, <1>5, <1>6 DEF MarketNext, StateLoop, ModuleLoop

(* A quote that went through the state loop, and was not lost to lag, is   *)
(* on the watchlist or was replaced by a later one of its symbol: with any *)
(* pollers, any lag and any pause of the state loop the watchlist never    *)
(* goes back.                                                              *)
THEOREM WatchlistNeverGoesBack == MarketSpec => []WatchlistIsNewest
<1>1. MarketInit => WiringTypes /\ WatchInv
  BY InitWiring DEF MarketInit, WatchInv, ShownTypes, WatchlistIsNewest, Readers
<1>2. WiringTypes /\ WatchInv /\ [MarketNext]_marketVars => WiringTypes' /\ WatchInv'
  BY NextWiring, NextWatch
<1>3. WatchInv => WatchlistIsNewest
  BY DEF WatchInv
<1> QED
  BY <1>1, <1>2, <1>3, PTL DEF MarketSpec

-----------------------------------------------------------------------------
(* The module loop.                                                        *)

(* What the modules make of the k-th quote.                                *)
Results(k) ==
    [m \in Modules |-> OnQuote(m, memory[m][published[k].symbol], published[k])]

(* The intents of one quote: none or one of each module.                   *)
OneEach(R) ==
    \A m \in Modules : \/ R[m].intents = <<>>
                       \/ \E i \in IntentSet : R[m].intents = <<i>> /\ i.module = m

(* One turn of the module loop, written out: all three modules answer the same quote, and
   their intents leave in the order of the modules. *)
LEMMA OnQuoteStep ==
    ASSUME WiringTypes, ModuleTypes, ModulesOnQuote, NEW k, k = cursor["modules"] + 1
    PROVE  /\ published[k] \in QuoteSet /\ k \in Nat
           /\ \A m \in Modules :
                 ResultOf(m, memory[m][published[k].symbol], published[k], Results(k)[m])
           /\ OneEach(Results(k))
           /\ memory' = [m \in Modules |->
                            [memory[m] EXCEPT ![published[k].symbol] = Results(k)[m].mem]]
           /\ outbox' = InModuleOrder(Results(k), k)
           /\ found' = UNION {Results(k)[m].setups : m \in Modules}
           /\ signals' = [m \in Modules |-> signals[m] + Len(Results(k)[m].intents)]
<1>1. published[k] \in QuoteSet /\ k \in Nat
  BY ReceivedMoves DEF ModulesOnQuote, Readers, WiringTypes
<1>2. PICK q \in QuoteSet : q = published[k]
  BY <1>1
<1>3. PICK R : R = Results(k)
  OBVIOUS
<1>4. R = [m \in Modules |-> OnQuote(m, memory[m][q.symbol], q)]
  BY <1>2, <1>3 DEF Results
<1>5. q.symbol \in Symbols
  BY DEF QuoteSet
<1>6. ASSUME NEW m \in Modules PROVE ResultOf(m, memory[m][q.symbol], q, R[m])
  <2>1. memory[m][q.symbol] \in MemorySet
    BY <1>5 DEF ModuleTypes
  <2>2. R[m] = OnQuote(m, memory[m][q.symbol], q)
    BY <1>4
  <2> QED
    BY <2>1, <2>2, OnQuoteResult
<1>7. OneEach(R)
  BY <1>6 DEF ResultOf, OneEach
<1>8. /\ memory' = [m \in Modules |-> [memory[m] EXCEPT ![q.symbol] = R[m].mem]]
      /\ outbox' = InModuleOrder(R, k)
      /\ found' = UNION {R[m].setups : m \in Modules}
      /\ signals' = [m \in Modules |-> signals[m] + Len(R[m].intents)]
  BY <1>2, <1>4 DEF ModulesOnQuote
<1> QED
  BY <1>1, <1>2, <1>3, <1>6, <1>7, <1>8

(* Of the intents in out, d are of module m: none or exactly one.          *)
NoneOrOne(out, m, d) ==
    \/ d = 0 /\ \A i \in 1..Len(out) : out[i].intent.module # m
    \/ /\ d = 1
       /\ \E n \in 1..Len(out) :
             \A i \in 1..Len(out) : out[i].intent.module = m <=> i = n

(* The outbox of a quote: in the order of the modules, one intent of each  *)
(* module that has one.                                                    *)
LEMMA OutboxIs ==
    ASSUME NEW k \in Nat, NEW R, OneEach(R), NEW out, out = InModuleOrder(R, k)
    PROVE  /\ out \in Seq(SentSet)
           /\ \A i \in 1..Len(out) : out[i].quote = k
           /\ \A i, j \in 1..Len(out) :
                 i < j => Rank[out[i].intent.module] < Rank[out[j].intent.module]
           /\ \A m \in Modules : NoneOrOne(out, m, Len(R[m].intents))
<1>1. PICK a, b, c : /\ a = R["Firebird"].intents /\ b = R["Thunderbird"].intents
                     /\ c = R["Taxi"].intents
  OBVIOUS
<1>2. Modules = {"Firebird", "Thunderbird", "Taxi"}
  BY DEF Modules
<1>3. ASSUME NEW m \in Modules, NEW x, x = R[m].intents
      PROVE  /\ x \in Seq(IntentSet) /\ Len(x) \in {0, 1}
             /\ \A i \in 1..Len(x) : x[i].module = m
  <2>1. CASE x = <<>>
    BY <2>1
  <2>2. ASSUME NEW i \in IntentSet, x = <<i>>, i.module = m
        PROVE  /\ x \in Seq(IntentSet) /\ Len(x) \in {0, 1}
               /\ \A n \in 1..Len(x) : x[n].module = m
    BY <2>2
  <2> QED
    BY <1>3, <2>1, <2>2 DEF OneEach
<1>4. /\ a \in Seq(IntentSet) /\ Len(a) \in {0, 1} /\ \A i \in 1..Len(a) : a[i].module = "Firebird"
      /\ b \in Seq(IntentSet) /\ Len(b) \in {0, 1} /\ \A i \in 1..Len(b) : b[i].module = "Thunderbird"
      /\ c \in Seq(IntentSet) /\ Len(c) \in {0, 1} /\ \A i \in 1..Len(c) : c[i].module = "Taxi"
  BY <1>1, <1>2, <1>3
<1>5. PICK ab : ab = a \o b
  OBVIOUS
<1>6. PICK all : all = ab \o c
  OBVIOUS
<1>7. PICK la \in {0, 1}, lb \in {0, 1}, lc \in {0, 1} :
         la = Len(a) /\ lb = Len(b) /\ lc = Len(c)
  BY <1>4
<1>8. /\ ab \in Seq(IntentSet) /\ Len(ab) = la + lb
      /\ \A i \in 1..la + lb : ab[i].module = IF i <= la THEN "Firebird" ELSE "Thunderbird"
  <2>1. a \in Seq(IntentSet) /\ b \in Seq(IntentSet)
    BY <1>4
  <2>2. /\ ab \in Seq(IntentSet) /\ Len(ab) = la + lb
        /\ \A i \in 1..la + lb : ab[i] = IF i <= la THEN a[i] ELSE b[i - la]
    BY <1>5, <1>7, <2>1, ConcatProperties
  <2>3. ASSUME NEW i \in 1..la + lb
        PROVE  ab[i].module = IF i <= la THEN "Firebird" ELSE "Thunderbird"
    <3>1. CASE i <= la
      <4>1. i \in 1..Len(a)
        BY <1>7, <3>1
      <4> QED
        BY <1>4, <2>2, <3>1, <4>1
    <3>2. CASE ~(i <= la)
      <4>1. i - la \in 1..Len(b)
        BY <1>7, <3>2
      <4> QED
        BY <1>4, <2>2, <3>2, <4>1
    <3> QED
      BY <3>1, <3>2
  <2> QED
    BY <2>2, <2>3
<1>9. /\ all \in Seq(IntentSet) /\ Len(all) = la + lb + lc
      /\ \A i \in 1..la + lb + lc :
            all[i].module = IF i <= la THEN "Firebird"
                            ELSE IF i <= la + lb THEN "Thunderbird" ELSE "Taxi"
  <2>1. ab \in Seq(IntentSet) /\ c \in Seq(IntentSet) /\ Len(c) = lc /\ Len(ab) = la + lb
    BY <1>4, <1>7, <1>8
  <2>2. PICK d \in Nat : d = la + lb
    BY <1>7
  <2>3. /\ all \in Seq(IntentSet) /\ Len(all) = d + lc
        /\ \A i \in 1..d + lc : all[i] = IF i <= d THEN ab[i] ELSE c[i - d]
    <3>1. /\ all \in Seq(IntentSet) /\ Len(all) = Len(ab) + Len(c)
          /\ \A i \in 1..Len(ab) + Len(c) :
                all[i] = IF i <= Len(ab) THEN ab[i] ELSE c[i - Len(ab)]
      BY <1>6, <2>1, ConcatProperties, Zenon
    <3> QED
      BY <2>1, <2>2, <3>1, Zenon
  <2>4. ASSUME NEW i \in 1..d + lc
        PROVE  all[i].module = IF i <= la THEN "Firebird"
                               ELSE IF i <= d THEN "Thunderbird" ELSE "Taxi"
    <3>1. CASE i <= d
      <4>1. all[i] = ab[i] /\ i \in 1..la + lb
        BY <2>2, <2>3, <3>1
      <4> QED
        BY <1>8, <3>1, <4>1
    <3>2. CASE ~(i <= d)
      <4>1. i - d \in 1..Len(c) /\ ~(i <= la)
        BY <1>7, <2>1, <2>2, <3>2
      <4> QED
        BY <1>4, <2>3, <3>2, <4>1
    <3> QED
      BY <3>1, <3>2
  <2> QED
    BY <2>2, <2>3, <2>4
<1>10. PICK l \in Nat : l = la + lb + lc
  BY <1>7
<1>11. out = [i \in 1..l |-> [quote |-> k, intent |-> all[i]]]
  <2>1. DOMAIN all = 1..l
    BY <1>9, <1>10
  <2>2. all = R["Firebird"].intents \o R["Thunderbird"].intents \o R["Taxi"].intents
    BY <1>1, <1>5, <1>6
  <2> QED
    BY <2>1, <2>2 DEF InModuleOrder
<1>12. out \in Seq(SentSet) /\ Len(out) = l
  <2>1. \A i \in 1..l : [quote |-> k, intent |-> all[i]] \in SentSet
    BY <1>9, <1>10 DEF SentSet
  <2>2. out \in [1..l -> SentSet]
    BY <1>11, <2>1
  <2> QED
    BY <1>10, <2>2
<1>13. \A i \in 1..l : /\ out[i].quote = k
                       /\ out[i].intent.module = IF i <= la THEN "Firebird"
                            ELSE IF i <= la + lb THEN "Thunderbird" ELSE "Taxi"
  BY <1>9, <1>10, <1>11
<1>14. Rank["Firebird"] = 1 /\ Rank["Thunderbird"] = 2 /\ Rank["Taxi"] = 3
  BY <1>2 DEF Rank
<1>15. \A i, j \in 1..l : i < j => Rank[out[i].intent.module] < Rank[out[j].intent.module]
  BY <1>10, <1>13, <1>14
<1>16. ASSUME NEW m \in Modules
       PROVE  \/ /\ Len(R[m].intents) = 0
                 /\ \A i \in 1..l : out[i].intent.module # m
              \/ /\ Len(R[m].intents) = 1
                 /\ \E n \in 1..l : \A i \in 1..l : out[i].intent.module = m <=> i = n
  <2>1. CASE m = "Firebird"
    <3>1. CASE la = 0
      BY <1>1, <1>7, <1>13, <2>1, <3>1
    <3>2. CASE la = 1
      <4>1. 1 \in 1..l /\ \A i \in 1..l : out[i].intent.module = m <=> i = 1
        BY <1>10, <1>13, <2>1, <3>2
      <4> QED
        BY <1>1, <1>7, <2>1, <3>2, <4>1
    <3> QED
      BY <3>1, <3>2
  <2>2. CASE m = "Thunderbird"
    <3>1. CASE lb = 0
      BY <1>1, <1>7, <1>13, <2>2, <3>1
    <3>2. CASE lb = 1
      <4>1. la + 1 \in 1..l /\ \A i \in 1..l : out[i].intent.module = m <=> i = la + 1
        BY <1>10, <1>13, <2>2, <3>2
      <4> QED
        BY <1>1, <1>7, <2>2, <3>2, <4>1
    <3> QED
      BY <3>1, <3>2
  <2>3. CASE m = "Taxi"
    <3>1. CASE lc = 0
      <4>1. \A i \in 1..l : i <= la + lb
        BY <1>7, <1>10, <3>1
      <4> QED
        BY <1>1, <1>7, <1>13, <2>3, <3>1, <4>1
    <3>2. CASE lc = 1
      <4>1. l \in 1..l /\ \A i \in 1..l : out[i].intent.module = m <=> i = l
        BY <1>10, <1>13, <2>3, <3>2
      <4> QED
        BY <1>1, <1>7, <2>3, <3>2, <4>1
    <3> QED
      BY <3>1, <3>2
  <2> QED
    BY <1>2, <2>1, <2>2, <2>3
<1>17. Len(out) = l /\ \A i \in 1..l : out[i].quote = k
  BY <1>12, <1>13
<1>18. ASSUME NEW m \in Modules PROVE NoneOrOne(out, m, Len(R[m].intents))
  <2>1. PICK d : d = Len(R[m].intents)
    OBVIOUS
  <2>2. CASE d = 0 /\ \A i \in 1..l : out[i].intent.module # m
    BY <1>17, <2>1, <2>2 DEF NoneOrOne
  <2>3. CASE /\ d = 1
             /\ \E n \in 1..l : \A i \in 1..l : out[i].intent.module = m <=> i = n
    BY <1>17, <2>1, <2>3, Zenon DEF NoneOrOne
  <2> QED
    BY <1>16, <2>1, <2>2, <2>3
<1> QED
  BY <1>12, <1>15, <1>17, <1>18

(* Every step keeps the types of the module loop.                          *)
LEMMA InitModules == MarketInit => ModuleTypes
<1>1. Blank \in MemorySet
  BY DEF Blank, MemorySet, ReadingSet
<1>2. [m \in Modules |-> [s \in Symbols |-> Blank]] \in [Modules -> [Symbols -> MemorySet]]
  BY <1>1
<1>3. Zero \in [Modules -> Nat]
  BY DEF Zero
<1>4. <<>> \in Seq(SentSet)
  OBVIOUS
<1> QED
  BY <1>2, <1>3, <1>4 DEF MarketInit, ModuleTypes

(* A turn of the module loop keeps the modules' types. *)
LEMMA OnQuoteKeepsTypes ==
    ASSUME WiringTypes, ModuleTypes, ModulesOnQuote
    PROVE  ModuleTypes'
<1>1. PICK k : k = cursor["modules"] + 1
  OBVIOUS
<1>2. PICK R : R = Results(k)
  OBVIOUS
<1>3. PICK s \in Symbols : s = published[k].symbol
  BY <1>1, OnQuoteStep DEF QuoteSet
<1>4. /\ k \in Nat /\ OneEach(R)
      /\ \A m \in Modules : ResultOf(m, memory[m][s], published[k], R[m])
      /\ memory' = [m \in Modules |-> [memory[m] EXCEPT ![s] = R[m].mem]]
      /\ outbox' = InModuleOrder(R, k)
      /\ found' = UNION {R[m].setups : m \in Modules}
      /\ signals' = [m \in Modules |-> signals[m] + Len(R[m].intents)]
  BY <1>1, <1>2, <1>3, OnQuoteStep
<1>5. memory' \in [Modules -> [Symbols -> MemorySet]]
  <2>1. \A m \in Modules : R[m].mem \in MemorySet
    BY <1>4 DEF ResultOf
  <2>2. \A m \in Modules : memory[m] \in [Symbols -> MemorySet]
    BY DEF ModuleTypes
  <2>3. \A m \in Modules : [memory[m] EXCEPT ![s] = R[m].mem] \in [Symbols -> MemorySet]
    BY <2>1, <2>2
  <2> QED
    BY <1>4, <2>3
<1>6. outbox' \in Seq(SentSet)
  BY <1>4, OutboxIs
<1>7. found' \in SUBSET SetupSet
  <2>1. \A m \in Modules : R[m].setups \in SUBSET SetupSet
    BY <1>4 DEF ResultOf
  <2> QED
    BY <1>4, <2>1
<1>8. signals' \in [Modules -> Nat]
  <2>1. \A m \in Modules : Len(R[m].intents) \in Nat
    BY <1>4, OutboxIs
  <2>2. \A m \in Modules : signals[m] + Len(R[m].intents) \in Nat
    BY <2>1 DEF ModuleTypes
  <2> QED
    BY <1>4, <2>2
<1> QED
  BY <1>5, <1>6, <1>7, <1>8 DEF ModuleTypes, ModulesOnQuote

(* Sending an intent keeps the modules' types. *)
LEMMA SendKeepsTypes ==
    ASSUME ModuleTypes, SendIntent
    PROVE  ModuleTypes'
<1>1. outbox \in Seq(SentSet) /\ outbox # <<>> /\ sent \in Seq(SentSet)
  BY DEF ModuleTypes, SendIntent
<1>2. Head(outbox) \in SentSet /\ Tail(outbox) \in Seq(SentSet)
  BY <1>1
<1>3. Append(sent, Head(outbox)) \in Seq(SentSet)
  BY <1>1, <1>2, AppendProperties
<1>4. sent' \in Seq(SentSet) /\ outbox' \in Seq(SentSet)
  BY <1>2, <1>3 DEF SendIntent, Sending
<1> QED
  BY <1>4 DEF ModuleTypes, SendIntent

(* No step breaks the types of the modules' memories, the outbox and the intents. *)
LEMMA NextModules ==
    WiringTypes /\ ModuleTypes /\ [MarketNext]_marketVars => ModuleTypes'
<1> SUFFICES ASSUME WiringTypes, ModuleTypes, [MarketNext]_marketVars PROVE ModuleTypes'
  OBVIOUS
<1>1. CASE ModulesOnQuote
  BY <1>1, OnQuoteKeepsTypes
<1>2. CASE SendIntent
  BY <1>2, SendKeepsTypes
<1>3. CASE ModulesPublish
  BY <1>3 DEF ModulesPublish, ModuleTypes
<1>4. CASE UNCHANGED moduleVars
  BY <1>4 DEF moduleVars, ModuleTypes
<1>5. ModulesOnQuote \/ SendIntent \/ ModulesPublish \/ UNCHANGED moduleVars
  <2>1. CASE Sources
    BY <2>1, SourcesStep DEF OthersThanSources
  <2>2. CASE StateLoop \/ ModuleLag \/ GateTakes \/ UNCHANGED marketVars
    BY <2>2 DEF StateLoop, StateLag, StateQuote, ModuleLag, Lagged, GateTakes, marketVars
  <2> QED
    BY <2>1, <2>2 DEF MarketNext, ModuleLoop
<1> QED
  BY <1>1, <1>2, <1>3, <1>4, <1>5

-----------------------------------------------------------------------------
(* The order of the signals.                                               *)

(* Every intent ever made: those sent and those still to be sent.          *)
Made == sent \o outbox

Before(x, y) ==
    \/ x.quote < y.quote
    \/ x.quote = y.quote /\ Rank[x.intent.module] < Rank[y.intent.module]
InOrder(s) == \A i, j \in 1..Len(s) : i < j => Before(s[i], s[j])
IndicesOf(s, m) == {k \in 1..Len(s) : s[k].intent.module = m}
CountOf(s, m) == Cardinality(IndicesOf(s, m))

(* The intents made are in order, none for a quote not yet received; the   *)
(* counters count them; and between two quotes all of them were sent.      *)
SignalInv ==
    /\ InOrder(Made)
    /\ \A i \in 1..Len(Made) : Made[i].quote <= cursor["modules"]
    /\ \A m \in Modules : signals[m] = CountOf(Made, m)
    /\ ~inHand => outbox = <<>> /\ counted = signals

(* Sending an intent moves it from the outbox to the intents sent.         *)
LEMMA SendMakesNothing ==
    ASSUME ModuleTypes, SendIntent
    PROVE  Made' = Made
<1>1. outbox \in Seq(SentSet) /\ outbox # <<>> /\ sent \in Seq(SentSet)
  BY DEF ModuleTypes, SendIntent
<1>2. PICK s \in Seq(SentSet), o \in Seq(SentSet), a \in Nat, b \in Nat :
         s = sent /\ o = outbox /\ a = Len(s) /\ b + 1 = Len(o)
  <2>1. Len(outbox) \in Nat /\ Len(outbox) # 0
    BY <1>1
  <2>2. Len(outbox) - 1 \in Nat /\ (Len(outbox) - 1) + 1 = Len(outbox)
    BY <2>1
  <2> QED
    BY <1>1, <2>2
<1>3. PICK t : t = Append(s, Head(o))
  OBVIOUS
<1>4. /\ t \in Seq(SentSet) /\ Len(t) = a + 1 /\ t[a + 1] = o[1]
      /\ \A i \in 1..a : t[i] = s[i]
  BY <1>1, <1>2, <1>3
<1>5. PICK u : u = Tail(o)
  OBVIOUS
<1>6. u \in Seq(SentSet) /\ Len(u) = b /\ \A i \in 1..b : u[i] = o[i + 1]
  BY <1>1, <1>2, <1>5
<1>7. PICK x, y : x = s \o o /\ y = t \o u
  OBVIOUS
<1>8. /\ x \in Seq(SentSet) /\ Len(x) = a + (b + 1)
      /\ \A i \in 1..a : x[i] = s[i]
      /\ \A i \in 1..b + 1 : x[a + i] = o[i]
  <2>1. PICK c \in Nat : c = b + 1
    BY <1>2
  <2>2. s \in Seq(SentSet) /\ o \in Seq(SentSet) /\ x = s \o o /\ a = Len(s) /\ c = Len(o)
    BY <1>2, <1>7, <2>1
  <2>3. s \in Seq(SentSet) /\ o \in Seq(SentSet)
    BY <2>2
  <2>4. /\ s \o o \in Seq(SentSet) /\ Len(s \o o) = Len(s) + Len(o)
        /\ \A i \in 1..Len(s) : (s \o o)[i] = s[i]
        /\ \A i \in 1..Len(o) : (s \o o)[Len(s) + i] = o[i]
    BY <2>3, ConcatIs
  <2> QED
    BY <2>1, <2>2, <2>4, Zenon
<1>9. /\ y \in Seq(SentSet) /\ Len(y) = (a + 1) + b
      /\ \A i \in 1..a + 1 : y[i] = t[i]
      /\ \A i \in 1..b : y[(a + 1) + i] = u[i]
  <2>1. PICK c \in Nat : c = a + 1
    BY <1>2
  <2>2. t \in Seq(SentSet) /\ u \in Seq(SentSet) /\ y = t \o u /\ c = Len(t) /\ b = Len(u)
    BY <1>4, <1>6, <1>7, <2>1
  <2>3. t \in Seq(SentSet) /\ u \in Seq(SentSet)
    BY <2>2
  <2>4. /\ t \o u \in Seq(SentSet) /\ Len(t \o u) = Len(t) + Len(u)
        /\ \A i \in 1..Len(t) : (t \o u)[i] = t[i]
        /\ \A i \in 1..Len(u) : (t \o u)[Len(t) + i] = u[i]
    BY <2>3, ConcatIs
  <2> QED
    BY <2>1, <2>2, <2>4, Zenon
<1>10. ASSUME NEW i \in 1..Len(y) PROVE y[i] = x[i]
  <2>1. i \in 1..(a + 1) + b
    BY <1>9
  <2>2. CASE i <= a
    BY <1>4, <1>8, <1>9, <2>1, <2>2
  <2>3. CASE i = a + 1
    <3>1. 1 \in 1..b + 1 /\ a + 1 \in 1..a + 1
      OBVIOUS
    <3> QED
      BY <1>4, <1>8, <1>9, <2>3, <3>1
  <2>4. CASE i > a + 1
    <3>1. PICK n \in 1..b : i = (a + 1) + n
      <4>1. i - (a + 1) \in 1..b /\ i = (a + 1) + (i - (a + 1))
        BY <2>1, <2>4
      <4> QED
        BY <4>1
    <3>2. y[i] = o[n + 1]
      BY <1>6, <1>9, <3>1
    <3>3. n + 1 \in 1..b + 1 /\ i = a + (n + 1)
      BY <3>1
    <3> QED
      BY <1>8, <3>2, <3>3
  <2> QED
    BY <2>1, <2>2, <2>3, <2>4
<1>11. x = y
  <2>1. Len(x) = Len(y)
    BY <1>8, <1>9
  <2> QED
    BY <1>8, <1>9, <1>10, <2>1, SeqEqual
<1> QED
  BY <1>2, <1>3, <1>5, <1>7, <1>11 DEF Made, SendIntent, Sending

(* What was made stays in order when a later quote's intents come after.   *)
LEMMA OrderGoesOn ==
    ASSUME NEW s \in Seq(SentSet), NEW out \in Seq(SentSet), NEW k \in Nat,
           InOrder(s), \A i \in 1..Len(s) : s[i].quote < k,
           \A i \in 1..Len(out) : out[i].quote = k,
           \A i, j \in 1..Len(out) :
              i < j => Rank[out[i].intent.module] < Rank[out[j].intent.module]
    PROVE  /\ InOrder(s \o out)
           /\ \A i \in 1..Len(s \o out) : (s \o out)[i].quote <= k
<1>1. PICK a \in Nat, b \in Nat : a = Len(s) /\ b = Len(out)
  OBVIOUS
<1>2. PICK x : x = s \o out
  OBVIOUS
<1>3. /\ Len(s \o out) = Len(s) + Len(out)
      /\ \A i \in 1..Len(s) : (s \o out)[i] = s[i]
      /\ \A i \in 1..Len(out) : (s \o out)[Len(s) + i] = out[i]
  BY ConcatIs
<1>4. Len(x) = a + b /\ (\A i \in 1..a : x[i] = s[i]) /\ \A i \in 1..b : x[a + i] = out[i]
  BY <1>1, <1>2, <1>3, Zenon
<1>5. \A i \in 1..a : s[i].quote \in Nat
  <2>1. \A i \in 1..a : s[i] \in SentSet
    BY <1>1
  <2> QED
    BY <2>1 DEF SentSet
<1>6. ASSUME NEW i \in 1..Len(x), ~(i <= a)
      PROVE  \E n \in 1..b : i = a + n /\ x[i] = out[n]
  <2>1. i - a \in 1..b /\ i = a + (i - a)
    BY <1>4, <1>6
  <2> QED
    BY <1>4, <2>1
<1>7. ASSUME NEW i \in 1..Len(x) PROVE x[i].quote <= k
  <2>1. CASE i <= a
    <3>1. i \in 1..a
      BY <1>4, <2>1
    <3> QED
      BY <1>1, <1>4, <1>5, <3>1
  <2>2. CASE ~(i <= a)
    <3>1. PICK n \in 1..b : x[i] = out[n]
      BY <1>6, <2>2
    <3> QED
      BY <1>1, <3>1
  <2> QED
    BY <2>1, <2>2
<1>8. ASSUME NEW i \in 1..Len(x), NEW j \in 1..Len(x), i < j PROVE Before(x[i], x[j])
  <2>1. CASE i <= a /\ j <= a
    <3>1. i \in 1..Len(s) /\ j \in 1..Len(s)
      BY <1>1, <1>4, <2>1
    <3> QED
      BY <1>1, <1>4, <1>8, <3>1 DEF InOrder
  <2>2. CASE i <= a /\ ~(j <= a)
    <3>1. i \in 1..Len(s) /\ x[i] = s[i]
      BY <1>1, <1>4, <2>2
    <3>2. PICK n \in 1..b : x[j] = out[n]
      BY <1>6, <2>2
    <3>3. x[i].quote < k /\ x[j].quote = k
      BY <1>1, <3>1, <3>2
    <3> QED
      BY <3>3 DEF Before
  <2>3. CASE ~(i <= a)
    <3>1. ~(j <= a)
      BY <1>4, <1>8, <2>3
    <3>2. PICK n \in 1..b : i = a + n /\ x[i] = out[n]
      BY <1>6, <2>3
    <3>3. PICK l \in 1..b : j = a + l /\ x[j] = out[l]
      BY <1>6, <3>1
    <3>4. n < l
      BY <1>8, <3>2, <3>3
    <3>5. x[i].quote = k /\ x[j].quote = k
      BY <1>1, <3>2, <3>3
    <3>6. Rank[out[n].intent.module] < Rank[out[l].intent.module]
      BY <1>1, <3>4
    <3> QED
      BY <3>2, <3>3, <3>5, <3>6 DEF Before
  <2> QED
    BY <2>1, <2>2, <2>3
<1> QED
  BY <1>2, <1>7, <1>8 DEF InOrder

(* The intents of a module are counted one by one.                         *)
LEMMA CountGoesOn ==
    ASSUME NEW s \in Seq(SentSet), NEW out \in Seq(SentSet), NEW m \in Modules, NEW d,
           NoneOrOne(out, m, d)
    PROVE  CountOf(s \o out, m) = CountOf(s, m) + d
<1>1. PICK a \in Nat, b \in Nat : a = Len(s) /\ b = Len(out)
  OBVIOUS
<1>2. PICK x : x = s \o out
  OBVIOUS
<1>3. /\ Len(s \o out) = Len(s) + Len(out)
      /\ \A i \in 1..Len(s) : (s \o out)[i] = s[i]
      /\ \A i \in 1..Len(out) : (s \o out)[Len(s) + i] = out[i]
  BY ConcatIs
<1>4. Len(x) = a + b /\ (\A i \in 1..a : x[i] = s[i]) /\ \A i \in 1..b : x[a + i] = out[i]
  BY <1>1, <1>2, <1>3, Zenon
<1>5. PICK I : I = {i \in 1..a : s[i].intent.module = m}
  OBVIOUS
<1>6. I = IndicesOf(s, m) /\ I \subseteq 1..a
  BY <1>1, <1>5 DEF IndicesOf
<1>7. IsFiniteSet(I) /\ Cardinality(I) \in Nat
  <2>1. IsFiniteSet(1..a)
    BY FS_Interval
  <2>2. IsFiniteSet(I)
    BY <1>6, <2>1, FS_Subset
  <2> QED
    BY <2>2, FS_CardinalityType
<1>8. \A i \in 1..a + b : i \in 1..a \/ \E n \in 1..b : i = a + n
  <2> TAKE i \in 1..a + b
  <2>1. ~(i \in 1..a) => i - a \in 1..b /\ i = a + (i - a)
    OBVIOUS
  <2> QED
    BY <2>1
<1>9. CASE d = 0 /\ \A i \in 1..Len(out) : out[i].intent.module # m
  <2>1. \A i \in 1..a + b : x[i].intent.module = m <=> i \in I
    <3> TAKE i \in 1..a + b
    <3>1. CASE i \in 1..a
      BY <1>4, <1>5, <3>1
    <3>2. ASSUME NEW n \in 1..b, i = a + n PROVE x[i].intent.module = m <=> i \in I
      <4>1. x[i] = out[n] /\ i \notin I
        BY <1>4, <1>6, <3>2
      <4> QED
        BY <1>1, <1>9, <4>1
    <3> QED
      BY <1>8, <3>1, <3>2
  <2>2. IndicesOf(x, m) = I
    <3>1. I \subseteq 1..a + b
      BY <1>6
    <3> QED
      BY <1>4, <2>1, <3>1 DEF IndicesOf
  <2> QED
    BY <1>2, <1>6, <1>7, <1>9, <2>2 DEF CountOf
<1>10. ASSUME d = 1, NEW n \in 1..Len(out),
              \A i \in 1..Len(out) : out[i].intent.module = m <=> i = n
       PROVE  CountOf(x, m) = CountOf(s, m) + d
  <2>1. \A i \in 1..a + b : x[i].intent.module = m <=> i \in I \cup {a + n}
    <3> TAKE i \in 1..a + b
    <3>1. CASE i \in 1..a
      <4>1. i # a + n
        BY <1>1, <3>1
      <4> QED
        BY <1>4, <1>5, <3>1, <4>1
    <3>2. ASSUME NEW l \in 1..b, i = a + l
          PROVE  x[i].intent.module = m <=> i \in I \cup {a + n}
      <4>1. x[i] = out[l]
        BY <1>4, <3>2
      <4>2. n \in Nat /\ l \in 1..Len(out)
        BY <1>1
      <4>3. i \notin I /\ (i = a + n <=> l = n)
        BY <1>6, <3>2, <4>2
      <4> QED
        BY <1>10, <4>1, <4>2, <4>3
    <3> QED
      BY <1>8, <3>1, <3>2
  <2>2. IndicesOf(x, m) = I \cup {a + n}
    <3>1. I \cup {a + n} \subseteq 1..a + b
      BY <1>1, <1>6
    <3> QED
      BY <1>4, <2>1, <3>1 DEF IndicesOf
  <2>3. a + n \notin I
    BY <1>1, <1>6
  <2>4. Cardinality(I \cup {a + n}) = Cardinality(I) + 1
    BY <1>7, <2>3, FS_AddElement
  <2> QED
    BY <1>6, <1>10, <2>2, <2>4 DEF CountOf
<1> QED
  BY <1>2, <1>9, <1>10 DEF NoneOrOne

(* The intents of a new quote come behind all that are sent or waiting. *)
LEMMA OnQuoteKeepsOrder ==
    ASSUME WiringTypes, ModuleTypes, SignalInv, ModulesOnQuote
    PROVE  SignalInv'
<1>1. PICK k : k = cursor["modules"] + 1
  OBVIOUS
<1>2. PICK R : R = Results(k)
  OBVIOUS
<1>3. /\ k \in Nat /\ OneEach(R) /\ outbox' = InModuleOrder(R, k)
      /\ signals' = [m \in Modules |-> signals[m] + Len(R[m].intents)]
  BY <1>1, <1>2, OnQuoteStep
<1>4. PICK out : out = InModuleOrder(R, k)
  OBVIOUS
<1>5. outbox = <<>> /\ sent' = sent /\ outbox' = out /\ inHand' = TRUE
  BY <1>3, <1>4 DEF SignalInv, ModulesOnQuote
<1>6. sent \in Seq(SentSet) /\ out \in Seq(SentSet)
  BY <1>3, <1>4, OutboxIs DEF ModuleTypes
<1>7. Made = sent /\ Made' = sent \o out
  BY <1>5, <1>6 DEF Made
<1>8. cursor["modules"] \in Nat /\ cursor'["modules"] = k
  BY <1>1, ReceivedMoves DEF ModulesOnQuote, Readers, WiringTypes
<1>9. InOrder(sent) /\ \A i \in 1..Len(sent) : sent[i].quote < k
  <2>1. \A i \in 1..Len(sent) : sent[i] \in SentSet
    BY <1>6
  <2>2. \A i \in 1..Len(sent) : sent[i].quote \in Nat /\ sent[i].quote <= cursor["modules"]
    BY <1>7, <2>1 DEF SignalInv, SentSet
  <2> QED
    BY <1>1, <1>7, <1>8, <2>2 DEF SignalInv
<1>10. /\ InOrder(sent \o out)
       /\ \A i \in 1..Len(sent \o out) : (sent \o out)[i].quote <= k
  <2>1. /\ \A i \in 1..Len(out) : out[i].quote = k
        /\ \A i, j \in 1..Len(out) :
              i < j => Rank[out[i].intent.module] < Rank[out[j].intent.module]
    BY <1>3, <1>4, OutboxIs
  <2> QED
    BY <1>3, <1>6, <1>9, <2>1, OrderGoesOn
<1>11. ASSUME NEW m \in Modules PROVE signals'[m] = CountOf(Made', m)
  <2>1. PICK d : d = Len(R[m].intents)
    OBVIOUS
  <2>2. NoneOrOne(out, m, d)
    BY <1>3, <1>4, <2>1, OutboxIs
  <2>3. CountOf(sent \o out, m) = CountOf(sent, m) + d
    BY <1>6, <2>2, CountGoesOn
  <2>4. signals[m] = CountOf(sent, m) /\ signals'[m] = signals[m] + d
    BY <1>3, <1>7, <2>1 DEF SignalInv
  <2> QED
    BY <1>7, <2>3, <2>4
<1> QED
  BY <1>5, <1>7, <1>8, <1>10, <1>11 DEF SignalInv

(* Nothing is made and no reader of the module loop goes back.             *)
LEMMA SignalFrame ==
    ASSUME WiringTypes, ModuleTypes, SignalInv, Made' = Made, signals' = signals,
           cursor'["modules"] \in Nat, cursor["modules"] <= cursor'["modules"],
           ~inHand' => outbox' = <<>> /\ counted' = signals
    PROVE  SignalInv'
<1>1. sent \in Seq(SentSet) /\ outbox \in Seq(SentSet)
  BY DEF ModuleTypes
<1>2. Made \in Seq(SentSet)
  BY <1>1, ConcatIs DEF Made
<1>3. ASSUME NEW i \in 1..Len(Made) PROVE Made[i].quote <= cursor'["modules"]
  <2>1. Made[i] \in SentSet
    BY <1>2
  <2>2. Made[i].quote \in Nat /\ Made[i].quote <= cursor["modules"]
    BY <2>1 DEF SignalInv, SentSet
  <2>3. cursor["modules"] \in Nat
    BY DEF WiringTypes, Readers
  <2> QED
    BY <2>2, <2>3
<1> QED
  BY <1>3 DEF SignalInv

(* No step puts an intent out of the order of its quotes and its modules. *)
LEMMA NextSignals ==
    WiringTypes /\ ModuleTypes /\ SignalInv /\ [MarketNext]_marketVars => SignalInv'
<1> SUFFICES ASSUME WiringTypes, ModuleTypes, SignalInv, [MarketNext]_marketVars
             PROVE  SignalInv'
  OBVIOUS
<1>0. /\ "state" \in Readers /\ "modules" \in Readers /\ "state" # "modules"
      /\ cursor["modules"] \in Nat
  BY DEF Readers, WiringTypes
<1>1. CASE ModulesOnQuote
  BY <1>1, OnQuoteKeepsOrder
<1>2. CASE SendIntent
  BY <1>0, <1>2, SendMakesNothing, SignalFrame DEF SendIntent, SignalInv
<1>3. CASE ModulesPublish
  BY <1>0, <1>3, SignalFrame DEF ModulesPublish, Made
<1>4. ASSUME UNCHANGED moduleVars, cursor'["modules"] \in Nat,
             cursor["modules"] <= cursor'["modules"]
      PROVE  SignalInv'
  BY <1>4, SignalFrame DEF moduleVars, Made, SignalInv
<1>5. CASE ModuleLag
  <2>1. ReaderMoves("modules")
    BY <1>0, <1>5, LaggedMoves DEF ModuleLag
  <2> QED
    BY <1>0, <1>4, <1>5, <2>1 DEF ReaderMoves, ModuleLag, Lagged
<1>6. CASE StateLag
  <2>1. ReaderMoves("state")
    BY <1>0, <1>6, LaggedMoves DEF StateLag
  <2> QED
    BY <1>0, <1>4, <1>6, <2>1 DEF ReaderMoves, StateLag, Lagged
<1>7. CASE StateQuote
  <2>1. ReaderMoves("state")
    BY <1>0, <1>7, ReceivedMoves DEF StateQuote
  <2> QED
    BY <1>0, <1>4, <1>7, <2>1 DEF ReaderMoves, StateQuote
<1>8. CASE Sources
  BY <1>0, <1>4, <1>8, SourcesStep DEF OthersThanSources
<1>9. CASE GateTakes \/ UNCHANGED marketVars
  BY <1>0, <1>4, <1>9 DEF GateTakes, marketVars
<1> QED
  BY <1>1, <1>2, <1>3, <1>5, <1>6, <1>7, <1>8, <1>9 DEF MarketNext, StateLoop, ModuleLoop

(* Nothing is sent and nothing waits at the start. *)
LEMMA InitSignals == MarketInit => SignalInv
<1> SUFFICES ASSUME MarketInit PROVE SignalInv
  OBVIOUS
<1>1. Made = <<>>
  BY DEF MarketInit, Made
<1>2. \A m \in Modules : IndicesOf(<<>>, m) = {}
  BY DEF IndicesOf
<1>3. \A m \in Modules : CountOf(<<>>, m) = 0
  BY <1>2, FS_EmptySet DEF CountOf
<1>4. InOrder(<<>>)
  BY DEF InOrder
<1> QED
  BY <1>1, <1>3, <1>4 DEF MarketInit, SignalInv, Zero

(* The invariant is the property: what is sent is in the order of quotes and modules. *)
LEMMA SignalsAre == ModuleTypes /\ SignalInv => SignalsInOrder
<1> SUFFICES ASSUME ModuleTypes, SignalInv PROVE SignalsInOrder
  OBVIOUS
<1>1. sent \in Seq(SentSet) /\ outbox \in Seq(SentSet) /\ DOMAIN sent = 1..Len(sent)
  BY DEF ModuleTypes
<1>2. ASSUME NEW i \in DOMAIN sent, NEW j \in DOMAIN sent, i < j
      PROVE  Before(sent[i], sent[j])
  <2>1. /\ Len(sent \o outbox) = Len(sent) + Len(outbox)
        /\ \A n \in 1..Len(sent) : (sent \o outbox)[n] = sent[n]
    BY <1>1, ConcatIs
  <2>2. i \in 1..Len(Made) /\ j \in 1..Len(Made)
    BY <1>1, <2>1 DEF Made
  <2>3. Made[i] = sent[i] /\ Made[j] = sent[j]
    BY <1>1, <2>1 DEF Made
  <2> QED
    BY <1>2, <2>2, <2>3 DEF SignalInv, InOrder
<1>3. ASSUME ~inHand, NEW m \in Modules
      PROVE  counted[m] = Cardinality({k \in DOMAIN sent : sent[k].intent.module = m})
  <2>1. Made = sent /\ counted = signals
    BY <1>1, <1>3 DEF Made, SignalInv
  <2> QED
    BY <1>1, <2>1 DEF SignalInv, CountOf, IndicesOf
<1> QED
  BY <1>2, <1>3 DEF SignalsInOrder, Before

(* What reaches the gate is in the order of the quotes and, for one quote, *)
(* of the modules, no intent twice; and between two quotes the signals the *)
(* operator sees are exactly the intents sent.                             *)
THEOREM SignalsReachTheGateInOrder == MarketSpec => []SignalsInOrder
<1>1. MarketInit => WiringTypes /\ ModuleTypes /\ SignalInv
  BY InitWiring, InitModules, InitSignals
<1>2. WiringTypes /\ ModuleTypes /\ SignalInv /\ [MarketNext]_marketVars
        => WiringTypes' /\ ModuleTypes' /\ SignalInv'
  BY NextWiring, NextModules, NextSignals
<1>3. ModuleTypes /\ SignalInv => SignalsInOrder
  BY SignalsAre
<1> QED
  BY <1>1, <1>2, <1>3, PTL DEF MarketSpec

-----------------------------------------------------------------------------
(* The tape.                                                               *)

(* The tape after the k-th quote, from the tape before it.                 *)
Longer(tape, quotes, missed, s, k) ==
    IF k \notin missed /\ quotes[k].symbol = s THEN Append(tape, quotes[k]) ELSE tape

(* A tape extended by a quote, or not, is a tape. *)
LEMMA LongerType ==
    ASSUME NEW quotes \in Seq(QuoteSet), NEW missed, NEW s, NEW k \in 1..Len(quotes),
           NEW tape \in Seq(QuoteSet)
    PROVE  Longer(tape, quotes, missed, s, k) \in Seq(QuoteSet)
<1>1. quotes[k] \in QuoteSet
  OBVIOUS
<1>2. Append(tape, quotes[k]) \in Seq(QuoteSet)
  BY <1>1, AppendProperties
<1> QED
  BY <1>2 DEF Longer

(* The tape is what its definition says, at every quote.                   *)
LEMMA TapesAre ==
    ASSUME NEW quotes \in Seq(QuoteSet), NEW missed, NEW s, NEW T, T = TapeOf(quotes, missed, s)
    PROVE  /\ T \in [0..Len(quotes) -> Seq(QuoteSet)]
           /\ T[0] = <<>>
           /\ \A k \in 1..Len(quotes) : T[k] = Longer(T[k - 1], quotes, missed, s, k)
<1>1. PICK n \in Nat : n = Len(quotes)
  OBVIOUS
<1>2. PICK F : F = [k \in 1..n |->
                      [tape \in Seq(QuoteSet) |-> Longer(tape, quotes, missed, s, k)]]
  OBVIOUS
<1>3. F \in [1..n -> [Seq(QuoteSet) -> Seq(QuoteSet)]]
  <2>1. \A k \in 1..n : \A tape \in Seq(QuoteSet) :
            Longer(tape, quotes, missed, s, k) \in Seq(QuoteSet)
    BY <1>1, LongerType
  <2> QED
    BY <1>2, <2>1
<1>4. PICK g \in [0..n -> Seq(QuoteSet)] : g[0] = <<>> /\ \A k \in 1..n : g[k] = F[k][g[k - 1]]
  <2>1. PICK S, a : S = Seq(QuoteSet) /\ a = <<>>
    OBVIOUS
  <2>2. n \in Nat /\ a \in S /\ F \in [1..n -> [S -> S]]
    BY <1>1, <1>3, <2>1
  <2>3. \E f : IteratesOf(F, a, n, S, f)
    BY <2>2, IteratesExist
  <2> QED
    BY <2>1, <2>3 DEF IteratesOf
<1>5. ASSUME NEW k \in 1..n PROVE g[k] = Longer(g[k - 1], quotes, missed, s, k)
  <2>1. g[k - 1] \in Seq(QuoteSet)
    BY <1>4
  <2>2. F[k][g[k - 1]] = Longer(g[k - 1], quotes, missed, s, k)
    BY <1>2, <2>1
  <2> QED
    BY <1>4, <2>2
<1> DEFINE Body(t, k) == IF k = 0 THEN <<>>
                         ELSE IF k \notin missed /\ quotes[k].symbol = s
                         THEN Append(t[k - 1], quotes[k])
                         ELSE t[k - 1]
<1>6. g = [k \in 0..n |-> Body(g, k)]
  <2>1. ASSUME NEW k \in 0..n PROVE g[k] = Body(g, k)
    <3>1. CASE k = 0
      BY <1>4, <3>1
    <3>2. CASE k # 0
      <4>1. k \in 1..n
        BY <3>2
      <4> QED
        BY <1>5, <3>2, <4>1 DEF Longer
    <3> QED
      BY <3>1, <3>2
  <2> HIDE DEF Body
  <2> QED
    BY <1>4, <2>1
<1>7. T = CHOOSE t : t = [k \in 0..n |-> Body(t, k)]
  BY <1>1 DEF TapeOf
<1>8. T = [k \in 0..n |-> Body(T, k)]
  <2> HIDE DEF Body
  <2> QED
    BY <1>6, <1>7
<1>9. T[0] = <<>> /\ \A k \in 1..n : T[k] = Longer(T[k - 1], quotes, missed, s, k)
  <2>1. T[0] = Body(T, 0) /\ \A k \in 1..n : T[k] = Body(T, k)
    <3>1. 0 \in 0..n /\ 1..n \subseteq 0..n
      OBVIOUS
    <3> HIDE DEF Body
    <3> QED
      BY <1>8, <3>1
  <2>2. \A k \in 1..n : Body(T, k) = Longer(T[k - 1], quotes, missed, s, k)
    BY DEF Longer
  <2> QED
    BY <2>1, <2>2
<1>10. \A k \in 0..n : T[k] \in Seq(QuoteSet)
  <2> DEFINE U == {k \in 0..n : T[k] \in Seq(QuoteSet)}
  <2>1. 0 \in U
    <3>1. <<>> \in Seq(QuoteSet) /\ 0 \in 0..n
      OBVIOUS
    <3> QED
      BY <1>9, <3>1
  <2>2. ASSUME NEW k \in 0..n - 1, k \in U PROVE k + 1 \in U
    <3>1. k + 1 \in 1..Len(quotes) /\ k + 1 \in 1..n /\ (k + 1) - 1 = k /\ T[k] \in Seq(QuoteSet)
      BY <1>1, <2>2
    <3>2. T[k + 1] = Longer(T[k], quotes, missed, s, k + 1)
      BY <1>9, <3>1
    <3>3. T[k + 1] \in Seq(QuoteSet)
      BY <3>1, <3>2, LongerType
    <3> QED
      BY <3>1, <3>3
  <2>3. U \in SUBSET (0..n)
    OBVIOUS
  <2> HIDE DEF U
  <2>4. U = 0..n
    BY <2>1, <2>2, <2>3, UpTo
  <2> QED
    BY <2>4 DEF U
<1>11. DOMAIN T = 0..n /\ T = [k \in 0..n |-> T[k]]
  BY <1>8
<1> QED
  BY <1>1, <1>9, <1>10, <1>11

(* The same first c quotes, the same of them missed.                       *)
AgreeUpTo(q1, q2, m1, m2, c) == \A k \in 1..c : q1[k] = q2[k] /\ (k \in m1 <=> k \in m2)

(* The tape up to c depends on the first c quotes alone.                   *)
LEMMA TapeIsLocal ==
    ASSUME NEW q1 \in Seq(QuoteSet), NEW q2 \in Seq(QuoteSet), NEW m1, NEW m2, NEW s,
           NEW c \in Nat, c <= Len(q1), c <= Len(q2),
           AgreeUpTo(q1, q2, m1, m2, c)
    PROVE  TapeOf(q1, m1, s)[c] = TapeOf(q2, m2, s)[c]
<1>1. PICK T1 : T1 = TapeOf(q1, m1, s)
  OBVIOUS
<1>2. PICK T2 : T2 = TapeOf(q2, m2, s)
  OBVIOUS
<1>3. /\ T1[0] = <<>> /\ \A k \in 1..Len(q1) : T1[k] = Longer(T1[k - 1], q1, m1, s, k)
  BY <1>1, TapesAre
<1>4. /\ T2[0] = <<>> /\ \A k \in 1..Len(q2) : T2[k] = Longer(T2[k - 1], q2, m2, s, k)
  BY <1>2, TapesAre
<1> DEFINE U == {k \in 0..c : T1[k] = T2[k]}
<1>5. 0 \in U
  BY <1>3, <1>4
<1>6. ASSUME NEW k \in 0..c - 1, k \in U PROVE k + 1 \in U
  <2>1. /\ k + 1 \in 1..Len(q1) /\ k + 1 \in 1..Len(q2) /\ k + 1 \in 1..c
        /\ (k + 1) - 1 = k /\ k + 1 \in 0..c
    BY <1>6
  <2>2. T1[k + 1] = Longer(T1[k], q1, m1, s, k + 1)
    BY <1>3, <2>1
  <2>3. T2[k + 1] = Longer(T2[k], q2, m2, s, k + 1)
    BY <1>4, <2>1
  <2>4. T1[k + 1] = T2[k + 1]
    BY <1>6, <2>1, <2>2, <2>3 DEF Longer, AgreeUpTo
  <2> QED
    BY <2>1, <2>4
<1>7. U \in SUBSET (0..c)
  OBVIOUS
<1> HIDE DEF U
<1>8. U = 0..c
  BY <1>5, <1>6, <1>7, UpTo
<1> QED
  BY <1>1, <1>2, <1>8 DEF U

(* Missed quotes do not lengthen it.                                       *)
LEMMA TapeSkips ==
    ASSUME NEW quotes \in Seq(QuoteSet), NEW missed, NEW s, NEW c \in Nat, NEW d \in Nat,
           c <= d, d <= Len(quotes), \A k \in c + 1..d : k \in missed
    PROVE  TapeOf(quotes, missed, s)[d] = TapeOf(quotes, missed, s)[c]
<1>1. PICK T : T = TapeOf(quotes, missed, s)
  OBVIOUS
<1>2. \A k \in 1..Len(quotes) : T[k] = Longer(T[k - 1], quotes, missed, s, k)
  BY <1>1, TapesAre
<1>3. PICK n \in Nat : d = c + n
  <2>1. d - c \in Nat /\ d = c + (d - c)
    OBVIOUS
  <2> QED
    BY <2>1
<1> DEFINE U == {k \in 0..n : T[c + k] = T[c]}
<1>4. 0 \in U
  OBVIOUS
<1>5. ASSUME NEW k \in 0..n - 1, k \in U PROVE k + 1 \in U
  <2>1. /\ c + (k + 1) \in 1..Len(quotes) /\ c + (k + 1) \in c + 1..d
        /\ (c + (k + 1)) - 1 = c + k /\ k + 1 \in 0..n
    BY <1>3, <1>5
  <2>2. T[c + (k + 1)] = Longer(T[c + k], quotes, missed, s, c + (k + 1))
    BY <1>2, <2>1
  <2>3. T[c + (k + 1)] = T[c + k]
    BY <2>1, <2>2 DEF Longer
  <2> QED
    BY <1>5, <2>1, <2>3
<1>6. U \in SUBSET (0..n)
  OBVIOUS
<1> HIDE DEF U
<1>7. U = 0..n
  BY <1>4, <1>5, <1>6, UpTo
<1>8. n \in U
  BY <1>7
<1> QED
  BY <1>1, <1>3, <1>8 DEF U

Lasts(tape) == [i \in DOMAIN tape |-> tape[i].last]
Volumes(tape) == [i \in DOMAIN tape |-> tape[i].volume]

(* The prices and volumes of a tape extended by a quote. *)
LEMMA FieldsOfLonger ==
    ASSUME NEW tape \in Seq(QuoteSet), NEW q \in QuoteSet
    PROVE  /\ Lasts(tape) \in Seq(Nat) /\ Volumes(tape) \in Seq(Nat)
           /\ q.last \in Nat /\ q.volume \in Nat
           /\ Lasts(Append(tape, q)) = Append(Lasts(tape), q.last)
           /\ Volumes(Append(tape, q)) = Append(Volumes(tape), q.volume)
<1>1. PICK n \in Nat : n = Len(tape) /\ DOMAIN tape = 1..n
  OBVIOUS
<1>2. PICK t : t = Append(tape, q)
  OBVIOUS
<1>3. /\ DOMAIN t = 1..n + 1 /\ t[n + 1] = q
      /\ \A i \in 1..n : t[i] = tape[i]
  BY <1>1, <1>2
<1>4. \A i \in 1..n : tape[i] \in QuoteSet
  BY <1>1
<1>5. q.last \in Nat /\ q.volume \in Nat
  BY DEF QuoteSet
<1>6. \A i \in 1..n : tape[i].last \in Nat /\ tape[i].volume \in Nat
  BY <1>4 DEF QuoteSet
<1>7. /\ Lasts(tape) = [i \in 1..n |-> tape[i].last]
      /\ Volumes(tape) = [i \in 1..n |-> tape[i].volume]
  BY <1>1 DEF Lasts, Volumes
<1>8. Lasts(tape) \in Seq(Nat) /\ Volumes(tape) \in Seq(Nat)
  <2>1. ASSUME NEW g, g \in [1..n -> Nat] PROVE g \in Seq(Nat)
    BY <2>1
  <2>2. Lasts(tape) \in [1..n -> Nat] /\ Volumes(tape) \in [1..n -> Nat]
    BY <1>6, <1>7
  <2> QED
    BY <2>1, <2>2
<1>9. /\ Lasts(t) = [i \in 1..n + 1 |-> t[i].last]
      /\ Volumes(t) = [i \in 1..n + 1 |-> t[i].volume]
  BY <1>3 DEF Lasts, Volumes
<1>10. /\ Append(Lasts(tape), q.last) = [i \in 1..n + 1 |-> t[i].last]
       /\ Append(Volumes(tape), q.volume) = [i \in 1..n + 1 |-> t[i].volume]
  <2>1. ASSUME NEW w \in Seq(Nat), Len(w) = n, NEW x \in Nat, NEW v, v = Append(w, x)
        PROVE  /\ v \in Seq(Nat) /\ Len(v) = n + 1 /\ v[n + 1] = x
               /\ \A i \in 1..n : v[i] = w[i]
               /\ v = [i \in 1..n + 1 |-> v[i]]
    <3>1. /\ v \in Seq(Nat) /\ Len(v) = n + 1 /\ v[n + 1] = x
          /\ \A i \in 1..n : v[i] = w[i]
      BY <2>1, AppendProperties
    <3>2. DOMAIN v = 1..n + 1 /\ v = [i \in DOMAIN v |-> v[i]]
      BY <3>1
    <3> QED
      BY <3>1, <3>2
  <2>2. PICK v : v = Append(Lasts(tape), q.last)
    OBVIOUS
  <2>3. PICK u : u = Append(Volumes(tape), q.volume)
    OBVIOUS
  <2>4. Len(Lasts(tape)) = n /\ Len(Volumes(tape)) = n
    BY <1>1, <1>7
  <2>5. /\ v[n + 1] = q.last /\ (\A i \in 1..n : v[i] = Lasts(tape)[i])
        /\ v = [i \in 1..n + 1 |-> v[i]]
    BY <1>5, <1>8, <2>1, <2>2, <2>4
  <2>6. /\ u[n + 1] = q.volume /\ (\A i \in 1..n : u[i] = Volumes(tape)[i])
        /\ u = [i \in 1..n + 1 |-> u[i]]
    BY <1>5, <1>8, <2>1, <2>3, <2>4
  <2>7. \A i \in 1..n + 1 : v[i] = t[i].last /\ u[i] = t[i].volume
    <3> TAKE i \in 1..n + 1
    <3>1. CASE i = n + 1
      BY <1>3, <2>5, <2>6, <3>1
    <3>2. CASE i \in 1..n
      <4>1. v[i] = Lasts(tape)[i] /\ u[i] = Volumes(tape)[i] /\ t[i] = tape[i]
        BY <1>3, <2>5, <2>6, <3>2
      <4> QED
        BY <1>7, <3>2, <4>1
    <3> QED
      BY <1>1, <3>1, <3>2
  <2> QED
    BY <2>2, <2>3, <2>5, <2>6, <2>7
<1> QED
  BY <1>2, <1>5, <1>8, <1>9, <1>10

(* Every window is the end of the tape of its symbol.                      *)
WindowInv ==
    \A m \in Modules : \A s \in Symbols :
        /\ IsLatest(memory[m][s].prices, Lasts(Tape(s)), PriceCap(m))
        /\ IsLatest(memory[m][s].volumes, Volumes(Tape(s)), VolumeCap(m))

(* The invariant is the property: each module's windows are the ends of the tape. *)
LEMMA WindowsAre == WindowInv => WindowsAreTheTape
<1> SUFFICES ASSUME WindowInv, NEW s \in Symbols
             PROVE  /\ IsLatest(memory["Firebird"][s].prices, Lasts(Tape(s)), RsiPeriod + 2)
                    /\ IsLatest(memory["Firebird"][s].volumes, Volumes(Tape(s)), VolLookback + 1)
                    /\ IsLatest(memory["Thunderbird"][s].prices, Lasts(Tape(s)), BbPeriod + 2)
                    /\ IsLatest(memory["Thunderbird"][s].volumes, Volumes(Tape(s)), BbPeriod + 2)
                    /\ IsLatest(memory["Taxi"][s].prices, Lasts(Tape(s)), SwingLookback + 2)
                    /\ IsLatest(memory["Taxi"][s].volumes, Volumes(Tape(s)), SwingLookback + 2)
  BY DEF WindowsAreTheTape, Lasts, Volumes
<1>1. "Firebird" \in Modules /\ "Thunderbird" \in Modules /\ "Taxi" \in Modules
  BY DEF Modules
<1>2. /\ PriceCap("Firebird") = RsiPeriod + 2 /\ VolumeCap("Firebird") = VolLookback + 1
      /\ PriceCap("Thunderbird") = BbPeriod + 2 /\ VolumeCap("Thunderbird") = BbPeriod + 2
      /\ PriceCap("Taxi") = SwingLookback + 2 /\ VolumeCap("Taxi") = SwingLookback + 2
  BY DEF PriceCap, VolumeCap
<1> QED
  BY <1>1, <1>2 DEF WindowInv

(* The tape stays as it is while nothing is given to the modules: whatever *)
(* is published, and whatever they lose to lag.                            *)
LEMMA TapeStays ==
    ASSUME WiringTypes, WiringTypes', PublishedGrows, NEW s,
           cursor["modules"] <= cursor'["modules"],
           lost'["modules"] = lost["modules"] \cup (cursor["modules"] + 1)..cursor'["modules"]
    PROVE  Tape(s)' = Tape(s)
<1>1. PICK c \in Nat, d \in Nat : c = cursor["modules"] /\ d = cursor'["modules"]
  BY DEF WiringTypes, Readers
<1>2. c <= d /\ c <= Len(published) /\ d <= Len(published') /\ c <= Len(published')
  <2>1. c <= Len(published) /\ d <= Len(published') /\ Len(published') \in Nat
    BY <1>1 DEF WiringTypes, Readers
  <2> QED
    BY <1>1, <2>1
<1>3. published \in Seq(QuoteSet) /\ published' \in Seq(QuoteSet)
  BY DEF WiringTypes
<1>4. PICK m1, m2, q2 : m1 = lost["modules"] /\ m2 = lost'["modules"] /\ q2 = published'
  OBVIOUS
<1>5. m2 = m1 \cup c + 1..d
  BY <1>1, <1>4
<1>6. \A k \in 1..c : published[k] = q2[k] /\ (k \in m1 <=> k \in m2)
  <2>1. \A k \in 1..c : published[k] = q2[k]
    BY <1>2, <1>3, <1>4 DEF PublishedGrows
  <2> QED
    BY <1>1, <1>5, <2>1
<1>7. TapeOf(published, m1, s)[c] = TapeOf(q2, m2, s)[c]
  <2>1. PICK q1 : q1 = published
    OBVIOUS
  <2>2. /\ q1 \in Seq(QuoteSet) /\ q2 \in Seq(QuoteSet) /\ c \in Nat
        /\ c <= Len(q1) /\ c <= Len(q2)
    BY <1>1, <1>2, <1>3, <1>4, <2>1
  <2>3. AgreeUpTo(q1, q2, m1, m2, c)
    BY <1>6, <2>1 DEF AgreeUpTo
  <2>4. TapeOf(q1, m1, s)[c] = TapeOf(q2, m2, s)[c]
    BY <2>2, <2>3, TapeIsLocal
  <2> QED
    BY <2>1, <2>4
<1>8. TapeOf(q2, m2, s)[d] = TapeOf(q2, m2, s)[c]
  <2>1. q2 \in Seq(QuoteSet) /\ d <= Len(q2) /\ c \in Nat /\ d \in Nat /\ c <= d
    BY <1>1, <1>2, <1>3, <1>4
  <2>2. \A k \in c + 1..d : k \in m2
    BY <1>5
  <2> QED
    BY <2>1, <2>2, TapeSkips
<1> QED
  BY <1>1, <1>4, <1>7, <1>8 DEF Tape

(* The quote given to the modules ends its symbol's tape.                  *)
LEMMA TapeGrows ==
    ASSUME WiringTypes, ModulesOnQuote, NEW s, NEW q, q = published[cursor["modules"] + 1]
    PROVE  /\ Tape(s) \in Seq(QuoteSet)
           /\ Tape(s)' = IF q.symbol = s THEN Append(Tape(s), q) ELSE Tape(s)
<1>1. PICK c \in Nat : c = cursor["modules"]
  BY DEF WiringTypes, Readers
<1>2. /\ cursor'["modules"] = c + 1 /\ lost' = lost /\ published' = published
      /\ c + 1 \in 1..Len(published) /\ q = published[c + 1]
  BY <1>1, ReceivedMoves DEF ModulesOnQuote, Readers, sourceVars
<1>3. published \in Seq(QuoteSet) /\ Len(published) \in Nat
  BY DEF WiringTypes
<1>4. c + 1 \notin lost["modules"]
  <2>1. \A k \in lost["modules"] : k \in 1..c
    BY <1>1 DEF WiringTypes, Readers
  <2> QED
    BY <1>1, <2>1
<1>5. PICK T : T = TapeOf(published, lost["modules"], s)
  OBVIOUS
<1>6. T[c] \in Seq(QuoteSet) /\ T[c + 1] = Longer(T[c], published, lost["modules"], s, c + 1)
  <2>1. c \in 0..Len(published) /\ (c + 1) - 1 = c
    BY <1>1, <1>2, <1>3
  <2> QED
    BY <1>2, <1>3, <1>5, <2>1, TapesAre
<1>7. Tape(s) = T[c] /\ Tape(s)' = T[c + 1]
  BY <1>1, <1>2, <1>5 DEF Tape
<1> QED
  BY <1>2, <1>4, <1>6, <1>7 DEF Longer

(* A turn of the module loop slides each window as the tape grows. *)
LEMMA OnQuoteKeepsWindows ==
    ASSUME WiringTypes, ModuleTypes, WindowInv, ModulesOnQuote
    PROVE  WindowInv'
<1>1. PICK k : k = cursor["modules"] + 1
  OBVIOUS
<1>2. PICK q \in QuoteSet : q = published[k]
  BY <1>1, OnQuoteStep
<1>3. PICK R : R = Results(k)
  OBVIOUS
<1>4. /\ \A m \in Modules : ResultOf(m, memory[m][q.symbol], q, R[m])
      /\ memory' = [m \in Modules |-> [memory[m] EXCEPT ![q.symbol] = R[m].mem]]
  BY <1>1, <1>2, <1>3, OnQuoteStep
<1>5. ASSUME NEW m \in Modules, NEW s \in Symbols
      PROVE  /\ IsLatest(memory'[m][s].prices, Lasts(Tape(s)'), PriceCap(m))
             /\ IsLatest(memory'[m][s].volumes, Volumes(Tape(s)'), VolumeCap(m))
  <2>1. PICK tape : tape = Tape(s)
    OBVIOUS
  <2>2. /\ tape \in Seq(QuoteSet)
        /\ Tape(s)' = IF q.symbol = s THEN Append(tape, q) ELSE tape
    BY <1>1, <1>2, <2>1, TapeGrows
  <2>3. PICK old \in MemorySet : old = memory[m][s]
    BY DEF ModuleTypes
  <2>4. /\ IsLatest(old.prices, Lasts(tape), PriceCap(m))
        /\ IsLatest(old.volumes, Volumes(tape), VolumeCap(m))
    BY <2>1, <2>3 DEF WindowInv
  <2>5. memory[m] \in [Symbols -> MemorySet] /\ q.symbol \in Symbols
    BY DEF ModuleTypes, QuoteSet
  <2>6. CASE q.symbol # s
    <3>1. memory'[m][s] = old
      BY <1>4, <2>3, <2>5, <2>6
    <3> QED
      BY <2>2, <2>4, <2>6, <3>1
  <2>7. CASE q.symbol = s
    <3>1. memory'[m][s] = R[m].mem
      BY <1>4, <2>5, <2>7
    <3>2. /\ R[m].mem.prices = Slide(old.prices, q.last, PriceCap(m))
          /\ R[m].mem.volumes = Slide(old.volumes, q.volume, VolumeCap(m))
      BY <1>4, <2>3, <2>7 DEF ResultOf
    <3>3. /\ Lasts(tape) \in Seq(Nat) /\ Volumes(tape) \in Seq(Nat)
          /\ q.last \in Nat /\ q.volume \in Nat
          /\ Lasts(Append(tape, q)) = Append(Lasts(tape), q.last)
          /\ Volumes(Append(tape, q)) = Append(Volumes(tape), q.volume)
      BY <1>2, <2>2, FieldsOfLonger
    <3>4. PriceCap(m) \in Nat \ {0} /\ VolumeCap(m) \in Nat \ {0}
      BY CapsArePositive
    <3>5. IsLatest(Slide(old.prices, q.last, PriceCap(m)),
                   Append(Lasts(tape), q.last), PriceCap(m))
      BY <2>4, <3>3, <3>4, WindowMovesOn
    <3>6. IsLatest(Slide(old.volumes, q.volume, VolumeCap(m)),
                   Append(Volumes(tape), q.volume), VolumeCap(m))
      BY <2>4, <3>3, <3>4, WindowMovesOn
    <3> QED
      BY <2>2, <2>7, <3>1, <3>2, <3>3, <3>5, <3>6
  <2> QED
    BY <2>6, <2>7
<1> QED
  BY <1>5 DEF WindowInv

(* No step lets a window and the tape fall apart. *)
LEMMA NextWindows ==
    WiringTypes /\ ModuleTypes /\ WindowInv /\ [MarketNext]_marketVars => WindowInv'
<1> SUFFICES ASSUME WiringTypes, ModuleTypes, WindowInv, [MarketNext]_marketVars
             PROVE  WindowInv'
  OBVIOUS
<1>0. /\ "state" \in Readers /\ "modules" \in Readers /\ "state" # "modules"
      /\ cursor["modules"] \in Nat
      /\ WiringTypes' /\ PublishedGrows
  BY NextWiring, NextGrows DEF Readers, WiringTypes
<1>1. CASE ModulesOnQuote
  BY <1>1, OnQuoteKeepsWindows
<1>2. ASSUME memory' = memory, cursor["modules"] <= cursor'["modules"],
             lost'["modules"] = lost["modules"] \cup (cursor["modules"] + 1)..cursor'["modules"]
      PROVE  WindowInv'
  <2>1. \A s \in Symbols : Tape(s)' = Tape(s)
    BY <1>0, <1>2, TapeStays
  <2> QED
    BY <1>2, <2>1 DEF WindowInv
<1>3. ASSUME memory' = memory, cursor'["modules"] = cursor["modules"],
             lost'["modules"] = lost["modules"]
      PROVE  WindowInv'
  <2>1. (cursor["modules"] + 1)..cursor["modules"] = {}
    BY <1>0
  <2> QED
    BY <1>0, <1>2, <1>3, <2>1
<1>4. CASE ModuleLag
  <2>1. ReaderMoves("modules") /\ memory' = memory
        /\ lost'["modules"] = lost["modules"] \cup (cursor["modules"] + 1)..cursor'["modules"]
    BY <1>0, <1>4, LaggedMoves DEF ModuleLag, Lagged, moduleVars
  <2>2. cursor["modules"] <= cursor'["modules"]
    BY <1>0, <2>1 DEF ReaderMoves
  <2> QED
    BY <1>2, <2>1, <2>2
<1>5. CASE StateLag
  <2>1. ReaderMoves("state")
    BY <1>0, <1>5, LaggedMoves DEF StateLag
  <2> QED
    BY <1>0, <1>3, <1>5, <2>1 DEF ReaderMoves, StateLag, Lagged, moduleVars
<1>6. CASE StateQuote
  <2>1. ReaderMoves("state")
    BY <1>0, <1>6, ReceivedMoves DEF StateQuote
  <2> QED
    BY <1>0, <1>3, <1>6, <2>1 DEF ReaderMoves, StateQuote, moduleVars
<1>7. CASE Sources
  BY <1>3, <1>7, SourcesStep DEF OthersThanSources, moduleVars
<1>8. CASE SendIntent \/ ModulesPublish \/ GateTakes \/ UNCHANGED marketVars
  BY <1>3, <1>8 DEF SendIntent, ModulesPublish, GateTakes, marketVars, moduleVars
<1> QED
  BY <1>1, <1>4, <1>5, <1>6, <1>7, <1>8 DEF MarketNext, StateLoop, ModuleLoop

(* Every window and every tape is empty at the start. *)
LEMMA InitWindows == MarketInit => WindowInv
<1> SUFFICES ASSUME MarketInit, NEW m \in Modules, NEW s \in Symbols
             PROVE  /\ IsLatest(memory[m][s].prices, Lasts(Tape(s)), PriceCap(m))
                    /\ IsLatest(memory[m][s].volumes, Volumes(Tape(s)), VolumeCap(m))
  BY DEF WindowInv
<1>1. memory[m][s].prices = <<>> /\ memory[m][s].volumes = <<>>
  BY DEF MarketInit, Blank
<1>2. Tape(s) = <<>>
  <2>1. published \in Seq(QuoteSet) /\ cursor["modules"] = 0
    BY DEF MarketInit, Readers
  <2> QED
    BY <2>1, TapesAre DEF Tape
<1>3. Lasts(<<>>) = <<>> /\ Volumes(<<>>) = <<>>
  BY DEF Lasts, Volumes
<1>4. \A n \in Nat \ {0} : IsLatest(<<>>, <<>>, n)
  BY DEF IsLatest
<1> QED
  BY <1>1, <1>2, <1>3, <1>4, CapsArePositive

(* Every window of every module is the end of its symbol's own tape: no    *)
(* quote of another symbol, none twice, none out of order, whatever the    *)
(* sources publish in between and whatever the loop loses to lag; the      *)
(* three modules judge the same prices.                                    *)
THEOREM ModulesSeeTheTape == MarketSpec => []WindowsAreTheTape
<1>1. MarketInit => WiringTypes /\ ModuleTypes /\ WindowInv
  BY InitWiring, InitModules, InitWindows
<1>2. WiringTypes /\ ModuleTypes /\ WindowInv /\ [MarketNext]_marketVars
        => WiringTypes' /\ ModuleTypes' /\ WindowInv'
  BY NextWiring, NextModules, NextWindows
<1>3. WindowInv => WindowsAreTheTape
  BY WindowsAre
<1> QED
  BY <1>1, <1>2, <1>3, PTL DEF MarketSpec

-----------------------------------------------------------------------------
(* The direction of the RSI.                                               *)

(* Without its last value, a window that moved on ends as it did before.   *)
LEMMA FrontOfMoved ==
    ASSUME NEW S, NEW w \in Seq(S), NEW x \in S,
           NEW n \in Nat \ {0}, Len(w) >= n
    PROVE  /\ Len(Slide(w, x, n + 1)) = n + 1
           /\ Latest(Front(Slide(w, x, n + 1)), n) = Latest(w, n)
<1>1. PICK l \in Nat : l = Len(w)
  OBVIOUS
<1>2. PICK m \in Nat \ {0} : m = n + 1
  OBVIOUS
<1>3. PICK v : v = Slide(w, x, m)
  OBVIOUS
<1>4. PICK d \in Nat : l = n + d
  <2>1. l - n \in Nat /\ l = n + (l - n)
    BY <1>1
  <2> QED
    BY <2>1
<1>5. /\ v \in Seq(S) /\ Len(v) = m
      /\ \A i \in 1..n : v[i] = w[d + i]
  <2>1. CASE d = 0
    <3>1. Len(w) < m
      BY <1>1, <1>2, <1>4, <2>1
    <3>2. Slide(w, x, m) = Append(w, x)
      BY <3>1, SlideGrows
    <3>3. PICK t : t = Append(w, x)
      OBVIOUS
    <3>4. /\ t \in Seq(S) /\ Len(t) = Len(w) + 1
          /\ \A i \in 1..Len(w) : t[i] = w[i]
      BY <3>3, AppendProperties
    <3>5. v = t /\ l = n
      BY <1>3, <1>4, <2>1, <3>2, <3>3
    <3>6. \A i \in 1..n : d + i = i
      BY <2>1
    <3> QED
      BY <1>1, <1>2, <3>4, <3>5, <3>6
  <2>2. CASE d # 0
    <3>1. Len(w) >= m
      BY <1>1, <1>2, <1>4, <2>2
    <3>2. /\ v \in Seq(S) /\ Len(v) = m /\ v[m] = x
          /\ \A i \in 1..m - 1 : v[i] = w[Len(w) - m + (i + 1)]
      <4>1. m \in Nat \ {0} /\ w \in Seq(S) /\ x \in S
        BY <1>2
      <4>2. MovedOn(Slide(w, x, m), w, x, m, S)
        BY <3>1, <4>1, SlideMovesOn, Zenon
      <4> QED
        BY <1>3, <4>2 DEF MovedOn
    <3>3. \A i \in 1..n : i \in 1..m - 1 /\ Len(w) - m + (i + 1) = d + i
      BY <1>1, <1>2, <1>4
    <3> QED
      BY <3>2, <3>3
  <2> QED
    BY <2>1, <2>2
<1>6. PICK f : f = Front(v)
  OBVIOUS
<1>7. f \in Seq(S) /\ Len(f) = n /\ \A i \in 1..n : f[i] = v[i]
  BY <1>2, <1>5, <1>6 DEF Front
<1>8. n <= Len(w) /\ n \in Nat
  OBVIOUS
<1>9. /\ Latest(f, n) \in Seq(S) /\ Len(Latest(f, n)) = n
      /\ \A i \in 1..n : Latest(f, n)[i] = f[Len(f) - n + i]
  <2>1. f \in Seq(S)
    BY <1>7
  <2>2. n <= Len(f) /\ n \in Nat
    BY <1>7
  <2> QED
    BY <2>1, <2>2, LatestIs
<1>10. /\ Latest(w, n) \in Seq(S) /\ Len(Latest(w, n)) = n
       /\ \A i \in 1..n : Latest(w, n)[i] = w[Len(w) - n + i]
  BY <1>8, LatestIs
<1>11. ASSUME NEW i \in 1..n PROVE Latest(f, n)[i] = Latest(w, n)[i]
  <2>1. Len(f) - n + i = i
    BY <1>7
  <2>2. Len(w) - n + i = d + i
    BY <1>1, <1>4
  <2>3. Latest(f, n)[i] = f[i]
    BY <1>9, <2>1
  <2>4. Latest(w, n)[i] = w[d + i]
    BY <1>10, <2>2
  <2> QED
    BY <1>5, <1>7, <2>3, <2>4
<1>12. Latest(f, n) = Latest(w, n)
  BY <1>9, <1>10, <1>11, SeqEqual
<1> QED
  BY <1>2, <1>3, <1>5, <1>6, <1>12

(* A memory of Firebird holds the reading of its window.                   *)
ReadingIsCurrent(mem) ==
    mem.reading = IF Len(mem.prices) >= RsiPeriod + 1 THEN RsiOf(mem.prices) ELSE NoReading

(* The RSI fell with the last price of the window.                         *)
Fell(prices) == Len(prices) > RsiPeriod + 1 /\ Below(RsiOf(prices), RsiOf(Front(prices)))

(* Firebird keeps the reading of its window, and calls a setup heating exactly when the
   index fell against the window before. *)
LEMMA FirebirdHeats ==
    ASSUME NEW old \in MemorySet, NEW q \in QuoteSet, ReadingIsCurrent(old)
    PROVE  /\ ReadingIsCurrent(Firebird(old, q).mem)
           /\ \A x \in Firebird(old, q).setups :
                 x.heating <=> Fell(Firebird(old, q).mem.prices)
<1>0. RsiPeriod \in Nat \ {0} /\ VolLookback \in Nat \ {0}
  BY StrategyAssumption
<1>1. PICK w \in Seq(Nat), n \in Nat \ {0} : w = old.prices /\ n = RsiPeriod + 1
  BY <1>0 DEF MemorySet
<1>2. PICK mem : mem = Remember(old, q, RsiPeriod + 2, VolLookback + 1)
  OBVIOUS
<1>3. /\ mem \in MemorySet /\ mem.prices = Slide(w, q.last, n + 1)
      /\ mem.reading = old.reading
  <2>1. RsiPeriod + 2 \in Nat \ {0} /\ VolLookback + 1 \in Nat \ {0} /\ RsiPeriod + 2 = n + 1
    BY <1>0, <1>1
  <2>2. Remembered(mem, old, q, RsiPeriod + 2, VolLookback + 1)
    BY <1>2, <2>1, RememberIs
  <2> QED
    BY <1>1, <2>1, <2>2 DEF Remembered
<1>4. q.last \in Nat /\ mem.prices \in Seq(Nat)
  BY <1>3 DEF QuoteSet, MemorySet
<1>5. PICK p \in Seq(Nat) : p = mem.prices
  BY <1>4
<1>6. PICK rsi : rsi = RsiOf(p)
  OBVIOUS
<1>7. PICK judged : judged = Judge(mem, rsi, TRUE)
  OBVIOUS
<1>8. PICK I : Firebird(old, q) =
        IF Len(p) < n THEN Nothing(mem)
        ELSE IF Below(rsi, <<3, 10>>) /\ VolumeDeclining(mem.volumes, VolLookback)
        THEN Result(judged.mem, I, {})
        ELSE Result(judged.mem, <<>>,
                    IF Below(rsi, <<9, 20>>) THEN Setup("Firebird", q, judged.heating) ELSE {})
  BY <1>1, <1>2, <1>5, <1>6, <1>7 DEF Firebird
<1>9. Len(w) < n => Len(p) = Len(w) + 1
  <2> SUFFICES ASSUME Len(w) < n PROVE Len(p) = Len(w) + 1
    OBVIOUS
  <2>0. n + 1 \in Nat \ {0}
    OBVIOUS
  <2>1. PICK m \in Nat \ {0}, x \in Nat : m = n + 1 /\ x = q.last
    BY <1>4, <2>0
  <2>2. Len(w) < m
    BY <2>1
  <2>3. Slide(w, x, m) = Append(w, x)
    BY <2>2, SlideGrows
  <2>4. p = Append(w, x)
    BY <1>3, <1>5, <2>1, <2>3
  <2> QED
    BY <2>4, AppendProperties
<1>10. Len(w) >= n =>
          /\ Len(p) = n + 1
          /\ Latest(Front(p), n) = Latest(w, n)
  <2> SUFFICES ASSUME Len(w) >= n
               PROVE  Len(p) = n + 1 /\ Latest(Front(p), n) = Latest(w, n)
    OBVIOUS
  <2>1. PICK x \in Nat : x = q.last
    BY <1>4
  <2>2. /\ Len(Slide(w, x, n + 1)) = n + 1
        /\ Latest(Front(Slide(w, x, n + 1)), n) = Latest(w, n)
    <3>1. w \in Seq(Nat) /\ x \in Nat /\ n \in Nat \ {0} /\ Len(w) >= n
      BY <2>1
    <3> QED
      BY <3>1, FrontOfMoved
  <2>3. p = Slide(w, x, n + 1)
    BY <1>3, <1>5, <2>1
  <2> QED
    BY <2>2, <2>3
<1>11. CASE Len(p) < n
  <2>1. ~(Len(w) >= n)
    BY <1>1, <1>10, <1>11
  <2>2. mem.reading = NoReading
    BY <1>1, <1>3, <2>1 DEF ReadingIsCurrent
  <2>3. ~(Len(p) >= n)
    BY <1>1, <1>5, <1>11
  <2> QED
    BY <1>1, <1>5, <1>8, <1>11, <2>2, <2>3 DEF Nothing, Result, ReadingIsCurrent
<1>12. CASE ~(Len(p) < n)
  <2>1. Len(p) >= n
    BY <1>1, <1>5, <1>12
  <2>2. rsi \in Int \X Int
    BY <1>1, <1>5, <1>6, <2>1, RsiType
  <2>3. /\ judged.mem.prices = p /\ judged.mem.reading = rsi
        /\ judged.heating <=> mem.reading # NoReading /\ Below(rsi, mem.reading)
    BY <1>3, <1>5, <1>7, <2>2, JudgeIs
  <2>4. ReadingIsCurrent(judged.mem)
    BY <1>1, <1>6, <2>1, <2>3 DEF ReadingIsCurrent
  <2>5. judged.heating <=> Fell(p)
    <3>1. CASE Len(w) >= n
      <4>1. mem.reading = RsiOf(w)
        BY <1>1, <1>3, <3>1 DEF ReadingIsCurrent
      <4>2. RsiOf(w) \in Int \X Int
        BY <1>1, <3>1, RsiType
      <4>3. mem.reading # NoReading
        <5>1. PICK a \in Int, b \in Int : mem.reading = <<a, b>>
          BY <4>1, <4>2
        <5>2. Len(<<a, b>>) = 2 /\ Len(<<>>) = 0
          OBVIOUS
        <5> QED
          BY <5>1, <5>2 DEF NoReading
      <4>4. RsiOf(Front(p)) = RsiOf(w)
        BY <1>1, <1>10, <3>1 DEF RsiOf
      <4>5. Len(p) > RsiPeriod + 1
        BY <1>1, <1>10, <3>1
      <4> QED
        BY <1>6, <2>3, <4>1, <4>3, <4>4, <4>5 DEF Fell
    <3>2. CASE ~(Len(w) >= n)
      <4>1. mem.reading = NoReading
        BY <1>1, <1>3, <3>2 DEF ReadingIsCurrent
      <4>2. Len(w) < n /\ Len(w) \in Nat
        BY <1>1, <3>2
      <4>3. ~(Len(p) > RsiPeriod + 1)
        BY <1>1, <1>9, <4>2
      <4> QED
        BY <2>3, <4>1, <4>3 DEF Fell
    <3> QED
      BY <3>1, <3>2
  <2>6. Firebird(old, q).mem = judged.mem
    BY <1>8, <1>12 DEF Result
  <2>7. ASSUME NEW x \in Firebird(old, q).setups PROVE x.heating = judged.heating
    <3>1. x \in Setup("Firebird", q, judged.heating)
      BY <1>8, <1>12, <2>7 DEF Result
    <3> QED
      BY <3>1 DEF Setup
  <2> QED
    BY <2>3, <2>4, <2>5, <2>6, <2>7
<1> QED
  BY <1>11, <1>12

(* The setups of Firebird among some setups tell how its RSI moved.        *)
Truthful(setups) ==
    \A x \in setups : x.module = "Firebird" =>
        (x.heating <=> Fell(memory["Firebird"][x.symbol].prices))

(* The readings are those of the windows, and the setups of the quote in   *)
(* hand, or of the last one, are true of them.                             *)
HeatInv ==
    /\ \A s \in Symbols : ReadingIsCurrent(memory["Firebird"][s])
    /\ IF inHand THEN Truthful(found) ELSE Truthful(scanner)

(* After every turn of the module loop the shown setups are judged against the window before. *)
LEMMA OnQuoteKeepsHeat ==
    ASSUME WiringTypes, ModuleTypes, HeatInv, ModulesOnQuote
    PROVE  HeatInv'
<1>1. PICK k : k = cursor["modules"] + 1
  OBVIOUS
<1>2. PICK q \in QuoteSet : q = published[k]
  BY <1>1, OnQuoteStep
<1>3. PICK R : R = Results(k)
  OBVIOUS
<1>4. /\ \A m \in Modules : ResultOf(m, memory[m][q.symbol], q, R[m])
      /\ memory' = [m \in Modules |-> [memory[m] EXCEPT ![q.symbol] = R[m].mem]]
      /\ found' = UNION {R[m].setups : m \in Modules}
      /\ inHand' = TRUE
  <2>1. inHand' = TRUE
    BY DEF ModulesOnQuote
  <2> QED
    BY <1>1, <1>2, <1>3, <2>1, OnQuoteStep
<1>5. "Firebird" \in Modules /\ q.symbol \in Symbols
  BY DEF Modules, QuoteSet
<1>6. PICK old \in MemorySet : old = memory["Firebird"][q.symbol]
  BY <1>5 DEF ModuleTypes
<1>7. R["Firebird"] = Firebird(old, q)
  BY <1>2, <1>3, <1>5, <1>6 DEF Results, OnQuote
<1>8. PICK r : r = R["Firebird"]
  OBVIOUS
<1>9. /\ ReadingIsCurrent(r.mem)
      /\ \A x \in r.setups : x.heating <=> Fell(r.mem.prices)
  <2>1. ReadingIsCurrent(old)
    BY <1>5, <1>6 DEF HeatInv
  <2> QED
    BY <1>7, <1>8, <2>1, FirebirdHeats
<1>10. memory["Firebird"] \in [Symbols -> MemorySet]
  BY <1>5 DEF ModuleTypes
<1>11. memory'["Firebird"] = [memory["Firebird"] EXCEPT ![q.symbol] = r.mem]
  BY <1>4, <1>5, <1>8
<1>12. ASSUME NEW s \in Symbols PROVE ReadingIsCurrent(memory'["Firebird"][s])
  <2>1. CASE s = q.symbol
    BY <1>9, <1>10, <1>11, <2>1
  <2>2. CASE s # q.symbol
    <3>1. memory'["Firebird"][s] = memory["Firebird"][s]
      BY <1>10, <1>11, <2>2
    <3> QED
      BY <3>1 DEF HeatInv
  <2> QED
    BY <2>1, <2>2
<1>13. ASSUME NEW x \in found', x.module = "Firebird"
       PROVE  x.heating <=> Fell(memory'["Firebird"][x.symbol].prices)
  <2>1. PICK m \in Modules : x \in R[m].setups
    BY <1>4, <1>13
  <2>2. x.module = m /\ x.symbol = q.symbol
    BY <1>4, <2>1 DEF ResultOf
  <2>3. x \in r.setups
    BY <1>8, <1>13, <2>1, <2>2
  <2>4. memory'["Firebird"][x.symbol] = r.mem
    BY <1>5, <1>10, <1>11, <2>2
  <2> QED
    BY <1>9, <2>3, <2>4
<1> QED
  BY <1>4, <1>12, <1>13 DEF HeatInv, Truthful

(* No step makes a shown setup's heat untrue. *)
LEMMA NextHeat ==
    WiringTypes /\ ModuleTypes /\ HeatInv /\ [MarketNext]_marketVars => HeatInv'
<1> SUFFICES ASSUME WiringTypes, ModuleTypes, HeatInv, [MarketNext]_marketVars
             PROVE  HeatInv'
  OBVIOUS
<1>1. CASE ModulesOnQuote
  BY <1>1, OnQuoteKeepsHeat
<1>2. CASE SendIntent
  BY <1>2 DEF SendIntent, HeatInv, Truthful
<1>3. CASE ModulesPublish
  BY <1>3 DEF ModulesPublish, HeatInv, Truthful
<1>4. CASE UNCHANGED moduleVars
  BY <1>4 DEF moduleVars, HeatInv, Truthful
<1>5. ModulesOnQuote \/ SendIntent \/ ModulesPublish \/ UNCHANGED moduleVars
  <2>1. CASE Sources
    BY <2>1, SourcesStep DEF OthersThanSources
  <2>2. CASE StateLoop \/ ModuleLag \/ GateTakes \/ UNCHANGED marketVars
    BY <2>2 DEF StateLoop, StateLag, StateQuote, ModuleLag, Lagged, GateTakes, marketVars
  <2> QED
    BY <2>1, <2>2 DEF MarketNext, ModuleLoop
<1> QED
  BY <1>1, <1>2, <1>3, <1>4, <1>5

(* Nothing is shown at the start, and no reading is kept. *)
LEMMA InitHeat == MarketInit => HeatInv
<1> SUFFICES ASSUME MarketInit PROVE HeatInv
  OBVIOUS
<1>1. RsiPeriod \in Nat
  BY StrategyAssumption
<1>2. ~(Len(<<>>) >= RsiPeriod + 1)
  BY <1>1
<1>3. ReadingIsCurrent(Blank)
  BY <1>2 DEF ReadingIsCurrent, Blank
<1>4. \A s \in Symbols : memory["Firebird"][s] = Blank
  BY DEF MarketInit, Modules
<1> QED
  BY <1>3, <1>4 DEF HeatInv, Truthful, MarketInit

(* A setup of Firebird is shown as heating exactly when the RSI fell with  *)
(* the last quote its module was given, although the reading it was        *)
(* compared with is kept apart from the window.                            *)
THEOREM HeatingIsTrue == MarketSpec => []HeatIsReal
<1>1. MarketInit => WiringTypes /\ ModuleTypes /\ HeatInv
  BY InitWiring, InitModules, InitHeat
<1>2. WiringTypes /\ ModuleTypes /\ HeatInv /\ [MarketNext]_marketVars
        => WiringTypes' /\ ModuleTypes' /\ HeatInv'
  BY NextWiring, NextModules, NextHeat
<1>3. HeatInv => HeatIsReal
  BY DEF HeatInv, HeatIsReal, Truthful, Fell
<1> QED
  BY <1>1, <1>2, <1>3, PTL DEF MarketSpec

-----------------------------------------------------------------------------
(* The brackets.                                                           *)

(* The bracket of an intent i made of quote q: Firebird alone may send one *)
(* whose stop is missing, for want of a low, or is not below the limit,    *)
(* for a low above the price.                                              *)
Bracketed(i, q) ==
    q.last # 0 =>
       /\ IF i.side = "Long" THEN i.limit < i.target ELSE i.target < i.limit
       /\ Stopped(i) \/ (i.module = "Firebird" /\ \A l \in q.low : q.last < l)
AllBracketed(intents, q) == \A n \in 1..Len(intents) : Bracketed(intents[n], q)

(* An intent with the number of the published quote it was made of.        *)
MadeOfIts(e) == e.quote \in 1..Len(published) /\ Bracketed(e.intent, published[e.quote])

BracketInv ==
    /\ \A n \in 1..Len(outbox) : MadeOfIts(outbox[n])
    /\ \A n \in 1..Len(sent) : MadeOfIts(sent[n])

(* One intent whose target and stop are where they should be.              *)
LEMMA OneBracketed ==
    ASSUME NEW m \in Modules, NEW q \in QuoteSet, NEW side \in {"Long", "Short"},
           NEW stop \in SUBSET Int, NEW target \in Int,
           Bracketed(IntentOf(m, q, side, stop, target), q)
    PROVE  AllBracketed(Intent(m, q, side, stop, target), q)
<1>1. PICK i : i = IntentOf(m, q, side, stop, target)
  OBVIOUS
<1>2. Intent(m, q, side, stop, target) = <<i>>
  BY <1>1, IntentIs
<1>3. Bracketed(i, q)
  BY <1>1
<1> QED
  BY <1>2, <1>3 DEF AllBracketed

(* No intent, no bracket.                                                  *)
LEMMA NoneBracketed == ASSUME NEW q PROVE AllBracketed(<<>>, q)
  BY DEF AllBracketed

(* Firebird: a cent under the low, five percent above the price.           *)
LEMMA FirebirdBrackets ==
    ASSUME NEW old \in MemorySet, NEW q \in QuoteSet
    PROVE  AllBracketed(Firebird(old, q).intents, q)
<1>1. PICK stop : stop = {100 * (l - 1) : l \in q.low}
  OBVIOUS
<1>2. q.last \in Nat /\ q.low \subseteq Nat /\ \A l, h \in q.low : l = h
  BY DEF QuoteSet, AtMostOne
<1>3. stop \in SUBSET Int /\ 105 * q.last \in Int
  BY <1>1, <1>2
<1>4. PICK i : i = IntentOf("Firebird", q, "Long", stop, 105 * q.last)
  OBVIOUS
<1>5. /\ i.module = "Firebird" /\ i.side = "Long" /\ i.limit = 100 * q.last
      /\ i.stop = stop /\ i.target = 105 * q.last
  BY <1>4 DEF IntentOf
<1>6. Bracketed(i, q)
  <2> SUFFICES ASSUME q.last # 0
               PROVE  /\ i.limit < i.target
                      /\ Stopped(i) \/ \A l \in q.low : q.last < l
    BY <1>5 DEF Bracketed
  <2>1. i.limit < i.target
    BY <1>2, <1>5
  <2>2. ASSUME NEW l \in q.low, ~(q.last < l) PROVE Stopped(i)
    <3>1. stop = {100 * (l - 1)}
      BY <1>1, <1>2
    <3>2. 100 * (l - 1) < 100 * q.last
      BY <1>2, <2>2
    <3> QED
      BY <1>5, <3>1, <3>2 DEF Stopped, NoPrice
  <2> QED
    BY <2>1, <2>2
<1>7. PICK I : I = Intent("Firebird", q, "Long", stop, 105 * q.last)
  OBVIOUS
<1>8. AllBracketed(I, q)
  <2>1. "Firebird" \in Modules
    BY DEF Modules
  <2> QED
    BY <1>3, <1>4, <1>6, <1>7, <2>1, OneBracketed
<1>9. Firebird(old, q).intents \in {<<>>, I}
  BY <1>1, <1>7 DEF Firebird, Nothing, Result
<1> QED
  BY <1>8, <1>9, NoneBracketed

(* Above the upper band the price is above the mean of the window: the     *)
(* band has a width that is a real number, so that it lies above the mean. *)
LEMMA AboveTheMean ==
    ASSUME NEW prices \in Seq(Nat), Len(prices) >= BbPeriod,
           Below(Deviations, BandReading(prices))
    PROVE  SumOf(Latest(prices, BbPeriod)) < BbPeriod * Last(prices)
<1>1. PICK w : w = Latest(prices, BbPeriod)
  OBVIOUS
<1>2. /\ w \in Seq(Nat) /\ Len(w) = BbPeriod /\ BbPeriod \in Nat \ {0}
      /\ SumOf(w) \in Int /\ Squares(w) \in Int
  BY <1>1, WindowSums
<1>3. Last(w) = Last(prices) /\ Last(prices) \in Nat
  <2>1. PICK l \in Nat, n \in Nat \ {0} : l = Len(prices) /\ n = BbPeriod
    BY <1>2
  <2>2. n <= Len(prices) /\ n \in Nat
    BY <2>1
  <2>3. /\ Latest(prices, n) \in Seq(Nat) /\ Len(Latest(prices, n)) = n
        /\ \A i \in 1..n : Latest(prices, n)[i] = prices[Len(prices) - n + i]
    BY <2>2, LatestIs
  <2>4. n \in 1..n /\ Len(prices) - n + n = Len(prices) /\ Len(prices) \in 1..Len(prices)
    BY <2>1, <2>2
  <2> QED
    BY <1>1, <2>1, <2>3, <2>4 DEF Last
<1>4. PICK a \in Int, d \in Int :
         /\ a = BbPeriod * Last(w) - SumOf(w)
         /\ d = BbPeriod * Squares(w) - SumOf(w) * SumOf(w)
  <2>1. Last(w) \in Int
    BY <1>3
  <2>2. BbPeriod * Last(w) - SumOf(w) \in Int
    BY <1>2, <2>1
  <2>3. BbPeriod * Squares(w) - SumOf(w) * SumOf(w) \in Int
    BY <1>2
  <2> QED
    BY <2>2, <2>3
<1>5. d >= 0
  <2>1. PICK t : t = [i \in DOMAIN w |-> w[i] * w[i]]
    OBVIOUS
  <2>2. /\ w \in Seq(Int) /\ t \in Seq(Int) /\ Len(t) = Len(w)
        /\ \A k \in 1..Len(w) : t[k] = w[k] * w[k]
    BY <1>2, <2>1
  <2>3. Len(w) * SumOf(t) - SumOf(w) * SumOf(w) >= 0
    BY <2>2, SquareOfSum
  <2> QED
    BY <1>2, <1>4, <2>1, <2>3 DEF Squares
<1>6. PICK b \in Int : b = a * (IF a < 0 THEN -a ELSE a)
  OBVIOUS
<1>7. BandReading(prices) = <<b, d>>
  BY <1>1, <1>4, <1>6 DEF BandReading
<1>8. PICK x \in Nat \ {0}, y \in Nat \ {0} : Deviations = <<x, y>>
  <2>1. PICK e \in Nat \ {0}, f \in Nat \ {0} : BbDeviation = <<e, f>>
    BY StrategyAssumption
  <2>2. e * e \in Nat \ {0} /\ f * f \in Nat \ {0}
    OBVIOUS
  <2> QED
    BY <2>1, <2>2 DEF Deviations
<1>9. x * d < b * y
  BY <1>7, <1>8 DEF Below
<1>10. a > 0
  <2> SUFFICES ASSUME ~(a > 0) PROVE FALSE
    OBVIOUS
  <2>1. b <= 0
    <3>1. CASE a = 0
      BY <1>6, <3>1
    <3>2. CASE a < 0
      <4>1. b = -(a * a)
        BY <1>6, <3>2
      <4>2. a * a \in Nat
        BY SquareType
      <4> QED
        BY <4>1, <4>2
    <3> QED
      BY <3>1, <3>2
  <2>2. x * d >= 0
    <3>1. d \in Nat
      BY <1>5
    <3>2. x * d \in Nat
      BY <3>1
    <3> QED
      BY <3>2
  <2>3. b * y <= 0
    <3>1. -b \in Nat
      BY <2>1
    <3>2. (-b) * y \in Nat /\ b * y = -((-b) * y)
      BY <3>1
    <3> QED
      BY <3>2
  <2>4. x * d \in Int /\ b * y \in Int
    OBVIOUS
  <2> QED
    BY <1>9, <2>2, <2>3, <2>4
<1> QED
  BY <1>1, <1>2, <1>3, <1>4, <1>10

(* A hundredth of a hundred times less is less, rounded down or not.       *)
LEMMA MeanIsLess ==
    ASSUME NEW n \in Nat \ {0}, NEW sum \in Int, NEW last \in Nat, sum < n * last
    PROVE  (100 * sum) \div n < 100 * last /\ (100 * sum) \div n \in Int
<1>1. PICK m \in Int : m = (100 * sum) \div n
  OBVIOUS
<1>2. n * m <= 100 * sum
  BY <1>1
<1>3. 100 * sum < n * (100 * last)
  <2>1. n * (100 * last) = 100 * (n * last)
    OBVIOUS
  <2>2. PICK p \in Int : p = n * last
    OBVIOUS
  <2> QED
    BY <2>1, <2>2
<1>4. n * m < n * (100 * last)
  <2>1. PICK u \in Int, v \in Int : u = n * m /\ v = n * (100 * last)
    OBVIOUS
  <2> QED
    BY <1>2, <1>3, <2>1
<1>5. m < 100 * last
  <2> SUFFICES ASSUME ~(m < 100 * last) PROVE FALSE
    OBVIOUS
  <2>1. PICK e \in Nat : m = 100 * last + e
    <3>1. m - 100 * last \in Nat /\ m = 100 * last + (m - 100 * last)
      OBVIOUS
    <3> QED
      BY <3>1
  <2>2. n * e \in Nat /\ n * m = n * (100 * last) + n * e
    BY <2>1
  <2>3. PICK u \in Int, v \in Nat : u = n * (100 * last) /\ v = n * e
    BY <2>2
  <2> QED
    BY <1>4, <2>2, <2>3
<1> QED
  BY <1>1, <1>5

(* Thunderbird sells above the band: back to the mean, which is below.     *)
LEMMA ThunderbirdBrackets ==
    ASSUME NEW old \in MemorySet, NEW q \in QuoteSet
    PROVE  AllBracketed(Thunderbird(old, q).intents, q)
<1>1. PICK mem : mem = Remember(old, q, BbPeriod + 2, BbPeriod + 2)
  OBVIOUS
<1>2. BbPeriod \in Nat \ {0} /\ BbPeriod + 2 \in Nat \ {0}
  BY StrategyAssumption
<1>a. Remembered(mem, old, q, BbPeriod + 2, BbPeriod + 2)
  BY <1>1, <1>2, RememberIs
<1>3. mem \in MemorySet /\ mem.prices = Slide(old.prices, q.last, BbPeriod + 2)
  BY <1>a DEF Remembered
<1>4. PICK p \in Seq(Nat) : p = mem.prices
  BY <1>3 DEF MemorySet
<1>5. q.last \in Nat /\ old.prices \in Seq(Nat)
  BY DEF QuoteSet, MemorySet
<1>6. PICK middle : middle = (100 * SumOf(Latest(p, BbPeriod))) \div BbPeriod
  OBVIOUS
<1>7. PICK I : I = Intent("Thunderbird", q, "Short", {103 * q.last}, middle)
  OBVIOUS
<1>8. \/ Thunderbird(old, q).intents = <<>>
      \/ /\ ~(Len(p) < BbPeriod) /\ Below(Deviations, BandReading(p))
         /\ Thunderbird(old, q).intents = I
  BY <1>1, <1>4, <1>6, <1>7 DEF Thunderbird, Nothing, Result
<1>9. CASE /\ ~(Len(p) < BbPeriod) /\ Below(Deviations, BandReading(p))
           /\ Thunderbird(old, q).intents = I
  <2>1. Len(p) >= BbPeriod
    BY <1>2, <1>9
  <2>2. PICK n \in Nat \ {0}, sum \in Int, last \in Nat :
           n = BbPeriod /\ sum = SumOf(Latest(p, BbPeriod)) /\ last = q.last
    BY <1>2, <1>5, <2>1, WindowSums
  <2>3. Last(p) = last
    <3>1. PICK w \in Seq(Nat), m \in Nat \ {0} : w = old.prices /\ m = BbPeriod + 2
      BY <1>2, <1>5
    <3>2. Last(Slide(w, last, m)) = last
      BY SlideEnds
    <3>3. p = Slide(w, last, m)
      BY <1>3, <1>4, <2>2, <3>1
    <3> QED
      BY <3>2, <3>3
  <2>4. sum < n * last
    <3>1. SumOf(Latest(p, BbPeriod)) < BbPeriod * Last(p)
      BY <1>9, <2>1, AboveTheMean
    <3> QED
      BY <2>2, <2>3, <3>1
  <2>5. (100 * sum) \div n < 100 * last /\ (100 * sum) \div n \in Int
    BY <2>4, MeanIsLess
  <2>6. middle \in Int /\ middle < 100 * q.last
    BY <1>6, <2>2, <2>5
  <2>7. 103 * q.last \in Int /\ (q.last # 0 => 100 * q.last < 103 * q.last)
    BY <1>5
  <2>8. "Thunderbird" \in Modules
    BY DEF Modules
  <2>9. AllBracketed(I, q)
    <3>1. PICK i : i = IntentOf("Thunderbird", q, "Short", {103 * q.last}, middle)
      OBVIOUS
    <3>2. /\ i.side = "Short" /\ i.limit = 100 * q.last
          /\ i.stop = {103 * q.last} /\ i.target = middle
      BY <3>1 DEF IntentOf
    <3>3. Bracketed(i, q)
      BY <2>6, <2>7, <3>2 DEF Bracketed, Stopped, NoPrice
    <3>4. {103 * q.last} \in SUBSET Int
      BY <2>7
    <3> QED
      BY <1>7, <2>6, <2>8, <3>1, <3>3, <3>4, OneBracketed
  <2> QED
    BY <1>9, <2>9
<1> QED
  BY <1>8, <1>9, NoneBracketed

(* Taxi buys above the support: two percent under it, three times as far.  *)
LEMMA TaxiBrackets ==
    ASSUME NEW old \in MemorySet, NEW q \in QuoteSet
    PROVE  AllBracketed(Taxi(old, q).intents, q)
<1>1. PICK mem : mem = Remember(old, q, SwingLookback + 2, SwingLookback + 2)
  OBVIOUS
<1>2. SwingLookback \in Nat \ {0} /\ SwingLookback + 2 \in Nat \ {0}
  BY StrategyAssumption
<1>a. Remembered(mem, old, q, SwingLookback + 2, SwingLookback + 2)
  BY <1>1, <1>2, RememberIs
<1>3. mem \in MemorySet
  BY <1>a DEF Remembered
<1>4. PICK p \in Seq(Nat) : p = mem.prices
  BY <1>3 DEF MemorySet
<1>5. q.last \in Nat
  BY DEF QuoteSet
<1>6. PICK stop, target :
         /\ stop = 98 * Support(p)
         /\ target = 100 * q.last + 3 * (100 * q.last - 98 * Support(p))
  OBVIOUS
<1>7. PICK I : I = Intent("Taxi", q, "Long", {stop}, target)
  OBVIOUS
<1>8. \/ Taxi(old, q).intents = <<>>
      \/ /\ ~(Len(p) < SwingLookback) /\ ~(q.last <= Support(p))
         /\ Taxi(old, q).intents = I
  BY <1>1, <1>4, <1>6, <1>7 DEF Taxi, Nothing, Result
<1>9. CASE /\ ~(Len(p) < SwingLookback) /\ ~(q.last <= Support(p))
           /\ Taxi(old, q).intents = I
  <2>1. Len(p) >= SwingLookback
    BY <1>2, <1>9
  <2>2. PICK support \in Nat, last \in Nat : support = Support(p) /\ last = q.last
    BY <1>5, <2>1, SupportIs
  <2>3. support < last
    BY <1>9, <2>2
  <2>4. 98 * support < 100 * last
    BY <2>3
  <2>5. /\ stop \in Int /\ target \in Int
        /\ stop < 100 * q.last /\ 100 * q.last < target
    <3>1. stop = 98 * support /\ target = 100 * last + 3 * (100 * last - 98 * support)
      BY <1>6, <2>2
    <3>2. 98 * support \in Int /\ 100 * last + 3 * (100 * last - 98 * support) \in Int
      OBVIOUS
    <3>3. 100 * last < 100 * last + 3 * (100 * last - 98 * support)
      BY <2>4
    <3> QED
      BY <2>2, <2>4, <3>1, <3>2, <3>3
  <2>6. "Taxi" \in Modules
    BY DEF Modules
  <2>7. AllBracketed(I, q)
    <3>1. PICK i : i = IntentOf("Taxi", q, "Long", {stop}, target)
      OBVIOUS
    <3>2. /\ i.side = "Long" /\ i.limit = 100 * q.last
          /\ i.stop = {stop} /\ i.target = target
      BY <3>1 DEF IntentOf
    <3>3. Bracketed(i, q)
      BY <2>5, <3>2 DEF Bracketed, Stopped, NoPrice
    <3>4. {stop} \in SUBSET Int
      BY <2>5
    <3> QED
      BY <1>7, <2>5, <2>6, <3>1, <3>3, <3>4, OneBracketed
  <2> QED
    BY <1>9, <2>7
<1> QED
  BY <1>8, <1>9, NoneBracketed

(* What was made of a published quote goes on being made of it.            *)
LEMMA MadeStaysMade ==
    ASSUME WiringTypes, PublishedGrows, NEW e, MadeOfIts(e)
    PROVE  e.quote \in 1..Len(published') /\ Bracketed(e.intent, published'[e.quote])
<1>1. PICK l \in Nat, h \in Nat : l = Len(published) /\ h = Len(published')
  BY DEF WiringTypes, PublishedGrows
<1>2. l <= h /\ e.quote \in 1..l
  BY <1>1 DEF PublishedGrows, MadeOfIts
<1>3. published'[e.quote] = published[e.quote]
  BY <1>1, <1>2 DEF PublishedGrows
<1>4. e.quote \in 1..h
  BY <1>2
<1> QED
  BY <1>1, <1>3, <1>4 DEF MadeOfIts

(* The intents a quote puts into the outbox have their brackets right.     *)
LEMMA OutboxBracketed ==
    ASSUME NEW k \in Nat, NEW R, OneEach(R), NEW out, out = InModuleOrder(R, k),
           NEW q, \A m \in Modules : AllBracketed(R[m].intents, q)
    PROVE  \A n \in 1..Len(out) : Bracketed(out[n].intent, q)
<1>1. PICK a, b, c : /\ a = R["Firebird"].intents /\ b = R["Thunderbird"].intents
                     /\ c = R["Taxi"].intents
  OBVIOUS
<1>2. Modules = {"Firebird", "Thunderbird", "Taxi"}
  BY DEF Modules
<1>3. ASSUME NEW m \in Modules PROVE R[m].intents \in Seq(IntentSet)
  <2>1. CASE R[m].intents = <<>>
    BY <2>1
  <2>2. ASSUME NEW i \in IntentSet, R[m].intents = <<i>>
        PROVE  R[m].intents \in Seq(IntentSet)
    BY <2>2
  <2> QED
    BY <2>1, <2>2 DEF OneEach
<1>4. a \in Seq(IntentSet) /\ b \in Seq(IntentSet) /\ c \in Seq(IntentSet)
  BY <1>1, <1>2, <1>3
<1>5. AllBracketed(a, q) /\ AllBracketed(b, q) /\ AllBracketed(c, q)
  BY <1>1, <1>2
<1>6. ASSUME NEW s \in Seq(IntentSet), NEW t \in Seq(IntentSet),
             AllBracketed(s, q), AllBracketed(t, q)
      PROVE  s \o t \in Seq(IntentSet) /\ AllBracketed(s \o t, q)
  <2>1. PICK x, l, h : x = s \o t /\ l = Len(s) /\ h = Len(t)
    OBVIOUS
  <2>2. /\ s \o t \in Seq(IntentSet) /\ Len(s \o t) = Len(s) + Len(t)
        /\ \A i \in 1..Len(s) : (s \o t)[i] = s[i]
        /\ \A i \in 1..Len(t) : (s \o t)[Len(s) + i] = t[i]
    BY ConcatIs
  <2>3. l \in Nat /\ h \in Nat
    BY <2>1
  <2>4. /\ Len(x) = l + h /\ \A i \in 1..l : x[i] = s[i]
        /\ \A i \in 1..h : x[l + i] = t[i]
    BY <2>1, <2>2
  <2>5. ASSUME NEW n \in 1..Len(x) PROVE Bracketed(x[n], q)
    <3>1. CASE n <= l
      <4>1. n \in 1..l
        BY <2>3, <2>4, <3>1
      <4> QED
        BY <1>6, <2>1, <2>4, <4>1 DEF AllBracketed
    <3>2. CASE ~(n <= l)
      <4>1. PICK i \in 1..h : n = l + i
        <5>1. n - l \in 1..h /\ n = l + (n - l)
          BY <2>3, <2>4, <3>2
        <5> QED
          BY <5>1
      <4> QED
        BY <1>6, <2>1, <2>4, <4>1 DEF AllBracketed
    <3> QED
      BY <3>1, <3>2
  <2> QED
    BY <2>1, <2>2, <2>5 DEF AllBracketed
<1>7. PICK ab : ab = a \o b
  OBVIOUS
<1>8. ab \in Seq(IntentSet) /\ AllBracketed(ab, q)
  BY <1>4, <1>5, <1>6, <1>7
<1>9. PICK all : all = ab \o c
  OBVIOUS
<1>10. all \in Seq(IntentSet) /\ AllBracketed(all, q)
  BY <1>4, <1>5, <1>6, <1>8, <1>9
<1>11. out = [i \in DOMAIN all |-> [quote |-> k, intent |-> all[i]]]
  BY <1>1, <1>7, <1>9 DEF InModuleOrder
<1>12. Len(out) = Len(all) /\ \A n \in 1..Len(all) : out[n].intent = all[n]
  BY <1>10, <1>11
<1> QED
  BY <1>10, <1>12 DEF AllBracketed

(* The modules put no other intents into the outbox.                       *)
LEMMA OnQuoteKeepsBrackets ==
    ASSUME WiringTypes, ModuleTypes, BracketInv, ModulesOnQuote
    PROVE  BracketInv'
<1>1. PICK k : k = cursor["modules"] + 1
  OBVIOUS
<1>2. PICK q \in QuoteSet : q = published[k]
  BY <1>1, OnQuoteStep
<1>3. PICK R : R = Results(k)
  OBVIOUS
<1>4. k \in Nat /\ OneEach(R) /\ outbox' = InModuleOrder(R, k)
  BY <1>1, <1>3, OnQuoteStep
<1>5. k \in 1..Len(published)
  BY <1>1, ReceivedMoves DEF ModulesOnQuote, Readers, WiringTypes
<1>6. ASSUME NEW m \in Modules PROVE AllBracketed(R[m].intents, q)
  <2>1. q.symbol \in Symbols
    BY DEF QuoteSet
  <2>2. memory[m][q.symbol] \in MemorySet
    BY <2>1 DEF ModuleTypes
  <2>3. R[m] = OnQuote(m, memory[m][q.symbol], q)
    BY <1>2, <1>3 DEF Results
  <2> QED
    BY <2>2, <2>3, FirebirdBrackets, ThunderbirdBrackets, TaxiBrackets
       DEF OnQuote, Modules
<1>7. PICK out : out = InModuleOrder(R, k)
  OBVIOUS
<1>8. \A n \in 1..Len(out) : Bracketed(out[n].intent, q)
  BY <1>4, <1>6, <1>7, OutboxBracketed
<1>9. \A n \in 1..Len(out) : out[n].quote = k
  BY <1>4, <1>7, OutboxIs
<1>10. \A n \in 1..Len(out) : MadeOfIts(out[n])
  BY <1>2, <1>5, <1>8, <1>9 DEF MadeOfIts
<1>11. outbox' = out /\ UNCHANGED <<published, sent>>
  BY <1>4, <1>7 DEF ModulesOnQuote, sourceVars
<1> QED
  BY <1>10, <1>11 DEF BracketInv, MadeOfIts

(* Sending takes the first intent from the outbox.                         *)
LEMMA SendKeepsBrackets ==
    ASSUME ModuleTypes, BracketInv, SendIntent
    PROVE  BracketInv'
<1>1. outbox \in Seq(SentSet) /\ outbox # <<>> /\ sent \in Seq(SentSet)
  BY DEF ModuleTypes, SendIntent
<1>2. PICK n \in Nat, l \in Nat : Len(outbox) = n + 1 /\ Len(sent) = l
  <2>1. PICK c \in Nat, l \in Nat : c = Len(outbox) /\ l = Len(sent)
    BY <1>1
  <2>2. c # 0
    BY <1>1, <2>1
  <2>3. c - 1 \in Nat /\ c = (c - 1) + 1
    BY <2>2
  <2> QED
    BY <2>1, <2>3
<1>3. PICK x \in SentSet : x = Head(outbox) /\ x = outbox[1]
  BY <1>1
<1>4. PICK t, u : t = Append(sent, x) /\ u = Tail(outbox)
  OBVIOUS
<1>5. /\ Len(t) = l + 1 /\ t[l + 1] = x /\ \A i \in 1..l : t[i] = sent[i]
  BY <1>1, <1>2, <1>4, AppendProperties
<1>6. Len(u) = n /\ \A i \in 1..n : u[i] = outbox[i + 1]
  BY <1>1, <1>2, <1>4
<1>7. sent' = t /\ outbox' = u
  BY <1>3, <1>4 DEF SendIntent, Sending
<1>8. MadeOfIts(x)
  <2>1. 1 \in 1..Len(outbox)
    BY <1>2
  <2> QED
    BY <1>3, <2>1 DEF BracketInv
<1>9. ASSUME NEW i \in 1..Len(t) PROVE MadeOfIts(t[i])
  <2>1. CASE i \in 1..l
    BY <1>2, <1>5, <2>1 DEF BracketInv
  <2>2. CASE i = l + 1
    BY <1>5, <1>8, <2>2
  <2> QED
    BY <1>5, <2>1, <2>2
<1>10. ASSUME NEW i \in 1..Len(u) PROVE MadeOfIts(u[i])
  <2>1. i \in 1..n /\ i + 1 \in 1..Len(outbox)
    BY <1>2, <1>6
  <2> QED
    BY <1>6, <2>1 DEF BracketInv
<1>11. published' = published
  BY DEF SendIntent, sourceVars
<1> QED
  BY <1>7, <1>9, <1>10, <1>11 DEF BracketInv, MadeOfIts

(* No step makes an intent with another bracket.                           *)
LEMMA NextBrackets ==
    WiringTypes /\ ModuleTypes /\ BracketInv /\ [MarketNext]_marketVars => BracketInv'
<1> SUFFICES ASSUME WiringTypes, ModuleTypes, BracketInv, [MarketNext]_marketVars
             PROVE  BracketInv'
  OBVIOUS
<1>1. ASSUME UNCHANGED <<outbox, sent>> PROVE BracketInv'
  <2>1. PublishedGrows
    BY NextGrows
  <2>2. ASSUME NEW n \in 1..Len(outbox) PROVE MadeOfIts(outbox[n])'
    BY <1>1, <2>1, MadeStaysMade DEF BracketInv, MadeOfIts
  <2>3. ASSUME NEW n \in 1..Len(sent) PROVE MadeOfIts(sent[n])'
    BY <1>1, <2>1, MadeStaysMade DEF BracketInv, MadeOfIts
  <2> QED
    BY <1>1, <2>2, <2>3 DEF BracketInv, MadeOfIts
<1>2. CASE Sources
  BY <1>1, <1>2, SourcesStep DEF OthersThanSources, moduleVars
<1>3. CASE ModulesOnQuote
  BY <1>3, OnQuoteKeepsBrackets
<1>4. CASE SendIntent
  BY <1>4, SendKeepsBrackets
<1>5. CASE ModulesPublish
  BY <1>1, <1>5 DEF ModulesPublish
<1>6. CASE StateLoop \/ ModuleLag \/ GateTakes \/ UNCHANGED marketVars
  BY <1>1, <1>6 DEF StateLoop, StateLag, StateQuote, ModuleLag, Lagged, GateTakes,
                    marketVars, moduleVars
<1> QED
  BY <1>2, <1>3, <1>4, <1>5, <1>6 DEF MarketNext, ModuleLoop

(* There is no intent at the start. *)
LEMMA InitBrackets == MarketInit => BracketInv
  BY DEF MarketInit, BracketInv

(* Whatever the snapshots report: an intent made of a traded price has its *)
(* target beyond the limit, and a stop on the losing side of it, unless it *)
(* is Firebird's (Firebird::on_quote) and its quote brings no low or a low *)
(* above the price.                                                        *)
THEOREM BracketsAroundThePrice == MarketSpec => []BracketsAreSane
<1>1. MarketInit => WiringTypes /\ ModuleTypes /\ BracketInv
  BY InitWiring, InitModules, InitBrackets
<1>2. WiringTypes /\ ModuleTypes /\ BracketInv /\ [MarketNext]_marketVars
        => WiringTypes' /\ ModuleTypes' /\ BracketInv'
  BY NextWiring, NextModules, NextBrackets
<1>3. ASSUME ModuleTypes, BracketInv PROVE BracketsAreSane
  <2>1. DOMAIN sent = 1..Len(sent)
    BY <1>3 DEF ModuleTypes
  <2> SUFFICES ASSUME NEW k \in DOMAIN sent
               PROVE  Bracketed(sent[k].intent, published[sent[k].quote])
    BY DEF BracketsAreSane, Bracketed
  <2> QED
    BY <1>3, <2>1 DEF BracketInv, MadeOfIts
<1> QED
  BY <1>1, <1>2, <1>3, PTL DEF MarketSpec

-----------------------------------------------------------------------------
(* Reversals in opposite directions.                                       *)

(* The indicators look far enough for the two modules to disagree: three   *)
(* prices of the band's window never lie above the band together.  With    *)
(* the periods of the code, 14 and 20, and its 2.5 deviations it says that *)
(* 17 * 4 <= 3 * 25.                                                       *)
BandIsWide ==
    /\ 2 <= RsiPeriod /\ RsiPeriod < BbPeriod
    /\ (BbPeriod - 3) * Deviations[2] <= 3 * Deviations[1]

(* The changes of a window, and what is positive of them.                  *)
LEMMA ChangesAre ==
    ASSUME NEW w \in Seq(Nat), NEW n \in Nat, Len(w) = n + 1
    PROVE  /\ Changes(w) \in Seq(Int) /\ Len(Changes(w)) = n
           /\ \A i \in 1..n : Changes(w)[i] = w[i + 1] - w[i]
<1>1. (n + 1) - 1 = n
  OBVIOUS
<1>2. Changes(w) = [i \in 1..n |-> w[i + 1] - w[i]]
  BY <1>1 DEF Changes
<1>3. \A i \in 1..n : w[i + 1] - w[i] \in Int
  <2> TAKE i \in 1..n
  <2>1. i \in 1..Len(w) /\ i + 1 \in 1..Len(w)
    OBVIOUS
  <2>2. w[i] \in Nat /\ w[i + 1] \in Nat
    BY <2>1
  <2> QED
    BY <2>2
<1> QED
  BY <1>2, <1>3

(* The gains among changes: each change that is positive, and zero for the others. *)
LEMMA PositiveIs ==
    ASSUME NEW c \in Seq(Int)
    PROVE  /\ Positive(c) \in Seq(Int) /\ Len(Positive(c)) = Len(c)
           /\ \A i \in 1..Len(c) : Positive(c)[i] = IF c[i] > 0 THEN c[i] ELSE 0
<1>1. PICK n \in Nat : n = Len(c) /\ DOMAIN c = 1..n
  OBVIOUS
<1>2. Positive(c) = [i \in 1..n |-> IF c[i] > 0 THEN c[i] ELSE 0]
  BY <1>1 DEF Positive
<1> QED
  BY <1>1, <1>2

(* Gains and losses differ by the whole move of the window, and the gains  *)
(* carry it from its second price to its last.                             *)
LEMMA GainsCarry ==
    ASSUME NEW w \in Seq(Nat), NEW n \in Nat \ {0}, Len(w) = n + 1
    PROVE  /\ Gains(w) \in Int /\ Losses(w) \in Int /\ Gains(w) >= 0
           /\ Losses(w) - Gains(w) = w[1] - w[n + 1]
           /\ w[n + 1] - w[2] <= Gains(w)
<1>1. PICK c : c = Changes(w)
  OBVIOUS
<1>2. c \in Seq(Int) /\ Len(c) = n /\ \A i \in 1..n : c[i] = w[i + 1] - w[i]
  BY <1>1, ChangesAre
<1>3. PICK d : d = [i \in DOMAIN c |-> -c[i]]
  OBVIOUS
<1>4. d \in Seq(Int) /\ Len(d) = n /\ \A i \in 1..n : d[i] = -c[i]
  <2>1. DOMAIN c = 1..n /\ \A i \in 1..n : -c[i] \in Int
    BY <1>2
  <2> QED
    BY <1>3, <2>1
<1>5. PICK u, v : u = Positive(c) /\ v = Positive(d)
  OBVIOUS
<1>6. u \in Seq(Int) /\ Len(u) = n /\ \A i \in 1..n : u[i] = IF c[i] > 0 THEN c[i] ELSE 0
  BY <1>2, <1>5, PositiveIs
<1>7. v \in Seq(Int) /\ Len(v) = n /\ \A i \in 1..n : v[i] = IF d[i] > 0 THEN d[i] ELSE 0
  BY <1>4, <1>5, PositiveIs
<1>8. Gains(w) = SumOf(u) /\ Losses(w) = SumOf(v)
  BY <1>1, <1>3, <1>5 DEF Gains, Losses
<1>9. \A i \in 1..n + 1 : w[i] \in Int
  OBVIOUS
<1> DEFINE T == {k \in 0..n : /\ PartialSums(u)[k] >= 0
                              /\ PartialSums(v)[k] - PartialSums(u)[k] = w[1] - w[k + 1]
                              /\ k # 0 => w[k + 1] - w[2] <= PartialSums(u)[k]}
<1>10. 0 \in T
  <2>1. PartialSums(u)[0] = 0 /\ PartialSums(v)[0] = 0
    BY <1>6, <1>7, PartialSumsAre
  <2>2. 1 \in 1..n + 1
    OBVIOUS
  <2>3. w[1] - w[0 + 1] = 0
    BY <1>9, <2>2
  <2> QED
    BY <2>1, <2>3
<1>11. ASSUME NEW k \in 0..n - 1, k \in T PROVE k + 1 \in T
  <2>1. k + 1 \in 1..n /\ k + 1 \in 0..n /\ k + 1 \in 1..n + 1 /\ (k + 1) + 1 \in 1..n + 1
    OBVIOUS
  <2>2. /\ PartialSums(u)[k] \in Int /\ u[k + 1] \in Int
        /\ PartialSums(u)[k + 1] = PartialSums(u)[k] + u[k + 1]
    <3>1. k \in 0..Len(u) - 1
      BY <1>6
    <3> QED
      BY <1>6, <3>1, SumStep
  <2>3. /\ PartialSums(v)[k] \in Int /\ v[k + 1] \in Int
        /\ PartialSums(v)[k + 1] = PartialSums(v)[k] + v[k + 1]
    <3>1. k \in 0..Len(v) - 1
      BY <1>7
    <3> QED
      BY <1>7, <3>1, SumStep
  <2>4. PICK a \in Int, b \in Int, x \in Int, y \in Int, z \in Int, s \in Int :
           /\ a = PartialSums(u)[k] /\ b = PartialSums(v)[k]
           /\ x = w[k + 1] /\ y = w[(k + 1) + 1] /\ z = w[1] /\ s = w[2]
    <3>1. 1 \in 1..n + 1 /\ 2 \in 1..n + 1
      OBVIOUS
    <3> QED
      BY <1>9, <2>1, <2>2, <2>3, <3>1
  <2>5. c[k + 1] = y - x /\ d[k + 1] = -(y - x)
    BY <1>2, <1>4, <2>1, <2>4
  <2>6. u[k + 1] = (IF y - x > 0 THEN y - x ELSE 0) /\ v[k + 1] = IF -(y - x) > 0 THEN -(y - x) ELSE 0
    BY <1>6, <1>7, <2>1, <2>5
  <2>7. u[k + 1] >= 0 /\ u[k + 1] >= y - x /\ v[k + 1] - u[k + 1] = x - y
    BY <2>6
  <2>8. a >= 0 /\ b - a = z - x /\ (k # 0 => x - s <= a)
    BY <1>11, <2>4
  <2>9. PICK g \in Int, h \in Int : g = u[k + 1] /\ h = v[k + 1]
    BY <2>2, <2>3
  <2>10. a + g >= 0 /\ (b + h) - (a + g) = z - y
    <3>1. g >= 0 /\ h - g = x - y
      BY <2>7, <2>9
    <3> QED
      BY <2>8, <3>1
  <2>11. y - s <= a + g
    <3>1. CASE k # 0
      BY <2>7, <2>8, <2>9, <3>1
    <3>2. CASE k = 0
      <4>1. y = s
        BY <2>4, <3>2
      <4> QED
        BY <2>10, <4>1
    <3> QED
      BY <3>1, <3>2
  <2>12. /\ PartialSums(u)[k + 1] = a + g /\ PartialSums(v)[k + 1] = b + h
    BY <2>2, <2>3, <2>4, <2>9
  <2> QED
    BY <2>1, <2>4, <2>10, <2>11, <2>12
<1> HIDE DEF T
<1>12. T = 0..n
  <2>1. T \in SUBSET (0..n)
    BY DEF T
  <2> QED
    BY <1>10, <1>11, <2>1, UpTo
<1>13. n \in T /\ n # 0
  BY <1>12
<1>14. SumOf(u) = PartialSums(u)[n] /\ SumOf(v) = PartialSums(v)[n]
  BY <1>6, <1>7 DEF SumOf
<1>15. SumOf(u) \in Int /\ SumOf(v) \in Int
  BY <1>6, <1>7, SumType
<1> QED
  BY <1>8, <1>13, <1>14, <1>15 DEF T

(* Oversold: the first two prices of the window are together more than     *)
(* twice the last.                                                         *)
LEMMA OversoldIsLow ==
    ASSUME NEW prices \in Seq(Nat), Len(prices) >= RsiPeriod + 1,
           Below(RsiOf(prices), <<3, 10>>), NEW w, w = Latest(prices, RsiPeriod + 1)
    PROVE  w[1] + w[2] > 2 * w[RsiPeriod + 1]
<1>1. PICK n \in Nat \ {0} : n = RsiPeriod
  BY StrategyAssumption
<1>2. w \in Seq(Nat) /\ Len(w) = n + 1
  <2>1. n + 1 \in Nat /\ n + 1 <= Len(prices)
    BY <1>1
  <2>2. Latest(prices, n + 1) \in Seq(Nat) /\ Len(Latest(prices, n + 1)) = n + 1
    BY <2>1, LatestIs
  <2> QED
    BY <1>1, <2>2
<1>3. /\ Gains(w) \in Int /\ Losses(w) \in Int /\ Gains(w) >= 0
      /\ Losses(w) - Gains(w) = w[1] - w[n + 1]
      /\ w[n + 1] - w[2] <= Gains(w)
  BY <1>2, GainsCarry
<1>4. PICK g \in Nat, l \in Int : g = Gains(w) /\ l = Losses(w)
  BY <1>3
<1>5. RsiOf(prices) = IF l = 0 THEN <<1, 1>> ELSE <<g, g + l>>
  BY <1>4 DEF RsiOf, Rsi
<1>6. g * 10 < 3 * (g + l)
  <2>1. CASE l = 0
    BY <1>5, <2>1 DEF Below
  <2>2. CASE l # 0
    BY <1>5, <2>2 DEF Below
  <2> QED
    BY <2>1, <2>2
<1>7. PICK x \in Int, y \in Int, z \in Int : x = w[1] /\ y = w[2] /\ z = w[n + 1]
  <2>1. 1 \in 1..n + 1 /\ 2 \in 1..n + 1 /\ n + 1 \in 1..n + 1
    OBVIOUS
  <2>2. \A i \in 1..n + 1 : w[i] \in Int
    BY <1>2
  <2>3. w[1] \in Int /\ w[2] \in Int /\ w[n + 1] \in Int
    BY <2>1, <2>2
  <2> QED
    BY <2>3
<1>8. l - g = x - z /\ z - y <= g
  BY <1>3, <1>4, <1>7
<1>9. x + y > 2 * z
  BY <1>6, <1>8
<1> QED
  BY <1>1, <1>7, <1>9

(* The end of a window is the end of its tape.                             *)
LEMMA SameEnd ==
    ASSUME NEW tape \in Seq(Nat), NEW c \in Nat \ {0}, NEW w \in Seq(Nat),
           IsLatest(w, tape, c), NEW n \in Nat, n <= Len(w)
    PROVE  /\ n <= Len(tape)
           /\ \A i \in 1..n : Latest(w, n)[i] = tape[Len(tape) - n + i]
<1>1. PICK l \in Nat, t \in Nat : l = Len(w) /\ t = Len(tape)
  OBVIOUS
<1>2. \A i \in 1..n : Latest(w, n)[i] = w[Len(w) - n + i]
  BY LatestIs
<1>3. CASE Len(tape) > c
  <2>1. w = Latest(tape, c)
    BY <1>3 DEF IsLatest
  <2>2. c \in Nat /\ c <= Len(tape)
    BY <1>3
  <2>3. /\ Len(Latest(tape, c)) = c
        /\ \A i \in 1..c : Latest(tape, c)[i] = tape[Len(tape) - c + i]
    BY <2>2, LatestIs
  <2>4. l = c /\ n <= l /\ n <= t
    BY <1>1, <1>3, <2>1, <2>3
  <2>5. ASSUME NEW i \in 1..n PROVE Latest(w, n)[i] = tape[Len(tape) - n + i]
    <3>1. l - n + i \in 1..c /\ t - c + (l - n + i) = t - n + i
      BY <1>1, <2>4
    <3>2. Latest(w, n)[i] = w[l - n + i]
      BY <1>1, <1>2
    <3>3. w[l - n + i] = tape[t - c + (l - n + i)]
      BY <1>1, <2>1, <2>3, <3>1
    <3> QED
      BY <1>1, <3>1, <3>2, <3>3
  <2> QED
    BY <1>1, <2>4, <2>5
<1>4. CASE ~(Len(tape) > c)
  <2>1. w = tape
    BY <1>4 DEF IsLatest
  <2> QED
    BY <1>2, <2>1
<1> QED
  BY <1>3, <1>4

(* A price the RSI calls oversold is not above the band of the same tape.  *)
LEMMA NotBoth ==
    ASSUME BandIsWide, NEW tape \in Seq(Nat), NEW low \in Seq(Nat), NEW high \in Seq(Nat),
           IsLatest(low, tape, RsiPeriod + 2), IsLatest(high, tape, BbPeriod + 2),
           Len(low) >= RsiPeriod + 1, Below(RsiOf(low), <<3, 10>>),
           Len(high) >= BbPeriod, Below(Deviations, BandReading(high))
    PROVE  FALSE
<1>1. PICK r \in Nat, n \in Nat : r = RsiPeriod /\ n = BbPeriod
  BY StrategyAssumption
<1>2. 2 <= r /\ r < n
  BY <1>1 DEF BandIsWide
<1>3. PICK w, f : w = Latest(high, n) /\ f = Latest(low, r + 1)
  OBVIOUS
<1>4. /\ w \in Seq(Nat) /\ Len(w) = n /\ SumOf(w) \in Int /\ Squares(w) \in Int
  BY <1>1, <1>3, WindowSums
<1>5. PICK l \in Nat : l = Len(tape)
  OBVIOUS
<1>6. n <= l /\ \A i \in 1..n : w[i] = tape[l - n + i]
  <2>1. n + 2 \in Nat \ {0} /\ n <= Len(high) /\ IsLatest(high, tape, n + 2)
    BY <1>1
  <2>2. /\ n <= Len(tape)
        /\ \A i \in 1..n : Latest(high, n)[i] = tape[Len(tape) - n + i]
    BY <2>1, SameEnd
  <2> QED
    BY <1>3, <1>5, <2>2
<1>7. \A i \in 1..r + 1 : f[i] = tape[l - (r + 1) + i]
  <2>1. PICK m \in Nat, c \in Nat \ {0} : m = r + 1 /\ c = r + 2
    <3>1. r + 1 \in Nat /\ r + 2 \in Nat \ {0}
      OBVIOUS
    <3> QED
      BY <3>1
  <2>2. m <= Len(low) /\ IsLatest(low, tape, c)
    BY <1>1, <2>1
  <2>3. /\ m <= Len(tape)
        /\ \A i \in 1..m : Latest(low, m)[i] = tape[Len(tape) - m + i]
    BY <2>2, SameEnd
  <2> QED
    BY <1>3, <1>5, <2>1, <2>3
<1>8. /\ n - r \in 1..n /\ (n - r) + 1 \in 1..n /\ n \in 1..n
      /\ n - r # (n - r) + 1 /\ (n - r) + 1 # n /\ n - r # n
  BY <1>2
<1>9. /\ f[1] = w[n - r] /\ f[2] = w[(n - r) + 1] /\ f[r + 1] = w[n]
  <2>1. 1 \in 1..r + 1 /\ 2 \in 1..r + 1 /\ r + 1 \in 1..r + 1
    BY <1>2
  <2>2. /\ l - n + (n - r) = l - (r + 1) + 1 /\ l - n + ((n - r) + 1) = l - (r + 1) + 2
        /\ l - n + n = l - (r + 1) + (r + 1)
    OBVIOUS
  <2> QED
    BY <1>6, <1>7, <1>8, <2>1, <2>2
<1>10. PICK i \in 1..n, j \in 1..n : i = n - r /\ j = (n - r) + 1
  BY <1>8
<1>11. PICK x \in Int, y \in Int, z \in Int, s \in Int, q \in Int :
          x = w[i] /\ y = w[j] /\ z = w[n] /\ s = SumOf(w) /\ q = Squares(w)
  <2>0. DOMAIN w = 1..n /\ \A k \in 1..n : w[k] \in Int
    BY <1>4
  <2>1. w[i] \in Int /\ w[j] \in Int /\ w[n] \in Int
    BY <1>8, <2>0
  <2> QED
    BY <1>4, <2>1
<1>12. x + y > 2 * z
  <2>1. f[1] + f[2] > 2 * f[r + 1]
    BY <1>1, <1>3, OversoldIsLow
  <2> QED
    BY <1>9, <1>10, <1>11, <2>1
<1>13. Last(high) = z /\ Last(w) = z
  <2>1. Len(high) \in Nat /\ n <= Len(high)
    BY <1>1
  <2>2. \A m \in 1..n : Latest(high, n)[m] = high[Len(high) - n + m]
    BY <2>1, LatestIs
  <2>3. Len(high) - n + n = Len(high)
    BY <2>1
  <2> QED
    BY <1>3, <1>4, <1>8, <1>11, <2>2, <2>3 DEF Last
<1>14. PICK a \in Int : a = n * z - s /\ a > 0
  <2>1. s < n * z
    BY <1>1, <1>3, <1>11, <1>13, AboveTheMean
  <2>2. PICK p \in Int : p = n * z
    OBVIOUS
  <2> QED
    BY <2>1, <2>2
<1>15. PICK v \in Int : v = n * q - s * s
  OBVIOUS
<1>16. BandReading(high) = <<a * a, v>>
  <2>1. ~(a < 0)
    BY <1>14
  <2> QED
    BY <1>1, <1>3, <1>11, <1>13, <1>14, <1>15, <2>1 DEF BandReading
<1>17. PICK b \in Nat, c \in Nat : Deviations = <<b, c>>
  <2>1. PICK e \in Nat, g \in Nat : BbDeviation = <<e, g>>
    BY StrategyAssumption
  <2>2. e * e \in Nat /\ g * g \in Nat
    OBVIOUS
  <2> QED
    BY <2>1, <2>2 DEF Deviations
<1>18. b * v < (a * a) * c
  BY <1>16, <1>17 DEF Below
<1>19. PICK d \in Int : d = n * (x + y + z) - 3 * s
  OBVIOUS
<1>20. d >= 3 * a
  <2>1. 3 * z <= x + y + z
    BY <1>12
  <2>2. (3 * z) * n <= (x + y + z) * n
    BY <2>1, TimesMore
  <2>3. (3 * z) * n = 3 * (n * z) /\ (x + y + z) * n = n * (x + y + z)
    OBVIOUS
  <2>4. PICK p \in Int, t \in Int : p = n * z /\ t = n * (x + y + z)
    OBVIOUS
  <2> QED
    BY <1>14, <1>19, <2>2, <2>3, <2>4
<1>21. n # 3
  <2> SUFFICES ASSUME n = 3 PROVE FALSE
    OBVIOUS
  <2>1. r = 2 /\ i = 1 /\ j = 2
    BY <1>2, <1>10
  <2>2. s = x + y + z
    <3>1. w \in Seq(Int) /\ 0 \in 0..Len(w) - 1 /\ 1 \in 0..Len(w) - 1 /\ 2 \in 0..Len(w) - 1
      BY <1>4
    <3>2. PartialSums(w)[0] = 0
      BY <3>1, PartialSumsAre
    <3>3. PartialSums(w)[0 + 1] = PartialSums(w)[0] + w[0 + 1]
      BY <3>1, SumStep
    <3>4. PartialSums(w)[1 + 1] = PartialSums(w)[1] + w[1 + 1]
      BY <3>1, SumStep
    <3>5. PartialSums(w)[2 + 1] = PartialSums(w)[2] + w[2 + 1]
      BY <3>1, SumStep
    <3>6. s = PartialSums(w)[3]
      BY <1>4, <1>11 DEF SumOf
    <3> QED
      BY <1>11, <2>1, <3>2, <3>3, <3>4, <3>5, <3>6
  <2> QED
    BY <1>14, <1>19, <1>20, <2>2
<1>22. PICK m \in Nat : m = n - 3
  BY <1>2
<1>23. d * d <= (3 * m) * v
  <2>1. PICK t : t = [k \in DOMAIN w |-> w[k] * w[k]]
    OBVIOUS
  <2>2. w \in Seq(Int) /\ t \in Seq(Int) /\ AreSquares(w, t) /\ q = SumOf(t)
    <3>1. w \in Seq(Int) /\ DOMAIN w = 1..n /\ \A k \in 1..n : w[k] * w[k] \in Int
      <4>1. w \in Seq(Int) /\ DOMAIN w = 1..n /\ \A k \in 1..n : w[k] \in Int
        BY <1>4
      <4>2. \A k \in 1..n : w[k] * w[k] \in Int
        BY <4>1
      <4> QED
        BY <4>1, <4>2
    <3> QED
      BY <1>4, <1>11, <2>1, <3>1 DEF AreSquares, Squares
  <2>3. i \in 1..Len(w) /\ j \in 1..Len(w) /\ n \in 1..Len(w) /\ i # j /\ j # n /\ i # n
    BY <1>4, <1>8, <1>10
  <2>4. LET e == Len(w) * (w[i] + w[j] + w[n]) - 3 * SumOf(w)
            u == Len(w) * SumOf(t) - SumOf(w) * SumOf(w)
        IN  e * e <= (3 * (Len(w) - 3)) * u
    BY <1>4, <1>21, <2>2, <2>3, ThreeFromMean
  <2> QED
    BY <1>4, <1>11, <1>15, <1>19, <1>22, <2>2, <2>4
<1>24. 3 * (a * a) <= m * v
  <2>1. PICK h \in Nat : d = 3 * a + h
    <3>1. d - 3 * a \in Nat /\ d = 3 * a + (d - 3 * a)
      BY <1>20
    <3> QED
      BY <3>1
  <2>2. PICK k \in Nat : k = a
    BY <1>14
  <2>3. d * d = 9 * (a * a) + (6 * (k * h) + h * h)
    BY <2>1, <2>2
  <2>4. k * h \in Nat /\ h * h \in Nat
    OBVIOUS
  <2>5. (3 * m) * v = 3 * (m * v)
    OBVIOUS
  <2>6. PICK p \in Int, u \in Int, o \in Nat, e \in Nat :
           p = a * a /\ u = m * v /\ o = k * h /\ e = h * h
    BY <2>4
  <2>7. 9 * p + (6 * o + e) <= 3 * u
    BY <1>23, <2>3, <2>5, <2>6, Zenon
  <2>8. 3 * p <= u
    BY <2>7
  <2> QED
    BY <2>6, <2>8
<1>25. m * c <= 3 * b
  BY <1>1, <1>17, <1>22 DEF BandIsWide
<1>26. PICK p \in Nat : p = a * a
  BY SquareType
<1>27. (b * v + 1) * m <= (p * c) * m
  <2>1. PICK e \in Int, u \in Int : e = b * v /\ u = p * c
    OBVIOUS
  <2>2. e + 1 <= u
    BY <1>18, <1>26, <2>1
  <2> QED
    BY <2>1, <2>2, TimesMore
<1>28. (m * c) * p <= (3 * b) * p
  BY <1>25, TimesMore
<1>29. (3 * p) * b <= (m * v) * b
  BY <1>24, <1>26, TimesMore
<1>30. /\ (b * v + 1) * m = (m * v) * b + m /\ (p * c) * m = (m * c) * p
       /\ (3 * b) * p = (3 * p) * b
  OBVIOUS
<1>31. PICK e \in Int, u \in Int, o \in Int :
          e = (m * v) * b /\ u = (m * c) * p /\ o = (3 * p) * b
  OBVIOUS
<1>32. e + m <= u
  <2>1. (b * v + 1) * m = e + m /\ (p * c) * m = u
    BY <1>30, <1>31
  <2> QED
    BY <1>27, <2>1, Zenon
<1>33. u <= o
  <2>1. (3 * b) * p = o
    BY <1>30, <1>31
  <2> QED
    BY <1>28, <1>31, <2>1, Zenon
<1>34. o <= e
  BY <1>29, <1>31, Zenon
<1>35. m = 0
  BY <1>32, <1>33, <1>34
<1> QED
  BY <1>21, <1>22, <1>35

(* An intent of Firebird means an oversold price.                          *)
LEMMA FirebirdBuysLow ==
    ASSUME NEW old \in MemorySet, NEW q \in QuoteSet, Firebird(old, q).intents # <<>>
    PROVE  LET prices == Firebird(old, q).mem.prices
           IN  Len(prices) >= RsiPeriod + 1 /\ Below(RsiOf(prices), <<3, 10>>)
<1>1. PICK mem : mem = Remember(old, q, RsiPeriod + 2, VolLookback + 1)
  OBVIOUS
<1>2. RsiPeriod \in Nat /\ RsiPeriod + 2 \in Nat \ {0} /\ VolLookback + 1 \in Nat \ {0}
  BY StrategyAssumption
<1>a. Remembered(mem, old, q, RsiPeriod + 2, VolLookback + 1)
  BY <1>1, <1>2, RememberIs
<1>3. mem \in MemorySet
  BY <1>a DEF Remembered
<1>4. PICK p \in Seq(Nat) : p = mem.prices
  BY <1>3 DEF MemorySet
<1>5. PICK judged : judged = Judge(mem, RsiOf(p), TRUE)
  OBVIOUS
<1>6. /\ ~(Len(p) < RsiPeriod + 1) /\ Below(RsiOf(p), <<3, 10>>)
      /\ Firebird(old, q).mem = judged.mem
  BY <1>1, <1>4, <1>5 DEF Firebird, Nothing, Result
<1>7. Len(p) >= RsiPeriod + 1
  BY <1>2, <1>6
<1>8. judged.mem.prices = p
  BY <1>3, <1>4, <1>5, <1>7, RsiType, JudgeIs
<1> QED
  BY <1>6, <1>7, <1>8

(* An intent of Thunderbird means a price above the band.                  *)
LEMMA ThunderbirdSellsHigh ==
    ASSUME NEW old \in MemorySet, NEW q \in QuoteSet, Thunderbird(old, q).intents # <<>>
    PROVE  LET prices == Thunderbird(old, q).mem.prices
           IN  Len(prices) >= BbPeriod /\ Below(Deviations, BandReading(prices))
<1>1. PICK mem : mem = Remember(old, q, BbPeriod + 2, BbPeriod + 2)
  OBVIOUS
<1>2. BbPeriod \in Nat /\ BbPeriod + 2 \in Nat \ {0}
  BY StrategyAssumption
<1>a. Remembered(mem, old, q, BbPeriod + 2, BbPeriod + 2)
  BY <1>1, <1>2, RememberIs
<1>3. mem \in MemorySet
  BY <1>a DEF Remembered
<1>4. PICK p \in Seq(Nat) : p = mem.prices
  BY <1>3 DEF MemorySet
<1>5. PICK judged : judged = Judge(mem, BandReading(p), FALSE)
  OBVIOUS
<1>6. /\ ~(Len(p) < BbPeriod) /\ Below(Deviations, BandReading(p))
      /\ Thunderbird(old, q).mem = judged.mem
  BY <1>1, <1>4, <1>5 DEF Thunderbird, Nothing, Result
<1>7. Len(p) >= BbPeriod
  BY <1>2, <1>6
<1>8. judged.mem.prices = p
  BY <1>3, <1>4, <1>5, <1>7, BandType, JudgeIs
<1> QED
  BY <1>6, <1>7, <1>8

(* Of the intents of one quote none opposes another.                       *)
Opposed(s) ==
    \E i, j \in 1..Len(s) : /\ s[i].quote = s[j].quote
                            /\ s[i].intent.module = "Firebird"
                            /\ s[j].intent.module = "Thunderbird"
NoneOpposed == ~Opposed(Made)

(* No quote has intents of both modules: with the quote in hand the two    *)
(* windows are the ends of one tape.                                       *)
LEMMA NotBothOnQuote ==
    ASSUME BandIsWide, WiringTypes, ModuleTypes, WindowInv, WindowInv', ModulesOnQuote,
           NEW k, k = cursor["modules"] + 1,
           Results(k)["Firebird"].intents # <<>>, Results(k)["Thunderbird"].intents # <<>>
    PROVE  FALSE
<1>1. PICK q \in QuoteSet : q = published[k]
  BY OnQuoteStep
<1>2. PICK R : R = Results(k)
  OBVIOUS
<1>3. /\ memory' = [m \in Modules |-> [memory[m] EXCEPT ![q.symbol] = R[m].mem]]
      /\ \A m \in Modules : ResultOf(m, memory[m][q.symbol], q, R[m])
  BY <1>1, <1>2, OnQuoteStep
<1>4. "Firebird" \in Modules /\ "Thunderbird" \in Modules
  BY DEF Modules
<1>5. PICK s \in Symbols : s = q.symbol
  BY DEF QuoteSet
<1>6. ASSUME NEW m \in Modules
      PROVE  /\ memory[m][s] \in MemorySet /\ memory'[m][s] = R[m].mem
             /\ R[m] = OnQuote(m, memory[m][s], q) /\ R[m].mem.prices \in Seq(Nat)
  <2>1. memory[m] \in [Symbols -> MemorySet]
    BY DEF ModuleTypes
  <2>2. memory'[m] = [memory[m] EXCEPT ![s] = R[m].mem]
    BY <1>3, <1>5
  <2>3. memory'[m][s] = R[m].mem
    BY <2>1, <2>2
  <2>4. R[m] = OnQuote(m, memory[m][s], q)
    BY <1>1, <1>2, <1>5 DEF Results
  <2>5. R[m].mem.prices \in Seq(Nat)
    BY <1>3 DEF ResultOf, MemorySet
  <2> QED
    BY <2>1, <2>3, <2>4, <2>5
<1>7. R["Firebird"] = Firebird(memory["Firebird"][s], q)
  BY <1>4, <1>6 DEF OnQuote
<1>8. R["Thunderbird"] = Thunderbird(memory["Thunderbird"][s], q)
  BY <1>4, <1>6 DEF OnQuote
<1>9. PICK low \in Seq(Nat), high \in Seq(Nat) :
         low = R["Firebird"].mem.prices /\ high = R["Thunderbird"].mem.prices
  BY <1>4, <1>6
<1>10. Len(low) >= RsiPeriod + 1 /\ Below(RsiOf(low), <<3, 10>>)
  <2>1. memory["Firebird"][s] \in MemorySet
    BY <1>4, <1>6
  <2>2. Firebird(memory["Firebird"][s], q).intents # <<>>
    BY <1>2, <1>7
  <2> QED
    BY <1>7, <1>9, <2>1, <2>2, FirebirdBuysLow
<1>11. Len(high) >= BbPeriod /\ Below(Deviations, BandReading(high))
  <2>1. memory["Thunderbird"][s] \in MemorySet
    BY <1>4, <1>6
  <2>2. Thunderbird(memory["Thunderbird"][s], q).intents # <<>>
    BY <1>2, <1>8
  <2> QED
    BY <1>8, <1>9, <2>1, <2>2, ThunderbirdSellsHigh
<1>12. PICK tape : tape = Lasts(Tape(s)')
  OBVIOUS
<1>13. tape \in Seq(Nat)
  <2>1. Tape(s) \in Seq(QuoteSet) /\ Tape(s)' = Append(Tape(s), q)
    <3>1. q = published[cursor["modules"] + 1] /\ q.symbol = s
      BY <1>1, <1>5
    <3> QED
      BY <3>1, TapeGrows
  <2>2. PICK t \in Seq(QuoteSet) : t = Tape(s) /\ Tape(s)' = Append(t, q)
    BY <2>1
  <2>3. Lasts(t) \in Seq(Nat) /\ q.last \in Nat /\ Lasts(Append(t, q)) = Append(Lasts(t), q.last)
    BY FieldsOfLonger
  <2>4. Append(Lasts(t), q.last) \in Seq(Nat)
    BY <2>3
  <2> QED
    BY <1>12, <2>2, <2>3, <2>4
<1>14. IsLatest(low, tape, RsiPeriod + 2) /\ IsLatest(high, tape, BbPeriod + 2)
  <2>1. PriceCap("Firebird") = RsiPeriod + 2 /\ PriceCap("Thunderbird") = BbPeriod + 2
    BY DEF PriceCap
  <2> QED
    BY <1>4, <1>6, <1>9, <1>12, <2>1 DEF WindowInv
<1> QED
  BY <1>10, <1>11, <1>13, <1>14, NotBoth

(* One window never makes Firebird buy and Thunderbird sell. *)
LEMMA OnQuoteOpposesNothing ==
    ASSUME BandIsWide, WiringTypes, ModuleTypes, WindowInv, WindowInv', SignalInv,
           NoneOpposed, ModulesOnQuote
    PROVE  NoneOpposed'
<1>1. PICK k : k = cursor["modules"] + 1
  OBVIOUS
<1>2. PICK R : R = Results(k)
  OBVIOUS
<1>3. k \in Nat /\ OneEach(R) /\ outbox' = InModuleOrder(R, k)
  BY <1>1, <1>2, OnQuoteStep
<1>4. PICK out : out = InModuleOrder(R, k)
  OBVIOUS
<1>5. outbox = <<>> /\ sent' = sent /\ outbox' = out
  BY <1>3, <1>4 DEF SignalInv, ModulesOnQuote
<1>6. /\ sent \in Seq(SentSet) /\ out \in Seq(SentSet)
      /\ \A i \in 1..Len(out) : out[i].quote = k
      /\ \A m \in Modules : NoneOrOne(out, m, Len(R[m].intents))
  BY <1>3, <1>4, OutboxIs DEF ModuleTypes
<1>7. Made = sent /\ Made' = sent \o out
  BY <1>5, <1>6 DEF Made
<1>8. PICK a, b, x : a = Len(sent) /\ b = Len(out) /\ x = sent \o out
  OBVIOUS
<1>9. /\ a \in Nat /\ b \in Nat /\ Len(x) = a + b /\ \A i \in 1..a : x[i] = sent[i]
      /\ \A i \in 1..b : x[a + i] = out[i]
  <2>1. sent \in Seq(SentSet) /\ out \in Seq(SentSet)
    BY <1>6
  <2>2. /\ sent \o out \in Seq(SentSet) /\ Len(sent \o out) = Len(sent) + Len(out)
        /\ \A i \in 1..Len(sent) : (sent \o out)[i] = sent[i]
        /\ \A i \in 1..Len(out) : (sent \o out)[Len(sent) + i] = out[i]
    BY <2>1, ConcatIs
  <2>3. Len(sent) \in Nat /\ Len(out) \in Nat
    BY <2>1
  <2> QED
    BY <1>8, <2>2, <2>3
<1>10. \A i \in 1..a : sent[i].quote < k
  <2>1. \A i \in 1..a : sent[i] \in SentSet
    BY <1>6, <1>8
  <2>2. \A i \in 1..a : sent[i].quote \in Nat /\ sent[i].quote <= cursor["modules"]
    BY <1>7, <1>8, <2>1 DEF SignalInv, SentSet
  <2>3. cursor["modules"] \in Nat
    BY DEF WiringTypes, Readers
  <2> QED
    BY <1>1, <2>2, <2>3
<1>11. ASSUME NEW i \in 1..Len(x)
       PROVE  \/ i \in 1..a /\ x[i] = sent[i] /\ x[i].quote < k
              \/ \E n \in 1..b : x[i] = out[n] /\ x[i].quote = k
  <2>1. CASE i <= a
    BY <1>9, <1>10, <2>1
  <2>2. CASE ~(i <= a)
    <3>1. PICK n \in 1..b : i = a + n
      <4>1. i - a \in 1..b /\ i = a + (i - a)
        BY <1>9, <2>2
      <4> QED
        BY <4>1
    <3> QED
      BY <1>6, <1>8, <1>9, <3>1
  <2> QED
    BY <2>1, <2>2
<1>12. ASSUME NEW i \in 1..Len(x), NEW j \in 1..Len(x), x[i].quote = x[j].quote,
              x[i].intent.module = "Firebird", x[j].intent.module = "Thunderbird"
       PROVE  FALSE
  <2>1. CASE i \in 1..a /\ x[i] = sent[i] /\ x[i].quote < k
    <3>1. j \in 1..a /\ x[j] = sent[j]
      <4>1. x[j].quote # k
        BY <1>3, <1>12, <2>1
      <4> QED
        BY <1>11, <4>1
    <3> QED
      BY <1>7, <1>8, <1>12, <2>1, <3>1 DEF NoneOpposed, Opposed
  <2>2. ASSUME NEW n \in 1..b, x[i] = out[n], x[i].quote = k PROVE FALSE
    <3>1. PICK m \in 1..b : x[j] = out[m]
      BY <1>3, <1>11, <1>12, <2>2
    <3>2. out[n].intent.module = "Firebird" /\ out[m].intent.module = "Thunderbird"
      BY <1>12, <2>2, <3>1
    <3>3. "Firebird" \in Modules /\ "Thunderbird" \in Modules
      BY DEF Modules
    <3>4. ASSUME NEW y \in Modules, NEW z \in 1..b, out[z].intent.module = y
          PROVE  R[y].intents # <<>>
      <4> SUFFICES ASSUME R[y].intents = <<>> PROVE FALSE
        OBVIOUS
      <4>1. NoneOrOne(out, y, 0)
        BY <1>6
      <4>2. \A o \in 1..Len(out) : out[o].intent.module # y
        BY <4>1 DEF NoneOrOne
      <4> QED
        BY <1>8, <3>4, <4>2
    <3>5. R["Firebird"].intents # <<>> /\ R["Thunderbird"].intents # <<>>
      BY <3>2, <3>3, <3>4
    <3> QED
      BY <1>1, <1>2, <3>5, NotBothOnQuote
  <2> QED
    BY <1>11, <2>1, <2>2
<1> QED
  BY <1>7, <1>8, <1>12 DEF NoneOpposed, Opposed

(* No step makes two opposed reversals of one quote. *)
LEMMA NextOpposed ==
    /\ BandIsWide /\ WiringTypes /\ ModuleTypes /\ WindowInv /\ SignalInv /\ NoneOpposed
    /\ [MarketNext]_marketVars
    => NoneOpposed'
<1> SUFFICES ASSUME BandIsWide, WiringTypes, ModuleTypes, WindowInv, SignalInv, NoneOpposed,
                    [MarketNext]_marketVars
             PROVE  NoneOpposed'
  OBVIOUS
<1>1. CASE ModulesOnQuote
  BY <1>1, NextWindows, OnQuoteOpposesNothing
<1>2. CASE SendIntent
  BY <1>2, SendMakesNothing DEF NoneOpposed
<1>3. CASE ModulesPublish
  BY <1>3 DEF ModulesPublish, NoneOpposed, Made
<1>4. CASE Sources
  BY <1>4, SourcesStep DEF OthersThanSources, moduleVars, NoneOpposed, Made
<1>5. CASE StateLoop \/ ModuleLag \/ GateTakes \/ UNCHANGED marketVars
  BY <1>5 DEF StateLoop, StateLag, StateQuote, ModuleLag, Lagged, GateTakes, marketVars,
              moduleVars, NoneOpposed, Made
<1> QED
  BY <1>1, <1>2, <1>3, <1>4, <1>5 DEF MarketNext, ModuleLoop

(* The invariant is the property: no two intents of one quote oppose each other. *)
LEMMA OpposedAre == ModuleTypes /\ NoneOpposed => NoOpposedReversals
<1> SUFFICES ASSUME ModuleTypes, NoneOpposed, NEW i \in DOMAIN sent, NEW j \in DOMAIN sent,
                    sent[i].quote = sent[j].quote, sent[i].intent.module = "Firebird",
                    sent[j].intent.module = "Thunderbird"
             PROVE  FALSE
  BY DEF NoOpposedReversals
<1>1. sent \in Seq(SentSet) /\ outbox \in Seq(SentSet) /\ DOMAIN sent = 1..Len(sent)
  BY DEF ModuleTypes
<1>2. /\ Len(sent \o outbox) = Len(sent) + Len(outbox)
      /\ \A n \in 1..Len(sent) : (sent \o outbox)[n] = sent[n]
  BY <1>1, ConcatIs
<1>3. i \in 1..Len(Made) /\ j \in 1..Len(Made) /\ Made[i] = sent[i] /\ Made[j] = sent[j]
  BY <1>1, <1>2 DEF Made
<1> QED
  BY <1>3 DEF NoneOpposed, Opposed

(* No quote makes Firebird buy a symbol and Thunderbird sell it short, as  *)
(* long as the band is wide for its period: which the code's own periods   *)
(* and deviations only just make true.                                     *)
THEOREM ReversalsNeverOppose == BandIsWide /\ MarketSpec => []NoOpposedReversals
<1> SUFFICES ASSUME BandIsWide PROVE MarketSpec => []NoOpposedReversals
  OBVIOUS
<1>1. MarketInit => WiringTypes /\ ModuleTypes /\ WindowInv /\ SignalInv /\ NoneOpposed
  <2>1. MarketInit => NoneOpposed
    BY DEF MarketInit, NoneOpposed, Made, Opposed
  <2> QED
    BY <2>1, InitWiring, InitModules, InitWindows, InitSignals
<1>2. /\ WiringTypes /\ ModuleTypes /\ WindowInv /\ SignalInv /\ NoneOpposed
      /\ [MarketNext]_marketVars
      => WiringTypes' /\ ModuleTypes' /\ WindowInv' /\ SignalInv' /\ NoneOpposed'
  BY NextWiring, NextModules, NextWindows, NextSignals, NextOpposed
<1>3. ModuleTypes /\ NoneOpposed => NoOpposedReversals
  BY OpposedAre
<1> QED
  BY <1>1, <1>2, <1>3, PTL DEF MarketSpec
=============================================================================
