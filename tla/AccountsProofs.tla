---------------------------- MODULE AccountsProofs ----------------------------
(***************************************************************************)
(* What TLAPS proves of the account books, for any fills, prices, days and *)
(* limits: the wash-sale and day-trade windows, the harvests, the cash.    *)
(***************************************************************************)
EXTENDS Accounts, SumTheorems, FiniteSetTheorems

-----------------------------------------------------------------------------
(* The inductive invariant, one part for each book.                        *)

Fills == [symbol : Symbols, qty : Int, price : Int, commission : Int, day : Nat]

(* The quantity of a symbol after n of the fills, and what one fill cost.  *)
HeldOf(fs, s, n) == SumOf([k \in 1..n |-> IF fs[k].symbol = s THEN fs[k].qty ELSE 0])
CostOf(fs, n) ==
    IF HeldOf(fs, fs[n].symbol, n - 1) # 0 /\ HeldOf(fs, fs[n].symbol, n) = 0 THEN 0
    ELSE fs[n].price * fs[n].qty + fs[n].commission

(* The position is what the fills add up to, and cash what they cost.      *)
LedgerKept ==
    /\ fills \in Seq(Fills) /\ records \in Seq(Int)
    /\ positions \in [Symbols -> [qty : Int, avg : Int]]
    /\ cash \in Int /\ realized = SumOf(records)
    /\ \A s \in Symbols : positions[s].qty = HeldOf(fills, s, Len(fills))
    /\ cash = StartingCapital - SumOf([n \in 1..Len(fills) |-> CostOf(fills, n)])

Entries == [order : Nat, amount : Nat, status : {"PendingSettlement", "Cancelled"}]
Received == [kind : {"HarvestReceived"}, amount : Nat]

Gains(seq) == SumOf([k \in 1..Len(seq) |-> IF seq[k] > 0 THEN seq[k] ELSE 0])
Queued(q) == SumOf([k \in 1..Len(q) |-> q[k].amount])
MovedOf(q, M) == SumOf([k \in 1..Len(q) |-> IF k \in M THEN q[k].amount ELSE 0])

(* All that was ever queued, cancelled or not, is within the gains; the    *)
(* vault holds what was moved of it.                                       *)
HarvestsKept ==
    /\ records \in Seq(Int) /\ queue \in Seq(Entries) /\ events \in Seq(Received)
    /\ moved \subseteq 1..Len(queue)
    /\ carousel \in Int /\ carousel <= 150 * Gains(records)
    /\ Queued(queue) <= 300 * Gains(records)
    /\ vault = MovedOf(queue, moved)
    /\ vault = SumOf([k \in 1..Len(events) |-> events[k].amount])

(* Pruning let go only of losses that are past the window for good.        *)
LossesKept ==
    /\ today \in Nat
    /\ losses \subseteq closedAtLoss /\ closedAtLoss \subseteq Symbols \X (0..today)
    /\ \A l \in closedAtLoss : l[2] >= today - WashDays => l \in losses

(* The tracker holds the days of the last trades, which are in order.      *)
TradesKept ==
    /\ today \in Nat
    /\ traded \in Seq(Nat) /\ dayTrades \in Seq(Nat)
    /\ Len(dayTrades) <= Len(traded) /\ Len(dayTrades) <= DayTradeCap
    /\ Len(dayTrades) < Len(traded) => Len(dayTrades) = DayTradeCap
    /\ \A k \in 1..Len(dayTrades) :
          dayTrades[k] = traded[Len(traded) - Len(dayTrades) + k]
    /\ \A j, k \in 1..Len(traded) : j <= k => traded[j] <= traded[k]
    /\ \A k \in 1..Len(traded) : traded[k] <= today

AccountsInv == LedgerKept /\ HarvestsKept /\ LossesKept /\ TradesKept

-----------------------------------------------------------------------------
(* Small facts.                                                            *)

(* The lesser of two integers is an integer. *)
LEMMA MinOfTwo ==
    ASSUME NEW a \in Int, NEW b \in Int
    PROVE  Min({a, b}) \in Int
<1>1. \E x \in {a, b} : \A y \in {a, b} : x =< y
  OBVIOUS
<1> QED
  BY <1>1 DEF Min

(* The larger of two is one of them.                                       *)
LEMMA MaxOfTwo ==
    ASSUME NEW a \in Int, NEW b \in Int
    PROVE  Max({a, b}) \in {a, b}
<1>1. \E x \in {a, b} : \A y \in {a, b} : x >= y
  OBVIOUS
<1> QED
  BY <1>1 DEF Max

(* The sum of one record is that record.                                   *)
LEMMA SumOfOne == ASSUME NEW x \in Int PROVE SumOf(<<x>>) = x
<1>1. <<>> \in Seq(Int) /\ Append(<<>>, x) = <<x>>
  OBVIOUS
<1>2. SumOf(Append(<<>>, x)) = SumOf(<<>>) + x
  BY <1>1, SumOfAppend
<1> QED
  BY <1>1, <1>2, SumOfNone

(* Adding at the end keeps what was there.                                 *)
LEMMA Appended ==
    ASSUME NEW S, NEW s \in Seq(S), NEW x \in S, NEW t, t = Append(s, x)
    PROVE  /\ t \in Seq(S) /\ Len(t) = Len(s) + 1 /\ Len(s) \in Nat
           /\ t[Len(s) + 1] = x
           /\ \A k \in 1..Len(s) : t[k] = s[k]
  OBVIOUS

(* A record, or none, at the end.                                          *)
LEMMA OneOrNone ==
    ASSUME NEW S, NEW s \in Seq(S), NEW x \in S
    PROVE  s \o <<>> = s /\ s \o <<x>> = Append(s, x)
<1>1. <<>> \in Seq(S) /\ <<x>> \in Seq(S) /\ Len(<<>>) = 0 /\ Len(<<x>>) = 1 /\ <<x>>[1] = x
  OBVIOUS
<1>2. s \o <<x>> = Append(s, x)
  BY <1>1, AppendIsConcat
<1>3. s \o <<>> = s
  BY <1>1, ConcatEmptySeq
<1> QED
  BY <1>2, <1>3

-----------------------------------------------------------------------------
(* What a fill does to a position.                                         *)

Held2 == [qty : Int, avg : Int]

(* A record has one realized figure or none.                               *)
LEMMA RealizedIs ==
    ASSUME NEW pos \in Held2, NEW f \in Fills
    PROVE  Realized(pos, f) = <<>> \/ \E x \in Int : Realized(pos, f) = <<x>>
<1>1. PICK q \in Int, a \in Int, n \in Int, p \in Int, c \in Int :
         q = pos.qty /\ a = pos.avg /\ n = f.qty /\ p = f.price /\ c = f.commission
  BY DEF Held2, Fills
<1>2. Abs(n) \in Int /\ Abs(q) \in Int
  BY <1>1 DEF Abs
<1>3. PICK m \in Int : m = Min({Abs(n), Abs(q)})
  BY <1>2, MinOfTwo
<1>4. PICK z \in Int : z = (p - a) * m * (IF q < 0 THEN -1 ELSE 1)
  BY <1>1, <1>3
<1>5. Profit(pos, Min({Abs(f.qty), Abs(pos.qty)}), f.price) = z
  BY <1>1, <1>3, <1>4 DEF Profit
<1>6. z - c \in Int
  BY <1>1, <1>4
<1> QED
  BY <1>1, <1>5, <1>6 DEF Realized

(* In each of its branches apply_fill adds the fill to the quantity.       *)
LEMMA FilledIs ==
    ASSUME NEW pos \in Held2, NEW f \in Fills
    PROVE  Filled(pos, f) \in Held2 /\ Filled(pos, f).qty = pos.qty + f.qty
<1>1. PICK q \in Int, a \in Int, n \in Int, p \in Int :
         q = pos.qty /\ a = pos.avg /\ n = f.qty /\ p = f.price /\ pos = [qty |-> q, avg |-> a]
  BY DEF Held2, Fills
<1>2. CASE Opens(pos)
  BY <1>1, <1>2 DEF Filled, Opens, Position, Held2
<1>3. CASE ~Opens(pos) /\ Closes(pos, f)
  BY <1>1, <1>3 DEF Filled, Opens, Closes, NoPosition, Held2
<1>4. CASE ~Opens(pos) /\ ~Closes(pos, f) /\ Reduces(pos, f)
  <2>1. Filled(pos, f) = [qty |-> q + n, avg |-> a]
    BY <1>1, <1>4 DEF Filled
  <2> QED
    BY <1>1, <2>1 DEF Held2
<1>5. CASE ~Opens(pos) /\ ~Closes(pos, f) /\ ~Reduces(pos, f)
  <2>1. q + n # 0
    BY <1>1, <1>5 DEF Opens, Closes
  <2>2. PICK d \in Nat : d = Abs(q + n) /\ d # 0
    BY <1>1, <2>1 DEF Abs
  <2>3. PICK u \in Int, v \in Int : u = Abs(q) /\ v = Abs(n)
    BY <1>1 DEF Abs
  <2>4. a * u + p * v \in Int
    BY <1>1, <2>3
  <2>5. (a * u + p * v) \div d \in Int
    BY <2>2, <2>4
  <2>6. AverageEntry(pos, f) \in Int
    BY <1>1, <2>2, <2>3, <2>5 DEF AverageEntry
  <2>7. Filled(pos, f) = [qty |-> q + n, avg |-> AverageEntry(pos, f)]
    BY <1>1, <1>5 DEF Filled, Position
  <2> QED
    BY <1>1, <2>6, <2>7 DEF Held2
<1> QED
  BY <1>2, <1>3, <1>4, <1>5

(* A further fill: quantities and costs of the earlier ones stay.          *)
LEMMA HeldType ==
    ASSUME NEW fs \in Seq(Fills), NEW s, NEW n \in 0..Len(fs)
    PROVE  /\ HeldOf(fs, s, n) \in Int
           /\ [k \in 1..n |-> IF fs[k].symbol = s THEN fs[k].qty ELSE 0] \in Seq(Int)
<1>1. PICK m \in Nat : m = Len(fs) /\ n \in 0..m
  OBVIOUS
<1>2. \A k \in 1..m : fs[k] \in Fills
  BY <1>1
<1> DEFINE h == [k \in 1..n |-> IF fs[k].symbol = s THEN fs[k].qty ELSE 0]
<1>3. \A k \in 1..n : k \in 1..m
  BY <1>1
<1>4. h \in [1..n -> Int]
  <2>1. ASSUME NEW k \in 1..n PROVE (IF fs[k].symbol = s THEN fs[k].qty ELSE 0) \in Int
    <3>1. fs[k] \in Fills
      BY <1>2, <1>3
    <3>2. fs[k].qty \in Int
      BY <3>1 DEF Fills
    <3> QED
      BY <3>2
  <2> QED
    BY <2>1
<1>5. h \in Seq(Int)
  BY <1>1, <1>4
<1> QED
  BY <1>5, SumType DEF HeldOf

(* A new fill does not change what was held before it.                     *)
LEMMA HeldBefore ==
    ASSUME NEW fs \in Seq(Fills), NEW gs \in Seq(Fills), Len(gs) = Len(fs) + 1,
           \A k \in 1..Len(fs) : gs[k] = fs[k], NEW s, NEW n \in 0..Len(fs)
    PROVE  HeldOf(gs, s, n) = HeldOf(fs, s, n)
<1>1. \A k \in 1..n : k \in 1..Len(fs)
  OBVIOUS
<1>2. [k \in 1..n |-> IF gs[k].symbol = s THEN gs[k].qty ELSE 0]
        = [k \in 1..n |-> IF fs[k].symbol = s THEN fs[k].qty ELSE 0]
  BY <1>1
<1> QED
  BY <1>2 DEF HeldOf

(* One fill more moves what is held of its symbol by its quantity.         *)
LEMMA HeldMoves ==
    ASSUME NEW fs \in Seq(Fills), NEW s, NEW n \in 0..Len(fs) - 1
    PROVE  HeldOf(fs, s, n + 1)
             = HeldOf(fs, s, n) + (IF fs[n + 1].symbol = s THEN fs[n + 1].qty ELSE 0)
<1>1. PICK m \in Nat : m = Len(fs) /\ n \in 0..m - 1
  OBVIOUS
<1>2. n \in 0..m /\ n + 1 \in 0..m /\ n \in Nat
  BY <1>1
<1>3. PICK f \in Seq(Int), g \in Seq(Int) :
         /\ f = [k \in 1..n |-> IF fs[k].symbol = s THEN fs[k].qty ELSE 0]
         /\ g = [k \in 1..n + 1 |-> IF fs[k].symbol = s THEN fs[k].qty ELSE 0]
  BY <1>1, <1>2, HeldType
<1>4. Len(f) = n /\ Len(g) = n + 1
  BY <1>2, <1>3
<1>5. \A k \in 1..n : g[k] = f[k]
  BY <1>2, <1>3
<1>6. g[n + 1] = IF fs[n + 1].symbol = s THEN fs[n + 1].qty ELSE 0
  BY <1>2, <1>3
<1>7. SumOf(g) = SumOf(f) + g[n + 1]
  BY <1>4, <1>5, SumOfExtended
<1> QED
  BY <1>3, <1>6, <1>7 DEF HeldOf

(* What a fill costs is settled by the fills up to it.                     *)
LEMMA CostType ==
    ASSUME NEW fs \in Seq(Fills), NEW n \in 1..Len(fs)
    PROVE  CostOf(fs, n) \in Int
<1>1. fs[n] \in Fills
  OBVIOUS
<1>2. PICK q \in Int, p \in Int, c \in Int : q = fs[n].qty /\ p = fs[n].price /\ c = fs[n].commission
  BY <1>1 DEF Fills
<1>3. p * q + c \in Int
  BY <1>2
<1> QED
  BY <1>2, <1>3 DEF CostOf

(* Nor what an earlier fill cost.                                          *)
LEMMA CostBefore ==
    ASSUME NEW fs \in Seq(Fills), NEW gs \in Seq(Fills), Len(gs) = Len(fs) + 1,
           \A k \in 1..Len(fs) : gs[k] = fs[k], NEW n \in 1..Len(fs)
    PROVE  CostOf(gs, n) = CostOf(fs, n)
<1>1. n - 1 \in 0..Len(fs) /\ n \in 0..Len(fs)
  OBVIOUS
<1>2. gs[n] = fs[n]
  OBVIOUS
<1>3. /\ HeldOf(gs, fs[n].symbol, n - 1) = HeldOf(fs, fs[n].symbol, n - 1)
      /\ HeldOf(gs, fs[n].symbol, n) = HeldOf(fs, fs[n].symbol, n)
  BY <1>1, HeldBefore
<1> QED
  BY <1>2, <1>3 DEF CostOf

(* The costs of the fills are integers.                                    *)
LEMMA CostsType ==
    ASSUME NEW fs \in Seq(Fills)
    PROVE  [n \in 1..Len(fs) |-> CostOf(fs, n)] \in Seq(Int)
<1>1. PICK m \in Nat : m = Len(fs)
  OBVIOUS
<1>2. [n \in 1..m |-> CostOf(fs, n)] \in [1..m -> Int]
  BY <1>1, CostType
<1> QED
  BY <1>1, <1>2

(* The books a fill writes, with the fill, its position and its record.    *)
LEMMA FillFacts ==
    ASSUME AccountsInv, NEW t \in Trades, NEW nlv \in NetLiqs, Fill(t, nlv)
    PROVE  \E f, pos, pnl :
              /\ f \in Fills /\ pos \in Held2
              /\ pos = positions[f.symbol] /\ pnl = Realized(pos, f)
              /\ pnl = <<>> \/ \E x \in Int : pnl = <<x>>
              /\ f.symbol \in Symbols
              /\ fills' = Append(fills, f)
              /\ positions' = [positions EXCEPT ![f.symbol] = Filled(pos, f)]
              /\ cash' = CashAfter(cash, pos, f)
              /\ realized' = realized + SumOf(pnl)
              /\ records' = records \o pnl
              /\ carousel' = carousel
                    + (IF pnl = <<>> THEN 0 ELSE SumOf(CarouselHarvest(pnl[1], nlv)))
              /\ queue' = queue
                    \o (IF pnl = <<>> THEN <<>> ELSE VaultHarvest(Len(fills) + 1, pnl[1]))
              /\ \/ /\ losses' = RecordLoss(losses, f.symbol, today, today)
                    /\ closedAtLoss' = closedAtLoss \cup {<<f.symbol, today>>}
                 \/ UNCHANGED <<losses, closedAtLoss>>
              /\ \/ /\ dayTrades' = RecordDayTrade(dayTrades, today)
                    /\ traded' = Append(traded, today)
                 \/ UNCHANGED <<dayTrades, traded>>
              /\ UNCHANGED <<today, vault, events, moved>>
<1>1. PICK f : f = [symbol |-> t.symbol, qty |-> t.qty, price |-> t.price,
                    commission |-> Commission, day |-> today]
  OBVIOUS
<1>2. f \in Fills /\ f.symbol \in Symbols
  <2>1. t \in [symbol : Symbols, qty : Int, price : Int] /\ Commission \in Int
    BY AccountsAssumption
  <2>2. today \in Nat
    BY DEF AccountsInv, LossesKept
  <2> QED
    BY <1>1, <2>1, <2>2 DEF Fills
<1>3. PICK pos \in Held2 : pos = positions[f.symbol]
  BY <1>2 DEF AccountsInv, LedgerKept, Held2
<1>4. PICK pnl : pnl = Realized(pos, f)
  OBVIOUS
<1>5. pnl = <<>> \/ \E x \in Int : pnl = <<x>>
  BY <1>2, <1>4, RealizedIs
<1>6. /\ fills' = Append(fills, f)
      /\ positions' = [positions EXCEPT ![f.symbol] = Filled(pos, f)]
      /\ cash' = CashAfter(cash, pos, f)
      /\ realized' = realized + SumOf(pnl)
      /\ records' = records \o pnl
      /\ carousel' = carousel
            + (IF pnl = <<>> THEN 0 ELSE SumOf(CarouselHarvest(pnl[1], nlv)))
      /\ queue' = queue
            \o (IF pnl = <<>> THEN <<>> ELSE VaultHarvest(Len(fills) + 1, pnl[1]))
      /\ IF pnl # <<>> /\ pnl[1] < 0
         THEN /\ losses' = RecordLoss(losses, f.symbol, today, today)
              /\ closedAtLoss' = closedAtLoss \cup {<<f.symbol, today>>}
         ELSE UNCHANGED <<losses, closedAtLoss>>
      /\ IF IsDayTrade(f)
         THEN /\ dayTrades' = RecordDayTrade(dayTrades, today)
              /\ traded' = Append(traded, today)
         ELSE UNCHANGED <<dayTrades, traded>>
      /\ UNCHANGED <<today, vault, events, moved>>
  BY <1>1, <1>3, <1>4, Zenon DEF Fill
<1>7. \/ /\ losses' = RecordLoss(losses, f.symbol, today, today)
         /\ closedAtLoss' = closedAtLoss \cup {<<f.symbol, today>>}
      \/ UNCHANGED <<losses, closedAtLoss>>
  BY <1>6, Zenon
<1>8. \/ /\ dayTrades' = RecordDayTrade(dayTrades, today)
         /\ traded' = Append(traded, today)
      \/ UNCHANGED <<dayTrades, traded>>
  BY <1>6, Zenon
<1> QED
  BY <1>2, <1>3, <1>4, <1>5, <1>6, <1>7, <1>8, Zenon

-----------------------------------------------------------------------------
(* The ledger.                                                             *)
LEMMA LedgerStep ==
    ASSUME AccountsInv, NEW f \in Fills, NEW pos \in Held2, NEW pnl, f.symbol \in Symbols,
           pos = positions[f.symbol],
           pnl = <<>> \/ \E x \in Int : pnl = <<x>>,
           fills' = Append(fills, f),
           positions' = [positions EXCEPT ![f.symbol] = Filled(pos, f)],
           cash' = CashAfter(cash, pos, f),
           realized' = realized + SumOf(pnl),
           records' = records \o pnl
    PROVE  LedgerKept'
<1>1. PICK fs \in Seq(Fills), gs \in Seq(Fills), m \in Nat :
         /\ fs = fills /\ gs = fills' /\ m = Len(fs) /\ Len(gs) = m + 1 /\ gs[m + 1] = f
         /\ \A k \in 1..m : gs[k] = fs[k]
  <2>1. fills \in Seq(Fills)
    BY DEF AccountsInv, LedgerKept
  <2>2. /\ fills' \in Seq(Fills) /\ Len(fills') = Len(fills) + 1 /\ Len(fills) \in Nat
        /\ fills'[Len(fills) + 1] = f
        /\ \A k \in 1..Len(fills) : fills'[k] = fills[k]
    BY <2>1, Appended
  <2> QED
    BY <2>1, <2>2
<1>2. PICK q \in Int, n \in Int, p \in Int, c \in Int :
         q = pos.qty /\ n = f.qty /\ p = f.price /\ c = f.commission
  BY DEF Held2, Fills
<1>3. records' \in Seq(Int) /\ realized' = SumOf(records')
  <2>1. records \in Seq(Int) /\ realized = SumOf(records) /\ SumOf(records) \in Int
    BY SumType DEF AccountsInv, LedgerKept
  <2>2. CASE pnl = <<>>
    <3>1. records' = records
      BY <2>1, <2>2, ConcatEmptySeq
    <3> QED
      BY <2>1, <2>2, <3>1, SumOfNone
  <2>3. ASSUME NEW x \in Int, pnl = <<x>> PROVE records' \in Seq(Int) /\ realized' = SumOf(records')
    <3>1. records' = Append(records, x)
      BY <2>1, <2>3, OneOrNone
    <3>2. Append(records, x) \in Seq(Int)
      BY <2>1
    <3>3. SumOf(Append(records, x)) = SumOf(records) + x /\ SumOf(<<x>>) = x
      BY <2>1, SumOfAppend, SumOfOne
    <3> QED
      BY <2>1, <2>3, <3>1, <3>2, <3>3
  <2> QED
    BY <2>2, <2>3
<1>4. Filled(pos, f) \in Held2 /\ Filled(pos, f).qty = q + n
  BY <1>2, FilledIs
<1>5. positions \in [Symbols -> Held2] /\ positions' \in [Symbols -> Held2]
  BY <1>4 DEF AccountsInv, LedgerKept, Held2
<1>6. \A s \in Symbols : positions[s].qty = HeldOf(fs, s, m)
  BY <1>1 DEF AccountsInv, LedgerKept
<1>7. m \in 0..Len(fs) /\ m \in 0..Len(gs) - 1
  BY <1>1
<1>8. ASSUME NEW s \in Symbols
      PROVE  HeldOf(gs, s, m) = HeldOf(fs, s, m) /\ HeldOf(fs, s, m) \in Int
  <2>1. Len(gs) = Len(fs) + 1 /\ \A k \in 1..Len(fs) : gs[k] = fs[k]
    BY <1>1
  <2>2. HeldOf(gs, s, m) = HeldOf(fs, s, m)
    <3>1. fs \in Seq(Fills) /\ gs \in Seq(Fills) /\ m \in 0..Len(fs)
      BY <1>1, <1>7
    <3> QED
      BY <2>1, <3>1, HeldBefore, Zenon
  <2> QED
    BY <1>1, <1>7, <2>2, HeldType
<1>9. ASSUME NEW s \in Symbols
      PROVE  HeldOf(gs, s, m + 1) = HeldOf(gs, s, m) + (IF f.symbol = s THEN n ELSE 0)
  <2>1. HeldOf(gs, s, m + 1)
          = HeldOf(gs, s, m) + (IF gs[m + 1].symbol = s THEN gs[m + 1].qty ELSE 0)
    <3>1. gs \in Seq(Fills) /\ m \in 0..Len(gs) - 1
      BY <1>1, <1>7
    <3> QED
      BY <3>1, HeldMoves, Zenon
  <2> QED
    BY <1>1, <1>2, <2>1
<1>10. ASSUME NEW s \in Symbols PROVE positions'[s].qty = HeldOf(gs, s, m + 1)
  <2>1. CASE s = f.symbol
    <3>1. positions'[s] = Filled(pos, f)
      BY <1>5, <2>1
    <3>2. HeldOf(fs, s, m) = q
      BY <1>2, <1>6, <2>1
    <3> QED
      BY <1>4, <1>8, <1>9, <2>1, <3>1, <3>2
  <2>2. CASE s # f.symbol
    <3>1. positions'[s] = positions[s]
      BY <1>5, <2>2
    <3> QED
      BY <1>6, <1>8, <1>9, <2>2, <3>1
  <2> QED
    BY <2>1, <2>2
<1>11. PICK cs \in Seq(Int), ds \in Seq(Int) :
          /\ cs = [k \in 1..Len(fs) |-> CostOf(fs, k)] /\ ds = [k \in 1..Len(gs) |-> CostOf(gs, k)]
  BY CostsType
<1>12. Len(cs) = m /\ Len(ds) = m + 1 /\ \A k \in 1..m : ds[k] = cs[k]
  <2>1. \A k \in 1..m : CostOf(gs, k) = CostOf(fs, k)
    BY <1>1, CostBefore
  <2>2. Len(cs) = m /\ Len(ds) = m + 1
    BY <1>1, <1>11
  <2>3. \A k \in 1..m : k \in 1..m + 1
    OBVIOUS
  <2> QED
    BY <1>1, <1>11, <2>1, <2>2, <2>3
<1>13. ds[m + 1] = IF Closes(pos, f) THEN 0 ELSE p * n + c
  <2>1. ds[m + 1] = CostOf(gs, m + 1) /\ (m + 1) - 1 = m
    BY <1>1, <1>11
  <2>2. HeldOf(gs, f.symbol, m) = q /\ HeldOf(gs, f.symbol, m + 1) = q + n
    BY <1>2, <1>6, <1>8, <1>9
  <2>3. CostOf(gs, m + 1) = IF q # 0 /\ q + n = 0 THEN 0 ELSE p * n + c
    BY <1>1, <1>2, <2>1, <2>2 DEF CostOf
  <2> QED
    BY <1>2, <2>1, <2>3 DEF Closes
<1>14. SumOf(ds) = SumOf(cs) + ds[m + 1] /\ ds[m + 1] \in Int /\ SumOf(cs) \in Int
  BY <1>12, SumOfExtended, SumType
<1>15. cash = StartingCapital - SumOf(cs) /\ StartingCapital \in Int
  BY <1>1, <1>11, AccountsAssumption DEF AccountsInv, LedgerKept
<1>16. PICK d \in Int, e \in Int : d = SumOf(cs) /\ e = ds[m + 1]
  BY <1>14
<1>17. cash' = cash - e
  <2>1. cash' = IF Closes(pos, f) THEN cash ELSE cash - (p * n + c)
    BY <1>2 DEF CashAfter
  <2>2. CASE Closes(pos, f)
    BY <1>13, <1>15, <1>16, <2>1, <2>2
  <2>3. CASE ~Closes(pos, f)
    BY <1>13, <1>16, <2>1, <2>3
  <2> QED
    BY <2>2, <2>3
<1>18. cash' \in Int /\ cash' = StartingCapital - SumOf(ds)
  <2>1. PICK h \in Int : h = StartingCapital
    BY <1>15
  <2>2. (h - d) - e = h - (d + e) /\ (h - d) - e \in Int
    BY <1>16, <2>1
  <2> QED
    BY <1>14, <1>15, <1>16, <1>17, <2>1, <2>2
<1> QED
  BY <1>1, <1>3, <1>5, <1>10, <1>11, <1>18 DEF LedgerKept, Held2

-----------------------------------------------------------------------------
(* The harvests.                                                           *)

Gain(x) == IF x > 0 THEN x ELSE 0

(* Carousel's rate is 15 % at most.                                        *)
LEMMA RateIs ==
    ASSUME NEW n \in Int
    PROVE  EffectiveRate(n) \in 0..150
<1>1. CASE n <= 25000
  BY <1>1 DEF EffectiveRate
<1>2. CASE ~(n <= 25000)
  <2>1. n \in Nat /\ n > 25000 /\ 150 * 25000 = 3750000
    BY <1>2
  <2>2. PICK q \in Int : q = 3750000 \div n
    BY <2>1
  <2>3. q \in 0..150
    <3>1. PICK r \in 0..n - 1 : 3750000 = n * q + r
      BY <2>1, <2>2
    <3>2. ASSUME q >= 151 PROVE FALSE
      <4>1. n * q >= n * 151
        BY <2>1, <3>2
      <4> QED
        BY <2>1, <3>1, <4>1
    <3>3. ASSUME q <= -1 PROVE FALSE
      <4>1. n * q <= n * (-1)
        BY <2>1, <3>3
      <4> QED
        BY <2>1, <3>1, <4>1
    <3> QED
      BY <3>2, <3>3
  <2>4. Max({q, 50}) \in {q, 50}
    BY MaxOfTwo
  <2>5. EffectiveRate(n) = Max({q, 50})
    BY <1>2, <2>1, <2>2 DEF EffectiveRate
  <2> QED
    BY <2>3, <2>4, <2>5
<1> QED
  BY <1>1, <1>2

(* So a harvest of Carousel is at most 15 % of its gain.                   *)
LEMMA CarouselShare ==
    ASSUME NEW x \in Int, NEW n \in Int
    PROVE  SumOf(CarouselHarvest(x, n)) \in Int /\ SumOf(CarouselHarvest(x, n)) <= 150 * Gain(x)
<1>1. PICK r \in 0..150 : r = EffectiveRate(n)
  BY RateIs
<1>2. PICK a \in Int : a = x * r
  OBVIOUS
<1>3. CASE x > 0 /\ a >= MinHarvest
  <2>1. CarouselHarvest(x, n) = <<a>>
    BY <1>1, <1>2, <1>3 DEF CarouselHarvest
  <2>2. a <= 150 * x
    BY <1>1, <1>2, <1>3
  <2> QED
    BY <1>3, <2>1, <2>2, SumOfOne DEF Gain
<1>4. CASE ~(x > 0 /\ a >= MinHarvest)
  <2>1. CarouselHarvest(x, n) = <<>>
    BY <1>1, <1>2, <1>4 DEF CarouselHarvest
  <2>2. 0 <= 150 * Gain(x)
    BY DEF Gain
  <2> QED
    BY <2>1, <2>2, SumOfNone
<1> QED
  BY <1>3, <1>4

(* The Vault's is 30 %, of a gain.                                         *)
LEMMA VaultShare ==
    ASSUME NEW x \in Int, NEW o \in Nat
    PROVE  \/ VaultHarvest(o, x) = <<>>
           \/ \E e \in Entries : VaultHarvest(o, x) = <<e>> /\ x > 0 /\ e.amount = 300 * x
<1>1. PICK a \in Int : a = x * 300
  OBVIOUS
<1>2. CASE x > 0 /\ a >= GravityWell
  <2>1. PICK e : e = [order |-> o, amount |-> a, status |-> "PendingSettlement"]
    OBVIOUS
  <2>2. VaultHarvest(o, x) = <<e>>
    BY <1>1, <1>2, <2>1 DEF VaultHarvest
  <2>3. a \in Nat /\ a = 300 * x
    BY <1>1, <1>2
  <2> QED
    BY <1>2, <2>1, <2>2, <2>3 DEF Entries
<1>3. CASE ~(x > 0 /\ a >= GravityWell)
  BY <1>1, <1>3 DEF VaultHarvest
<1> QED
  BY <1>2, <1>3

(* The sums over records and queue when one is added.                      *)
LEMMA GainsMove ==
    ASSUME NEW s \in Seq(Int), NEW x \in Int
    PROVE  /\ Gains(s) \in Int /\ Gains(Append(s, x)) = Gains(s) + Gain(x)
<1>0. PICK t : t = Append(s, x)
  OBVIOUS
<1>a. /\ t \in Seq(Int) /\ Len(t) = Len(s) + 1 /\ Len(s) \in Nat
      /\ t[Len(s) + 1] = x /\ \A k \in 1..Len(s) : t[k] = s[k]
  BY <1>0
<1>1. PICK n \in Nat : /\ n = Len(s) /\ t = Append(s, x) /\ t \in Seq(Int) /\ Len(t) = n + 1
                      /\ t[n + 1] = x /\ \A k \in 1..n : t[k] = s[k]
  BY <1>0, <1>a, Zenon
<1> DEFINE f == [k \in 1..n |-> IF s[k] > 0 THEN s[k] ELSE 0]
           g == [k \in 1..n + 1 |-> IF t[k] > 0 THEN t[k] ELSE 0]
<1>2. f \in Seq(Int) /\ Len(f) = n
  <2>1. f \in [1..n -> Int]
    BY <1>1
  <2> QED
    BY <2>1
<1>3. g \in Seq(Int) /\ Len(g) = n + 1
  <2>1. g \in [1..n + 1 -> Int]
    BY <1>1
  <2> QED
    BY <2>1
<1>4. \A k \in 1..n : g[k] = f[k]
  BY <1>1
<1>5. g[n + 1] = Gain(x)
  BY <1>1 DEF Gain
<1>6. Gains(s) = SumOf(f) /\ Gains(Append(s, x)) = SumOf(g)
  BY <1>1 DEF Gains
<1> HIDE DEF f, g
<1>7. SumOf(g) = SumOf(f) + g[n + 1] /\ SumOf(f) \in Int
  BY <1>2, <1>3, <1>4, SumOfExtended, SumType
<1> QED
  BY <1>5, <1>6, <1>7

(* An entry more: its amount is queued, and nothing of it moved.           *)
LEMMA QueuedMoves ==
    ASSUME NEW s \in Seq(Entries), NEW e \in Entries, NEW M, M \subseteq 1..Len(s)
    PROVE  /\ Queued(s) \in Int /\ Queued(Append(s, e)) = Queued(s) + e.amount
           /\ MovedOf(Append(s, e), M) = MovedOf(s, M)
<1>0. PICK t : t = Append(s, e)
  OBVIOUS
<1>a. /\ t \in Seq(Entries) /\ Len(t) = Len(s) + 1 /\ Len(s) \in Nat
      /\ t[Len(s) + 1] = e /\ \A k \in 1..Len(s) : t[k] = s[k]
  BY <1>0
<1>1. PICK n \in Nat : /\ n = Len(s) /\ t = Append(s, e) /\ t \in Seq(Entries) /\ Len(t) = n + 1
                      /\ t[n + 1] = e /\ \A k \in 1..n : t[k] = s[k]
  BY <1>0, <1>a, Zenon
<1> DEFINE f == [k \in 1..n |-> s[k].amount]
           g == [k \in 1..n + 1 |-> t[k].amount]
           h == [k \in 1..n |-> IF k \in M THEN s[k].amount ELSE 0]
           l == [k \in 1..n + 1 |-> IF k \in M THEN t[k].amount ELSE 0]
<1>2. \A k \in 1..n : s[k].amount \in Int
  <2>1. \A k \in 1..n : s[k] \in Entries
    BY <1>1
  <2> QED
    BY <2>1 DEF Entries
<1>3. \A k \in 1..n + 1 : t[k].amount \in Int
  <2>1. \A k \in 1..n + 1 : t[k] \in Entries
    BY <1>1
  <2> QED
    BY <2>1 DEF Entries
<1>4. f \in [1..n -> Int] /\ h \in [1..n -> Int]
  BY <1>2
<1>5. g \in [1..n + 1 -> Int] /\ l \in [1..n + 1 -> Int]
  BY <1>3
<1>6. /\ f \in Seq(Int) /\ Len(f) = n /\ h \in Seq(Int) /\ Len(h) = n
      /\ g \in Seq(Int) /\ Len(g) = n + 1 /\ l \in Seq(Int) /\ Len(l) = n + 1
  BY <1>4, <1>5
<1>7. \A k \in 1..n : g[k] = f[k] /\ l[k] = h[k]
  BY <1>1
<1>8. g[n + 1] = e.amount /\ l[n + 1] = 0
  BY <1>1
<1>9. /\ Queued(s) = SumOf(f) /\ Queued(Append(s, e)) = SumOf(g)
      /\ MovedOf(s, M) = SumOf(h) /\ MovedOf(Append(s, e), M) = SumOf(l)
  BY <1>1 DEF Queued, MovedOf
<1> HIDE DEF f, g, h, l
<1>10. SumOf(g) = SumOf(f) + g[n + 1] /\ SumOf(f) \in Int
  BY <1>6, <1>7, SumOfExtended, SumType
<1>11. SumOf(l) = SumOf(h) + l[n + 1] /\ SumOf(h) \in Int
  BY <1>6, <1>7, SumOfExtended, SumType
<1> QED
  BY <1>8, <1>9, <1>10, <1>11

(* A record in the books: what is queued for it is within its gain.        *)
LEMMA HarvestStep ==
    ASSUME AccountsInv, NEW pnl, NEW nlv \in NetLiqs,
           pnl = <<>> \/ \E x \in Int : pnl = <<x>>,
           records' = records \o pnl,
           carousel' = carousel
                + (IF pnl = <<>> THEN 0 ELSE SumOf(CarouselHarvest(pnl[1], nlv))),
           queue' = queue
                \o (IF pnl = <<>> THEN <<>> ELSE VaultHarvest(Len(fills) + 1, pnl[1])),
           UNCHANGED <<vault, events, moved>>
    PROVE  HarvestsKept'
<1>1. /\ records \in Seq(Int) /\ queue \in Seq(Entries) /\ events \in Seq(Received)
      /\ moved \subseteq 1..Len(queue) /\ carousel \in Int
  BY DEF AccountsInv, HarvestsKept
<1>2. CASE pnl = <<>>
  <2>1. records' = records /\ queue' = queue
    BY <1>1, <1>2, ConcatEmptySeq
  <2>2. carousel' = carousel
    BY <1>1, <1>2
  <2> QED
    BY <2>1, <2>2 DEF AccountsInv, HarvestsKept
<1>3. ASSUME NEW x \in Int, pnl = <<x>> PROVE HarvestsKept'
  <2>1. pnl # <<>> /\ pnl[1] = x
    BY <1>3
  <2>2. records' = Append(records, x) /\ Append(records, x) \in Seq(Int)
    BY <1>1, <1>3, OneOrNone
  <2>3. PICK g \in Int, d \in Nat : g = Gains(records) /\ d = Gain(x) /\ Gains(records') = g + d
    <3>1. Gain(x) \in Nat
      BY DEF Gain
    <3> QED
      BY <1>1, <2>2, <3>1, GainsMove
  <2>4. PICK a \in Int : a = SumOf(CarouselHarvest(x, nlv)) /\ a <= 150 * d
    <3>1. nlv \in Int
      BY AccountsAssumption
    <3> QED
      BY <2>3, <3>1, CarouselShare
  <2>5. carousel' \in Int /\ carousel' <= 150 * Gains(records')
    <3>1. PICK c \in Int : c = carousel
      BY <1>1
    <3>2. carousel' = c + a /\ c <= 150 * g
      BY <2>1, <2>3, <2>4, <3>1 DEF AccountsInv, HarvestsKept
    <3>3. c <= 150 * g /\ a <= 150 * d
      BY <2>4, <3>2
    <3>4. c + a \in Int /\ c + a <= 150 * (g + d)
      BY <3>1, <3>3, <2>3, <2>4, SMTT(30)
    <3> QED
      BY <2>3, <3>2, <3>4
  <2>6. PICK m \in Nat : m = Len(fills) + 1
    <3>1. fills \in Seq(Fills)
      BY DEF AccountsInv, LedgerKept
    <3> QED
      BY <3>1
  <2>7. queue' = queue \o VaultHarvest(m, x)
    BY <2>1, <2>6
  <2>8. Queued(queue) <= 300 * g /\ vault = MovedOf(queue, moved)
    BY <2>3 DEF AccountsInv, HarvestsKept
  <2>9. CASE VaultHarvest(m, x) = <<>>
    <3>1. queue' = queue
      BY <1>1, <2>7, <2>9, ConcatEmptySeq
    <3>2. 300 * g <= 300 * (g + d)
      BY <2>3
    <3>3. Queued(queue) \in Int
      <4>1. PICK e : e = [order |-> 0, amount |-> 0, status |-> "Cancelled"]
        OBVIOUS
      <4>2. e \in Entries
        BY <4>1 DEF Entries
      <4> QED
        BY <1>1, <4>2, QueuedMoves
    <3>4. Queued(queue) <= 300 * (g + d)
      BY <2>3, <2>8, <3>2, <3>3
    <3> QED
      BY <1>1, <2>2, <2>3, <2>5, <3>1, <3>4 DEF AccountsInv, HarvestsKept
  <2>10. ASSUME NEW e \in Entries, VaultHarvest(m, x) = <<e>>, x > 0, e.amount = 300 * x
         PROVE  HarvestsKept'
    <3>1. queue' = Append(queue, e)
      BY <1>1, <2>7, <2>10, OneOrNone
    <3>2. queue' \in Seq(Entries) /\ Len(queue') = Len(queue) + 1 /\ Len(queue) \in Nat
      <4>1. PICK q, t : q \in Seq(Entries) /\ q = queue /\ t = Append(q, e)
        BY <1>1
      <4>2. t \in Seq(Entries) /\ Len(t) = Len(q) + 1 /\ Len(q) \in Nat
        BY <4>1
      <4> QED
        BY <3>1, <4>1, <4>2
    <3>3. moved' \subseteq 1..Len(queue')
      BY <1>1, <3>2
    <3>4. PICK u \in Int : /\ u = Queued(queue) /\ Queued(queue') = u + e.amount
                           /\ MovedOf(queue', moved) = MovedOf(queue, moved)
      BY <1>1, <3>1, QueuedMoves
    <3>5. d = x
      BY <2>3, <2>10 DEF Gain
    <3>6. u + 300 * x <= 300 * (g + x)
      BY <2>3, <2>8, <3>4
    <3>7. Queued(queue') <= 300 * Gains(records')
      BY <2>3, <2>10, <3>4, <3>5, <3>6
    <3>8. vault' = MovedOf(queue', moved')
      BY <2>8, <3>4
    <3> QED
      BY <1>1, <2>2, <2>5, <3>2, <3>3, <3>7, <3>8 DEF AccountsInv, HarvestsKept
  <2> QED
    BY <2>6, <2>9, <2>10, VaultShare
<1> QED
  BY <1>2, <1>3

(* What is transferred was queued, and not transferred before.             *)
LEMMA TransferStep ==
    ASSUME AccountsInv, NEW k \in DOMAIN queue, Transfer(k)
    PROVE  HarvestsKept'
<1>1. /\ records \in Seq(Int) /\ queue \in Seq(Entries) /\ events \in Seq(Received)
      /\ moved \subseteq 1..Len(queue) /\ carousel \in Int
      /\ vault = MovedOf(queue, moved)
      /\ vault = SumOf([n \in 1..Len(events) |-> events[n].amount])
  BY DEF AccountsInv, HarvestsKept
<1>2. PICK n \in Nat : n = Len(queue) /\ k \in 1..n
  BY <1>1
<1>3. PICK a \in Nat : a = queue[k].amount
  <2>1. queue[k] \in Entries
    BY <1>1, <1>2
  <2> QED
    BY <2>1 DEF Entries
<1>4. /\ k \notin moved /\ vault' = vault + a
      /\ events' = Append(events, [kind |-> "HarvestReceived", amount |-> a])
      /\ moved' = moved \cup {k}
      /\ records' = records /\ carousel' = carousel /\ queue' = queue
  BY <1>3 DEF Transfer, ledgerVars
<1> DEFINE f == [i \in 1..n |-> IF i \in moved THEN queue[i].amount ELSE 0]
           g == [i \in 1..n |-> IF i \in moved' THEN queue[i].amount ELSE 0]
<1>5. \A i \in 1..n : queue[i].amount \in Int
  <2>1. \A i \in 1..n : queue[i] \in Entries
    BY <1>1, <1>2
  <2> QED
    BY <2>1 DEF Entries
<1>6. f \in [1..n -> Int] /\ g \in [1..n -> Int]
  BY <1>5
<1>7. f \in Seq(Int) /\ g \in Seq(Int) /\ Len(f) = n /\ Len(g) = n
  BY <1>6
<1>8. f[k] = 0 /\ g[k] = a
  BY <1>2, <1>3, <1>4
<1>9. \A i \in 1..n : i # k => g[i] = f[i]
  BY <1>4
<1>10. MovedOf(queue, moved) = SumOf(f) /\ MovedOf(queue, moved') = SumOf(g)
  BY <1>2 DEF MovedOf
<1> HIDE DEF f, g
<1>11. SumOf(g) = SumOf(f) + a
  <2>1. g[k] = f[k] + a
    BY <1>3, <1>8
  <2> QED
    BY <1>2, <1>7, <1>9, <2>1, SumOfReplaced
<1>12. vault' = MovedOf(queue', moved')
  BY <1>1, <1>4, <1>10, <1>11
<1>13. /\ events' \in Seq(Received)
       /\ vault' = SumOf([i \in 1..Len(events') |-> events'[i].amount])
  <2>1. PICK m \in Nat, es \in Seq(Received) : m = Len(events) /\ es = events
    BY <1>1
  <2>2. PICK r : r = [kind |-> "HarvestReceived", amount |-> a]
    OBVIOUS
  <2>3. r \in Received /\ r.amount = a
    BY <1>3, <2>2 DEF Received
  <2>4. PICK ts : ts = Append(es, r)
    OBVIOUS
  <2>5. /\ ts \in Seq(Received) /\ Len(ts) = m + 1 /\ ts[m + 1] = r
        /\ \A i \in 1..m : ts[i] = es[i]
    BY <2>1, <2>3, <2>4
  <2>6. PICK p, q : p = [i \in 1..m |-> es[i].amount] /\ q = [i \in 1..m + 1 |-> ts[i].amount]
    OBVIOUS
  <2>7. \A e \in Received : e.amount \in Int
    BY DEF Received
  <2>8. p \in [1..m -> Int] /\ q \in [1..m + 1 -> Int]
    <3>1. \A i \in 1..m : es[i] \in Received
      BY <2>1
    <3>2. \A i \in 1..m + 1 : ts[i] \in Received
      BY <2>5
    <3> QED
      BY <2>6, <2>7, <3>1, <3>2
  <2>9. p \in Seq(Int) /\ q \in Seq(Int) /\ Len(p) = m /\ Len(q) = m + 1
    BY <2>8
  <2>10. (\A i \in 1..m : q[i] = p[i]) /\ q[m + 1] = a
    BY <2>3, <2>5, <2>6
  <2>11. SumOf(q) = SumOf(p) + a
    BY <2>9, <2>10, SumOfExtended
  <2>12. events' = ts
    BY <1>4, <2>1, <2>2, <2>4
  <2>13. vault = SumOf(p)
    BY <1>1, <2>1, <2>6
  <2>14. [i \in 1..Len(events') |-> events'[i].amount] = q
    BY <2>5, <2>6, <2>12
  <2> QED
    BY <1>4, <2>5, <2>11, <2>12, <2>13, <2>14
<1>14. moved' \subseteq 1..Len(queue')
  BY <1>1, <1>2, <1>4
<1> QED
  BY <1>1, <1>4, <1>12, <1>13, <1>14 DEF AccountsInv, HarvestsKept

(* Cancelling keeps the amounts.                                           *)
LEMMA CancelStep ==
    ASSUME AccountsInv, NEW k \in DOMAIN queue, Cancel(k)
    PROVE  HarvestsKept'
<1>1. /\ records \in Seq(Int) /\ queue \in Seq(Entries) /\ moved \subseteq 1..Len(queue)
  BY DEF AccountsInv, HarvestsKept
<1>2. PICK n \in Nat : n = Len(queue) /\ DOMAIN queue = 1..n
  BY <1>1
<1>3. /\ queue' = CancelForOrder(queue, queue[k].order)
      /\ records' = records /\ carousel' = carousel /\ vault' = vault
      /\ events' = events /\ moved' = moved
  BY DEF Cancel, ledgerVars
<1>4. \A i \in 1..n : queue[i] \in Entries
  BY <1>1, <1>2
<1>5. PICK q : q = CancelForOrder(queue, queue[k].order)
  OBVIOUS
<1>6. q = [i \in 1..n |-> q[i]]
  BY <1>2, <1>5 DEF CancelForOrder
<1>7. ASSUME NEW i \in 1..n PROVE q[i] \in Entries /\ q[i].amount = queue[i].amount
  <2>1. q[i] = IF queue[i].order = queue[k].order /\ queue[i].status = "PendingSettlement"
               THEN [queue[i] EXCEPT !.status = "Cancelled"] ELSE queue[i]
    BY <1>2, <1>5, <1>7 DEF CancelForOrder
  <2>2. queue[i] \in Entries
    BY <1>4, <1>7
  <2>3. PICK e \in Entries : e = queue[i]
    BY <2>2
  <2>4. [e EXCEPT !.status = "Cancelled"] \in Entries /\ [e EXCEPT !.status = "Cancelled"].amount = e.amount
    BY DEF Entries
  <2> QED
    BY <2>1, <2>3, <2>4
<1>8. q \in Seq(Entries) /\ Len(q) = n
  <2>1. q \in [1..n -> Entries]
    BY <1>6, <1>7
  <2> QED
    BY <2>1
<1>9. Queued(q) = Queued(queue) /\ MovedOf(q, moved) = MovedOf(queue, moved)
  BY <1>2, <1>7, <1>8 DEF Queued, MovedOf
<1> QED
  BY <1>2, <1>3, <1>5, <1>8, <1>9 DEF AccountsInv, HarvestsKept

-----------------------------------------------------------------------------
(* The wash-sale window.                                                   *)

(* A recorded loss joins its family's; only those outside the window are pruned. *)
LEMMA LossStep ==
    ASSUME AccountsInv, NEW s \in Symbols,
           \/ /\ losses' = RecordLoss(losses, s, today, today)
              /\ closedAtLoss' = closedAtLoss \cup {<<s, today>>}
           \/ UNCHANGED <<losses, closedAtLoss>>,
           today' = today
    PROVE  LossesKept'
<1>1. PICK t \in Nat, w \in Nat : t = today /\ w = WashDays
  BY BooksAssumption DEF AccountsInv, LossesKept
<1>2. /\ losses \subseteq closedAtLoss /\ closedAtLoss \subseteq Symbols \X (0..t)
      /\ \A l \in closedAtLoss : l[2] >= t - w => l \in losses
  BY <1>1 DEF AccountsInv, LossesKept
<1>3. CASE UNCHANGED <<losses, closedAtLoss>>
  BY <1>1, <1>2, <1>3 DEF LossesKept
<1>4. CASE /\ losses' = RecordLoss(losses, s, today, today)
           /\ closedAtLoss' = closedAtLoss \cup {<<s, today>>}
  <2>1. losses' = {l \in losses \cup {<<s, t>>} : l[2] >= t - (w + 1)}
    BY <1>1, <1>4 DEF RecordLoss, Prune
  <2>2. closedAtLoss' = closedAtLoss \cup {<<s, t>>}
    BY <1>1, <1>4
  <2>3. closedAtLoss' \subseteq Symbols \X (0..t)
    BY <1>1, <1>2, <2>2
  <2>4. losses' \subseteq closedAtLoss'
    BY <1>2, <2>1, <2>2
  <2>5. ASSUME NEW l \in closedAtLoss', l[2] >= t - w PROVE l \in losses'
    <3>1. l[2] \in 0..t
      BY <2>3, <2>5
    <3>2. l[2] >= t - (w + 1)
      BY <1>1, <2>5, <3>1
    <3> QED
      BY <1>2, <2>1, <2>2, <2>5, <3>2
  <2> QED
    BY <1>1, <2>3, <2>4, <2>5 DEF LossesKept
<1> QED
  BY <1>3, <1>4

(* A day more: the window only leaves losses behind.                       *)
LEMMA LossDayStep ==
    ASSUME AccountsInv, today' = today + 1, UNCHANGED <<losses, closedAtLoss>>
    PROVE  LossesKept'
<1>1. PICK t \in Nat, w \in Nat : t = today /\ w = WashDays
  BY BooksAssumption DEF AccountsInv, LossesKept
<1>2. /\ losses \subseteq closedAtLoss /\ closedAtLoss \subseteq Symbols \X (0..t)
      /\ \A l \in closedAtLoss : l[2] >= t - w => l \in losses
  BY <1>1 DEF AccountsInv, LossesKept
<1>3. closedAtLoss \subseteq Symbols \X (0..t + 1)
  <2>1. 0..t \subseteq 0..t + 1
    BY <1>1
  <2> QED
    BY <1>2, <2>1
<1>4. ASSUME NEW l \in closedAtLoss, l[2] >= (t + 1) - w PROVE l \in losses
  <2>1. l[2] \in 0..t
    BY <1>2, <1>4
  <2>2. l[2] >= t - w
    BY <1>1, <1>4, <2>1
  <2> QED
    BY <1>2, <1>4, <2>2
<1> QED
  BY <1>1, <1>2, <1>3, <1>4 DEF LossesKept

-----------------------------------------------------------------------------
(* The day trades.                                                         *)

(* The recent trades of the whole history, and that the tracker's limit is *)
(* reached exactly when it is reached by them.                             *)
RecentInAll == {j \in 1..Len(traded) : traded[j] >= today - DayTradeDays}
SameAnswer ==
    Cardinality(Recent(dayTrades, today)) < DayTradeLimit
      <=> Cardinality(RecentInAll) < DayTradeLimit

(* Every recent trade that the tracker keeps is one of the history, and if *)
(* it has let go of a recent one it is full of recent ones.                *)
LEMMA WindowIsSeen ==
    ASSUME TradesKept
    PROVE  SameAnswer
<1>1. PICK n \in Nat, m \in Nat, c \in Nat, L \in Nat, D \in Int :
         /\ n = Len(traded) /\ m = Len(dayTrades) /\ c = DayTradeCap /\ L = DayTradeLimit
         /\ D = today - DayTradeDays
  <2>1. Len(traded) \in Nat /\ Len(dayTrades) \in Nat /\ today - DayTradeDays \in Int
    BY BooksAssumption DEF TradesKept
  <2>2. DayTradeCap \in Nat /\ DayTradeLimit \in Nat
    BY BooksAssumption
  <2> QED
    BY <2>1, <2>2
<1>2. /\ m <= n /\ m <= c /\ (m < n => m = c) /\ L <= c
      /\ \A k \in 1..m : dayTrades[k] = traded[n - m + k]
      /\ \A j, k \in 1..n : j <= k => traded[j] <= traded[k]
      /\ DOMAIN dayTrades = 1..m
      /\ \A k \in 1..n : traded[k] \in Nat
  <2>1. /\ m <= n /\ m <= c /\ (m < n => m = c) /\ L <= c
        /\ \A k \in 1..m : dayTrades[k] = traded[n - m + k]
        /\ \A j, k \in 1..n : j <= k => traded[j] <= traded[k]
    BY <1>1, BooksAssumption DEF TradesKept
  <2>2. DOMAIN dayTrades = 1..m
    <3>1. dayTrades \in Seq(Nat)
      BY DEF TradesKept
    <3>2. DOMAIN dayTrades = 1..Len(dayTrades)
      BY <3>1
    <3> QED
      BY <1>1, <3>2
  <2>3. \A k \in 1..n : traded[k] \in Nat
    <3>1. traded \in Seq(Nat)
      BY DEF TradesKept
    <3>2. n = Len(traded)
      BY <1>1
    <3> QED
      BY <3>1, <3>2
  <2> QED
    BY <2>1, <2>2, <2>3
<1> DEFINE W == {j \in 1..n : traded[j] >= D}
<1>a. PICK R : R = Recent(dayTrades, today)
  OBVIOUS
<1>3. \A k : k \in R <=> k \in 1..m /\ dayTrades[k] >= D
  <2>1. DOMAIN dayTrades = 1..m
    BY <1>2
  <2>2. D = today - DayTradeDays
    BY <1>1
  <2>3. R = {k \in DOMAIN dayTrades : dayTrades[k] >= today - DayTradeDays}
    BY <1>a, Zenon DEF Recent
  <2>4. R = {k \in 1..m : dayTrades[k] >= D}
    BY <2>1, <2>2, <2>3
  <2> QED
    BY <2>4
<1>4. IsFiniteSet(1..m) /\ Cardinality(1..m) = m
  <2>1. m \in Nat
    BY <1>1
  <2>2. IsFiniteSet(1..m) /\ Cardinality(1..m) = IF 1 > m THEN 0 ELSE m - 1 + 1
    BY <2>1, FS_Interval
  <2> QED
    BY <2>1, <2>2
<1>5. IsFiniteSet(R) /\ Cardinality(R) \in Nat
  <2>1. R \in SUBSET (1..m)
    BY <1>3
  <2> QED
    BY <1>4, <2>1, FS_Subset, FS_CardinalityType
<1>b. IsFiniteSet(W) /\ Cardinality(W) \in Nat
  <2>1. IsFiniteSet(1..n)
    BY <1>1, FS_Interval
  <2>2. W \in SUBSET (1..n)
    OBVIOUS
  <2> QED
    BY <2>1, <2>2, FS_Subset, FS_CardinalityType
<1>6. ASSUME Cardinality(R) < L PROVE Cardinality(W) <= Cardinality(R)
  <2>6. ASSUME NEW j \in W, j <= n - m PROVE FALSE
    <3>1. j \in 1..n /\ traded[j] >= D
      OBVIOUS
    <3>2. m = c
      BY <1>1, <1>2, <2>6, <3>1
    <3>3. ASSUME NEW k \in 1..m PROVE k \in R
      <4>1. n - m + k \in 1..n /\ j <= n - m + k
        BY <1>1, <1>2, <2>6, <3>1
      <4>2. traded[j] <= traded[n - m + k]
        BY <1>2, <3>1, <4>1
      <4>3. traded[j] \in Nat /\ traded[n - m + k] \in Nat
        BY <1>2, <3>1, <4>1
      <4>4. dayTrades[k] = traded[n - m + k]
        BY <1>2
      <4>5. dayTrades[k] >= D
        BY <1>1, <3>1, <4>2, <4>3, <4>4
      <4> QED
        BY <1>3, <4>5
    <3>4. R = 1..m
      BY <1>3, <3>3
    <3> QED
      BY <1>1, <1>2, <1>4, <1>5, <1>6, <3>2, <3>4
  <2> DEFINE f == [j \in W |-> j - (n - m)]
  <2>7. f \in [W -> R]
    <3>1. ASSUME NEW j \in W PROVE j - (n - m) \in R
      <4>1. j \in 1..n /\ ~(j <= n - m)
        BY <2>6
      <4>2. j - (n - m) \in 1..m /\ n - m + (j - (n - m)) = j
        BY <1>1, <1>2, <4>1
      <4>3. dayTrades[j - (n - m)] = traded[j]
        BY <1>2, <4>2
      <4>4. traded[j] >= D
        OBVIOUS
      <4> QED
        BY <1>3, <4>2, <4>3, <4>4
    <3> QED
      BY <3>1
  <2>8. \A i, j \in W : f[i] = f[j] => i = j
    <3>1. \A i, j \in W : i \in Int /\ j \in Int /\ (i - (n - m) = j - (n - m) => i = j)
      BY <1>1
    <3> QED
      BY <3>1
  <2>9. f \in Injection(W, R)
    BY <2>7, <2>8 DEF Injection, IsInjective
  <2> HIDE DEF W, f
  <2> QED
    BY <1>5, <2>9, FS_Injection
<1>7. Cardinality(R) <= Cardinality(W)
  <2> DEFINE g == [k \in R |-> n - m + k]
  <2>1. ASSUME NEW k \in R PROVE n - m + k \in W
    <3>1. k \in 1..m /\ dayTrades[k] >= D
      BY <1>3
    <3>2. n - m + k \in 1..n
      BY <1>1, <1>2, <3>1
    <3> QED
      BY <1>2, <3>1, <3>2
  <2>2. g \in [R -> W]
    BY <2>1
  <2>3. \A i, k \in R : g[i] = g[k] => i = k
    <3>1. \A i, k \in R : i \in Int /\ k \in Int /\ (n - m + i = n - m + k => i = k)
      BY <1>1, <1>3
    <3> QED
      BY <3>1
  <2>4. g \in Injection(R, W)
    BY <2>2, <2>3 DEF Injection, IsInjective
  <2> HIDE DEF W, g
  <2> QED
    BY <1>b, <2>4, FS_Injection
<1>10. W = {j \in 1..Len(traded) : traded[j] >= today - DayTradeDays}
  BY <1>1
<1> HIDE DEF W
<1> QED
  BY <1>1, <1>a, <1>b, <1>5, <1>6, <1>7, <1>10 DEF SameAnswer, RecentInAll

(* The oldest day leaves a full tracker.                                   *)
LEMMA TrackerMoves ==
    ASSUME NEW d \in Seq(Nat), NEW x \in Nat, Len(d) <= DayTradeCap
    PROVE  /\ RecordDayTrade(d, x) \in Seq(Nat)
           /\ \/ /\ Len(d) + 1 <= DayTradeCap /\ Len(RecordDayTrade(d, x)) = Len(d) + 1
                 /\ RecordDayTrade(d, x)[Len(d) + 1] = x
                 /\ \A k \in 1..Len(d) : RecordDayTrade(d, x)[k] = d[k]
              \/ /\ Len(d) = DayTradeCap /\ Len(RecordDayTrade(d, x)) = DayTradeCap
                 /\ DayTradeCap > 0 => RecordDayTrade(d, x)[DayTradeCap] = x
                 /\ \A k \in 1..DayTradeCap - 1 : RecordDayTrade(d, x)[k] = d[k + 1]
<1>0. PICK c \in Nat : c = DayTradeCap /\ Len(d) <= c
  BY BooksAssumption
<1>1. PICK l : l = Append(d, x)
  OBVIOUS
<1>2. /\ l \in Seq(Nat) /\ Len(l) = Len(d) + 1 /\ Len(d) \in Nat
      /\ l[Len(d) + 1] = x /\ \A k \in 1..Len(d) : l[k] = d[k]
  BY <1>1
<1>3. PICK m \in Nat : m = Len(d)
  BY <1>2
<1>4. CASE m + 1 <= c
  <2>1. RecordDayTrade(d, x) = l
    BY <1>0, <1>1, <1>2, <1>3, <1>4 DEF RecordDayTrade
  <2> QED
    BY <1>0, <1>2, <1>3, <1>4, <2>1
<1>5. CASE ~(m + 1 <= c)
  <2>1. m = c
    BY <1>0, <1>3, <1>5
  <2>2. RecordDayTrade(d, x) = Tail(l)
    BY <1>0, <1>1, <1>2, <1>3, <1>5 DEF RecordDayTrade
  <2>3. l # <<>> /\ Len(l) = c + 1
    BY <1>2, <1>3, <2>1
  <2>4. PICK e : e = Tail(l)
    OBVIOUS
  <2>5. e \in Seq(Nat) /\ Len(e) = c /\ \A k \in 1..c : e[k] = l[k + 1]
    BY <1>2, <2>3, <2>4
  <2>6. \A k \in 1..c - 1 : k \in 1..c /\ k + 1 \in 1..c
    OBVIOUS
  <2>7. \A k \in 1..c - 1 : e[k] = d[k + 1]
    BY <1>2, <1>3, <2>1, <2>5, <2>6
  <2>8. c > 0 => e[c] = x
    BY <1>2, <1>3, <2>1, <2>5
  <2> QED
    BY <1>0, <1>3, <2>1, <2>2, <2>4, <2>5, <2>7, <2>8
<1> QED
  BY <1>4, <1>5

(* A day trade is recorded.                                                *)
LEMMA TradeStep ==
    ASSUME TradesKept, dayTrades' = RecordDayTrade(dayTrades, today),
           traded' = Append(traded, today), today' = today
    PROVE  TradesKept'
<1>1. PICK n \in Nat, m \in Nat, c \in Nat, L \in Nat, t \in Nat :
         n = Len(traded) /\ m = Len(dayTrades) /\ c = DayTradeCap /\ L = DayTradeLimit /\ t = today
  <2>1. traded \in Seq(Nat) /\ dayTrades \in Seq(Nat) /\ today \in Nat
    BY DEF TradesKept
  <2>2. Len(traded) \in Nat /\ Len(dayTrades) \in Nat
    BY <2>1
  <2>3. DayTradeCap \in Nat /\ DayTradeLimit \in Nat
    BY BooksAssumption
  <2> QED
    BY <2>1, <2>2, <2>3
<1>2. PICK a \in Seq(Nat), d \in Seq(Nat) : a = traded /\ d = dayTrades
  BY DEF TradesKept
<1>3. /\ n = Len(a) /\ m = Len(d) /\ m <= n /\ m <= c /\ (m < n => m = c)
      /\ \A k \in 1..m : d[k] = a[n - m + k]
      /\ \A j, k \in 1..n : j <= k => a[j] <= a[k]
      /\ \A k \in 1..n : a[k] <= t
  BY <1>1, <1>2 DEF TradesKept
<1>5. PICK b : b = Append(a, t)
  OBVIOUS
<1>6. /\ b \in Seq(Nat) /\ Len(b) = n + 1 /\ b[n + 1] = t
      /\ \A k \in 1..n : b[k] = a[k]
  BY <1>3, <1>5
<1>7. traded' = b
  BY <1>1, <1>2, <1>5
<1>8. PICK e : e = RecordDayTrade(d, t)
  OBVIOUS
<1>9. /\ e \in Seq(Nat)
      /\ \/ /\ m + 1 <= c /\ Len(e) = m + 1 /\ e[m + 1] = t
            /\ \A k \in 1..m : e[k] = d[k]
         \/ /\ m = c /\ Len(e) = c
            /\ c > 0 => e[c] = t
            /\ \A k \in 1..c - 1 : e[k] = d[k + 1]
  <2>1. DayTradeCap = c /\ Len(d) = m /\ Len(d) <= c
    BY <1>1, <1>3
  <2>2. /\ e \in Seq(Nat)
        /\ \/ /\ Len(d) + 1 <= c /\ Len(e) = Len(d) + 1 /\ e[Len(d) + 1] = t
              /\ \A k \in 1..Len(d) : e[k] = d[k]
           \/ /\ Len(d) = c /\ Len(e) = c
              /\ c > 0 => e[c] = t
              /\ \A k \in 1..c - 1 : e[k] = d[k + 1]
    BY <1>8, <2>1, TrackerMoves
  <2> QED
    BY <2>1, <2>2
<1>10. dayTrades' = e
  BY <1>1, <1>2, <1>8
<1>11. PICK p \in Nat : p = Len(e)
  BY <1>9
<1>12. p <= n + 1 /\ p <= c /\ (p < n + 1 => p = c)
  BY <1>3, <1>9, <1>11
<1>13. ASSUME NEW k \in 1..p PROVE e[k] = b[(n + 1) - p + k]
  <2>1. CASE m + 1 <= c /\ p = m + 1 /\ e[m + 1] = t /\ \A i \in 1..m : e[i] = d[i]
    <3>1. CASE k = m + 1
      <4>1. (n + 1) - p + k = n + 1
        BY <1>1, <2>1, <3>1
      <4> QED
        BY <1>6, <2>1, <3>1, <4>1
    <3>2. CASE k # m + 1
      <4>1. k \in 1..m /\ (n + 1) - p + k = n - m + k /\ n - m + k \in 1..n
        BY <1>1, <1>3, <1>13, <2>1, <3>2
      <4>2. d[k] = a[n - m + k] /\ b[n - m + k] = a[n - m + k]
        BY <1>3, <1>6, <4>1
      <4> QED
        BY <2>1, <4>1, <4>2
    <3> QED
      BY <3>1, <3>2
  <2>2. CASE m = c /\ p = c /\ (c > 0 => e[c] = t) /\ \A i \in 1..c - 1 : e[i] = d[i + 1]
    <3>1. CASE k = c
      <4>1. (n + 1) - p + k = n + 1 /\ c > 0
        BY <1>1, <1>13, <2>2, <3>1
      <4> QED
        BY <1>6, <2>2, <3>1, <4>1
    <3>2. CASE k # c
      <4>1. k \in 1..c - 1 /\ k + 1 \in 1..m
        BY <1>1, <1>13, <2>2, <3>2
      <4>2. (n + 1) - p + k = n - m + (k + 1) /\ n - m + (k + 1) \in 1..n
        BY <1>1, <1>3, <2>2, <4>1
      <4>3. d[k + 1] = a[n - m + (k + 1)] /\ b[n - m + (k + 1)] = a[n - m + (k + 1)]
        BY <1>3, <1>6, <4>1, <4>2
      <4> QED
        BY <2>2, <4>1, <4>2, <4>3
    <3> QED
      BY <3>1, <3>2
  <2> QED
    BY <1>9, <1>11, <2>1, <2>2
<1>14. ASSUME NEW k \in 1..n + 1 PROVE b[k] \in Nat /\ b[k] <= t
  <2>2. b[k] \in Nat
    BY <1>6
  <2>3. CASE k = n + 1
    BY <1>1, <1>6, <2>2, <2>3
  <2>4. CASE k # n + 1
    <3>1. k \in 1..n
      BY <1>1, <2>4
    <3> QED
      BY <1>3, <1>6, <2>2, <3>1
  <2> QED
    BY <2>3, <2>4
<1>15. ASSUME NEW j \in 1..n + 1, NEW k \in 1..n + 1, j <= k PROVE b[j] <= b[k]
  <2>1. CASE k = n + 1
    BY <1>6, <1>14, <2>1
  <2>2. CASE k # n + 1
    <3>1. j \in 1..n /\ k \in 1..n
      BY <1>15, <2>2
    <3> QED
      BY <1>3, <1>6, <1>15, <3>1
  <2> QED
    BY <2>1, <2>2
<1>16. TradesKept'
  <2>1. today' = t /\ Len(traded') = n + 1 /\ Len(dayTrades') = p
    BY <1>1, <1>6, <1>7, <1>10, <1>11 DEF TradesKept
  <2> QED
    BY <1>1, <1>6, <1>7, <1>9, <1>10, <1>12, <1>13, <1>14, <1>15, <2>1 DEF TradesKept
<1> QED
  BY <1>16

-----------------------------------------------------------------------------
(* The invariant.                                                          *)

(* Books without an entry are in order.                                    *)
LEMMA AccountsInitHolds == AccountsInit => AccountsInv
<1>1. SUFFICES ASSUME AccountsInit PROVE AccountsInv
  OBVIOUS
<1>2. /\ today = 0 /\ fills = <<>> /\ records = <<>>
      /\ positions = [s \in Symbols |-> NoPosition]
      /\ cash = StartingCapital /\ realized = 0
      /\ carousel = 0 /\ queue = <<>> /\ vault = 0 /\ events = <<>> /\ moved = {}
      /\ losses = {} /\ dayTrades = <<>> /\ closedAtLoss = {} /\ traded = <<>>
  BY <1>1 DEF AccountsInit
<1>3. \A S : <<>> \in Seq(S) /\ Len(<<>>) = 0
  OBVIOUS
<1>4. \A f : f = [k \in 1..0 |-> f[k]] => SumOf(f) = 0
  <2>1. ASSUME NEW f, f = [k \in 1..0 |-> f[k]] PROVE SumOf(f) = 0
    <3>1. f = <<>>
      BY <2>1
    <3> QED
      BY <3>1, SumOfNone
  <2> QED
    BY <2>1
<1>5. LedgerKept
  <2>1. \A s \in Symbols : HeldOf(fills, s, Len(fills)) = 0
    <3>1. Len(fills) = 0
      BY <1>2
    <3> QED
      BY <1>4, <3>1 DEF HeldOf
  <2>2. SumOf([n \in 1..Len(fills) |-> CostOf(fills, n)]) = 0
    <3>1. Len(fills) = 0
      BY <1>2
    <3> QED
      BY <1>4, <3>1
  <2>3. fills \in Seq(Fills) /\ records \in Seq(Int) /\ realized = SumOf(records)
    BY <1>2, <1>3, SumOfNone
  <2>4. positions \in [Symbols -> [qty : Int, avg : Int]] /\ \A s \in Symbols : positions[s].qty = 0
    BY <1>2 DEF NoPosition
  <2>5. cash \in Int /\ cash = StartingCapital - 0
    BY <1>2, AccountsAssumption
  <2> QED
    BY <2>1, <2>2, <2>3, <2>4, <2>5 DEF LedgerKept
<1>6. HarvestsKept
  <2>1. Gains(records) = 0 /\ Queued(queue) = 0 /\ MovedOf(queue, moved) = 0
    BY <1>2, <1>3, <1>4 DEF Gains, Queued, MovedOf
  <2>2. SumOf([k \in 1..Len(events) |-> events[k].amount]) = 0
    BY <1>2, <1>3, <1>4
  <2> QED
    BY <1>2, <1>3, <2>1, <2>2 DEF HarvestsKept
<1>7. LossesKept
  BY <1>2 DEF LossesKept
<1>8. TradesKept
  <2>1. DayTradeCap \in Nat
    BY BooksAssumption
  <2>2. traded \in Seq(Nat) /\ dayTrades \in Seq(Nat) /\ Len(traded) = 0 /\ Len(dayTrades) = 0
    BY <1>2, <1>3
  <2> QED
    BY <1>2, <2>1, <2>2 DEF TradesKept
<1> QED
  BY <1>5, <1>6, <1>7, <1>8 DEF AccountsInv

(* A book is kept while nothing is written in it.                          *)
LEMMA BooksUntouched ==
    /\ LedgerKept /\ UNCHANGED ledgerVars => LedgerKept'
    /\ HarvestsKept /\ UNCHANGED <<records, harvestVars>> => HarvestsKept'
    /\ LossesKept /\ UNCHANGED <<today, losses, closedAtLoss>> => LossesKept'
    /\ TradesKept /\ UNCHANGED <<today, dayTrades, traded>> => TradesKept'
<1>1. LedgerKept /\ UNCHANGED ledgerVars => LedgerKept'
  BY DEF LedgerKept, ledgerVars, HeldOf, CostOf
<1>2. HarvestsKept /\ UNCHANGED <<records, harvestVars>> => HarvestsKept'
  BY DEF HarvestsKept, harvestVars, Gains, Queued, MovedOf
<1>3. LossesKept /\ UNCHANGED <<today, losses, closedAtLoss>> => LossesKept'
  BY DEF LossesKept
<1>4. TradesKept /\ UNCHANGED <<today, dayTrades, traded>> => TradesKept'
  BY DEF TradesKept
<1> QED
  BY <1>1, <1>2, <1>3, <1>4

(* Every step of the books keeps them in order.                            *)
LEMMA AccountsStepHolds ==
    AccountsInv /\ [AccountsNext]_accountVars => AccountsInv'
<1>1. SUFFICES ASSUME AccountsInv, [AccountsNext]_accountVars PROVE AccountsInv'
  OBVIOUS
<1>2. LedgerKept /\ HarvestsKept /\ LossesKept /\ TradesKept
  BY <1>1 DEF AccountsInv
<1>3. ASSUME NEW t \in Trades, NEW nlv \in NetLiqs, Fill(t, nlv) PROVE AccountsInv'
  <2>1. PICK f, pos, pnl :
              /\ f \in Fills /\ pos \in Held2
              /\ pos = positions[f.symbol] /\ pnl = Realized(pos, f)
              /\ pnl = <<>> \/ \E x \in Int : pnl = <<x>>
              /\ f.symbol \in Symbols
              /\ fills' = Append(fills, f)
              /\ positions' = [positions EXCEPT ![f.symbol] = Filled(pos, f)]
              /\ cash' = CashAfter(cash, pos, f)
              /\ realized' = realized + SumOf(pnl)
              /\ records' = records \o pnl
              /\ carousel' = carousel
                    + (IF pnl = <<>> THEN 0 ELSE SumOf(CarouselHarvest(pnl[1], nlv)))
              /\ queue' = queue
                    \o (IF pnl = <<>> THEN <<>> ELSE VaultHarvest(Len(fills) + 1, pnl[1]))
              /\ \/ /\ losses' = RecordLoss(losses, f.symbol, today, today)
                    /\ closedAtLoss' = closedAtLoss \cup {<<f.symbol, today>>}
                 \/ UNCHANGED <<losses, closedAtLoss>>
              /\ \/ /\ dayTrades' = RecordDayTrade(dayTrades, today)
                    /\ traded' = Append(traded, today)
                 \/ UNCHANGED <<dayTrades, traded>>
              /\ UNCHANGED <<today, vault, events, moved>>
    BY <1>1, <1>3, FillFacts, Zenon
  <2>2. LedgerKept'
    BY <1>1, <2>1, LedgerStep, Zenon
  <2>3. HarvestsKept'
    <3>1. UNCHANGED <<vault, events, moved>>
      BY <2>1
    <3> QED
      BY <1>1, <2>1, <3>1, HarvestStep, Zenon
  <2>4. LossesKept'
    <3>1. today' = today
      BY <2>1
    <3> QED
      BY <1>1, <2>1, <3>1, LossStep, Zenon
  <2>5. TradesKept'
    <3>1. today' = today
      BY <2>1
    <3>2. CASE UNCHANGED <<dayTrades, traded>>
      BY <1>2, <3>1, <3>2, BooksUntouched
    <3>3. CASE /\ dayTrades' = RecordDayTrade(dayTrades, today)
               /\ traded' = Append(traded, today)
      BY <1>2, <3>1, <3>3, TradeStep, Zenon
    <3> QED
      BY <2>1, <3>2, <3>3, Zenon
  <2> QED
    BY <2>2, <2>3, <2>4, <2>5 DEF AccountsInv
<1>4. ASSUME NEW k \in DOMAIN queue, Transfer(k) PROVE AccountsInv'
  <2>1. HarvestsKept'
    BY <1>1, <1>4, TransferStep
  <2>2. UNCHANGED <<today, ledgerVars, trackerVars>>
    BY <1>4 DEF Transfer
  <2>3. UNCHANGED <<today, losses, closedAtLoss, dayTrades, traded>>
    BY <2>2 DEF trackerVars
  <2> QED
    BY <1>2, <2>1, <2>2, <2>3, BooksUntouched DEF AccountsInv
<1>5. ASSUME NEW k \in DOMAIN queue, Cancel(k) PROVE AccountsInv'
  <2>1. HarvestsKept'
    BY <1>1, <1>5, CancelStep
  <2>2. UNCHANGED <<today, ledgerVars, trackerVars>>
    BY <1>5 DEF Cancel
  <2>3. UNCHANGED <<today, losses, closedAtLoss, dayTrades, traded>>
    BY <2>2 DEF trackerVars
  <2> QED
    BY <1>2, <2>1, <2>2, <2>3, BooksUntouched DEF AccountsInv
<1>6. ASSUME DayPasses PROVE AccountsInv'
  <2>1. /\ today' = today + 1
        /\ UNCHANGED <<ledgerVars, harvestVars, trackerVars>>
    BY <1>6, AccountsAssumption DEF DayPasses
  <2>2. UNCHANGED <<records, losses, closedAtLoss, dayTrades, traded>>
    BY <2>1 DEF ledgerVars, trackerVars
  <2>3. LossesKept'
    BY <1>1, <2>1, <2>2, LossDayStep
  <2>4. TradesKept'
    <3>1. PICK n \in Nat : n = today
      BY <1>2 DEF TradesKept
    <3>2. \A k \in 1..Len(traded) : traded[k] \in Nat
      <4>1. traded \in Seq(Nat)
        BY <1>2 DEF TradesKept
      <4> QED
        BY <4>1
    <3>3. \A k \in 1..Len(traded) : traded[k] <= n + 1
      BY <1>2, <3>1, <3>2 DEF TradesKept
    <3> QED
      BY <1>2, <2>1, <2>2, <3>1, <3>3 DEF TradesKept
  <2> QED
    BY <1>2, <2>1, <2>2, <2>3, <2>4, BooksUntouched DEF AccountsInv
<1>7. CASE UNCHANGED accountVars
  <2>1. UNCHANGED <<today, ledgerVars, harvestVars, trackerVars>>
    BY <1>7 DEF accountVars
  <2>2. UNCHANGED <<records, losses, closedAtLoss, dayTrades, traded>>
    BY <2>1 DEF ledgerVars, trackerVars
  <2> QED
    BY <1>2, <2>1, <2>2, BooksUntouched DEF AccountsInv
<1> QED
  BY <1>1, <1>3, <1>4, <1>5, <1>6, <1>7, Zenon DEF AccountsNext

(* The books are in order whatever the fills and the days.                 *)
LEMMA AccountsInvHolds == AccountsSpec => []AccountsInv
<1> QED
  BY AccountsInitHolds, AccountsStepHolds, PTL DEF AccountsSpec

-----------------------------------------------------------------------------
(* The theorems.                                                           *)

(* However often the tracker has pruned its losses (WashSaleTracker), a    *)
(* symbol is blocked exactly while a loss of its family is within the      *)
(* window, and every symbol it lists is blocked with days left to wait.    *)
THEOREM WashIsExact == AccountsSpec => []WashWindowIsExact
<1>1. AccountsInv => WashWindowIsExact
  <2>1. SUFFICES ASSUME AccountsInv PROVE WashWindowIsExact
    OBVIOUS
  <2>2. PICK t \in Nat, w \in Nat : t = today /\ w = WashDays
    BY <2>1, BooksAssumption DEF AccountsInv, LossesKept
  <2>3. /\ losses \subseteq closedAtLoss /\ closedAtLoss \subseteq Symbols \X (0..t)
        /\ \A l \in closedAtLoss : l[2] >= t - w => l \in losses
    BY <2>1, <2>2 DEF AccountsInv, LossesKept
  <2>4. \A l \in closedAtLoss : l[2] \in 0..t /\ (l[2] >= t - w <=> t - l[2] <= w)
    <3>1. \A l \in closedAtLoss : l[2] \in 0..t
      BY <2>3
    <3> QED
      BY <2>2, <3>1
  <2>5. ASSUME NEW s \in Symbols
        PROVE  IsBlocked(losses, s, today) <=>
                  \E l \in closedAtLoss : l[1] \in FamilyOf(s) /\ today - l[2] <= WashDays
    BY <2>2, <2>3, <2>4 DEF IsBlocked
  <2>6. ASSUME NEW b \in BlockedSymbols(losses, today)
        PROVE  IsBlocked(losses, b[1], today) /\ b[2] \in 0..WashDays
    <3>1. PICK l \in losses : l[2] >= t - w /\ b = <<l[1], w - (t - l[2])>>
      BY <2>2, <2>6 DEF BlockedSymbols
    <3>2. l[1] \in FamilyOf(b[1])
      BY <3>1 DEF FamilyOf
    <3>3. l[2] \in 0..t
      BY <2>3, <3>1
    <3>4. b[2] \in 0..w
      BY <2>2, <3>1, <3>3
    <3> QED
      BY <2>2, <3>1, <3>2, <3>4 DEF IsBlocked
  <2> QED
    BY <2>5, <2>6 DEF WashWindowIsExact
<1> QED
  BY <1>1, AccountsInvHolds, PTL

(* Whatever the tracker (PdtTracker), which keeps only the last            *)
(* DayTradeCap days, has let go, its answer is that of the whole history.  *)
THEOREM DayTradesRemembered == AccountsSpec => []PdtForgetsNothing
<1>1. AccountsInv => PdtForgetsNothing
  <2>1. SUFFICES ASSUME AccountsInv, NEW e \in Equities
                 PROVE  CanDayTrade(dayTrades, e, today) <=>
                           \/ e >= 25000
                           \/ Cardinality({k \in DOMAIN traded : traded[k] >= today - DayTradeDays})
                                 < DayTradeLimit
    BY DEF PdtForgetsNothing
  <2>2. DOMAIN traded = 1..Len(traded)
    BY <2>1 DEF AccountsInv, TradesKept
  <2>3. SameAnswer
    <3>1. TradesKept
      BY <2>1 DEF AccountsInv
    <3> QED
      BY <3>1, WindowIsSeen, Zenon
  <2>4. {k \in DOMAIN traded : traded[k] >= today - DayTradeDays} = RecentInAll
    BY <2>2 DEF RecentInAll
  <2>5. Cardinality({k \in DOMAIN traded : traded[k] >= today - DayTradeDays})
          = Cardinality(RecentInAll)
    BY <2>4
  <2>6. CanDayTrade(dayTrades, e, today) <=>
           e >= 25000 \/ Cardinality(RecentInAll) < DayTradeLimit
    BY <2>3 DEF CanDayTrade, SameAnswer
  <2> QED
    BY <2>5, <2>6
<1> QED
  BY <1>1, AccountsInvHolds, PTL

(* Cash is what the fills cost, but for those that closed a position fully *)
(* (Portfolio::apply_fill returns before it counts them).                  *)
THEOREM CashIsAccounted == AccountsSpec => [](CashAddsUp /\ realized = SumOf(records))
<1>1. AccountsInv => CashAddsUp /\ realized = SumOf(records)
  <2>1. SUFFICES ASSUME AccountsInv PROVE CashAddsUp /\ realized = SumOf(records)
    OBVIOUS
  <2>2. /\ fills \in Seq(Fills) /\ realized = SumOf(records)
        /\ cash = StartingCapital - SumOf([n \in 1..Len(fills) |-> CostOf(fills, n)])
    BY <2>1 DEF AccountsInv, LedgerKept
  <2>3. DOMAIN fills = 1..Len(fills)
    BY <2>2
  <2>4. ASSUME NEW n \in DOMAIN fills
        PROVE  CostOf(fills, n)
                 = IF ClosesFully(n) THEN 0 ELSE fills[n].price * fills[n].qty + fills[n].commission
    BY DEF CostOf, ClosesFully, Held, HeldOf
  <2>5. [n \in 1..Len(fills) |-> CostOf(fills, n)]
          = [n \in DOMAIN fills |->
               IF ClosesFully(n) THEN 0 ELSE fills[n].price * fills[n].qty + fills[n].commission]
    BY <2>3, <2>4
  <2> QED
    BY <2>2, <2>5 DEF CashAddsUp
<1> QED
  BY <1>1, AccountsInvHolds, PTL

(* Carousel and the Vault take from gains only, and no more than their     *)
(* share; the Vault's events rebuild its total (Vault::from_events).       *)
THEOREM HarvestsWithinGains == AccountsSpec => []HarvestsStayWithinGains
<1>1. AccountsInv => HarvestsStayWithinGains
  <2>1. SUFFICES ASSUME AccountsInv PROVE HarvestsStayWithinGains
    OBVIOUS
  <2>2. /\ records \in Seq(Int) /\ queue \in Seq(Entries) /\ events \in Seq(Received)
        /\ moved \subseteq 1..Len(queue)
        /\ carousel \in Int /\ carousel <= 150 * Gains(records)
        /\ Queued(queue) <= 300 * Gains(records)
        /\ vault = MovedOf(queue, moved)
        /\ vault = SumOf([k \in 1..Len(events) |-> events[k].amount])
    BY <2>1 DEF AccountsInv, HarvestsKept
  <2>3. PICK n \in Nat : n = Len(queue) /\ DOMAIN queue = 1..n
    BY <2>2
  <2>4. \A k \in 1..n : queue[k].amount \in Nat
    <3>1. \A k \in 1..n : queue[k] \in Entries
      BY <2>2, <2>3
    <3> QED
      BY <3>1 DEF Entries
  <2>5. PICK all, pending, sent :
           /\ all = [k \in 1..n |-> queue[k].amount]
           /\ pending = [k \in 1..n |-> IF queue[k].status \in {"Completed", "Cancelled"}
                                        THEN 0 ELSE queue[k].amount]
           /\ sent = [k \in 1..n |-> IF k \in moved THEN queue[k].amount ELSE 0]
    OBVIOUS
  <2>6. all \in [1..n -> Int] /\ pending \in [1..n -> Int] /\ sent \in [1..n -> Int]
    BY <2>4, <2>5
  <2>7. /\ all \in Seq(Int) /\ pending \in Seq(Int) /\ sent \in Seq(Int)
        /\ Len(all) = n /\ Len(pending) = n /\ Len(sent) = n
    BY <2>6
  <2>8. \A k \in 1..n : pending[k] <= all[k] /\ sent[k] <= all[k]
    BY <2>4, <2>5
  <2>9. SumOf(pending) <= SumOf(all) /\ SumOf(sent) <= SumOf(all)
    BY <2>7, <2>8, SumOfAtMost
  <2>10. SumOf(pending) \in Int /\ SumOf(sent) \in Int /\ SumOf(all) \in Int
    BY <2>7, SumType
  <2>11. Queued(queue) = SumOf(all) /\ PendingTotal(queue) = SumOf(pending)
    BY <2>3, <2>5 DEF Queued, PendingTotal
  <2>12. vault = SumOf(sent)
    BY <2>2, <2>3, <2>5 DEF MovedOf
  <2>13. PICK g \in Int : g = Gains(records)
    <3>1. 0 \in Int
      OBVIOUS
    <3> QED
      BY <2>2, <3>1, GainsMove
  <2>14. Gains(records) = SumOf([k \in DOMAIN records |-> IF records[k] > 0 THEN records[k] ELSE 0])
    <3>1. DOMAIN records = 1..Len(records)
      BY <2>2
    <3> QED
      BY <3>1 DEF Gains
  <2>15. FromEvents(events) = vault
    <3>1. DOMAIN events = 1..Len(events)
      BY <2>2
    <3>2. ASSUME NEW k \in DOMAIN events
          PROVE  events[k].amount =
                   (CASE events[k].kind = "HarvestReceived" -> events[k].amount
                      [] events[k].kind = "WithdrawalCompleted" -> -events[k].amount
                      [] OTHER -> 0)
      <4>1. events[k] \in Received
        BY <2>2, <3>1
      <4>2. events[k].kind = "HarvestReceived"
        BY <4>1 DEF Received
      <4> QED
        BY <4>2
    <3>3. FromEvents(events) = SumOf([k \in 1..Len(events) |-> events[k].amount])
      BY <3>1, <3>2 DEF FromEvents
    <3> QED
      BY <2>2, <3>3
  <2>16. carousel <= 150 * g /\ SumOf(pending) <= 300 * g /\ SumOf(sent) <= 300 * g
    BY <2>2, <2>9, <2>10, <2>11, <2>13
  <2> QED
    BY <2>11, <2>12, <2>13, <2>14, <2>15, <2>16 DEF HarvestsStayWithinGains
<1> QED
  BY <1>1, AccountsInvHolds, PTL
=============================================================================
