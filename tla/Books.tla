-------------------------------- MODULE Books ---------------------------------
(***************************************************************************)
(* The account books as functions on their state: the portfolio            *)
(* (portfolio.rs), the profit harvests of Carousel and of the Vault's      *)
(* harvest engine, the Vault's events, the wash-sale tracker and the       *)
(* pattern-day-trader tracker.  Prices and amounts are integers; a share   *)
(* of an amount is kept in thousandths.                                    *)
(***************************************************************************)
EXTENDS Integers, Sequences, FiniteSets, FiniteSetsExt, Sums

CONSTANTS
    Families,        \* sets of symbols that count as one for a wash sale
    WashDays,        \* 30 in the code
    DayTradeDays,    \* 5
    DayTradeLimit,   \* 3
    DayTradeCap,     \* 20
    GravityWell,     \* smallest harvest into the vault, in thousandths
    MinHarvest       \* smallest harvest of Carousel, in thousandths

ASSUME BooksAssumption ==
    /\ {WashDays, DayTradeDays, DayTradeLimit, DayTradeCap, GravityWell, MinHarvest} \subseteq Nat
    /\ DayTradeLimit <= DayTradeCap
    /\ \A F, G \in Families : F = G \/ F \cap G = {}

Abs(x) == IF x < 0 THEN -x ELSE x

-----------------------------------------------------------------------------
(* The portfolio: a position is a signed quantity and an average entry; a  *)
(* symbol without a position has quantity zero.  A fill is signed too.     *)

NoPosition == [qty |-> 0, avg |-> 0]
Position(qty, avg) == [qty |-> qty, avg |-> avg]

Opens(pos) == pos.qty = 0
Closes(pos, f) == pos.qty # 0 /\ pos.qty + f.qty = 0
Reduces(pos, f) == pos.qty * f.qty < 0

(* What closing n of the shares earns, before commission.                  *)
Profit(pos, n, price) == (price - pos.avg) * n * (IF pos.qty < 0 THEN -1 ELSE 1)

(* The mutant: the entry price moves to that of the last fill.             *)
AverageEntry_Last(pos, f) == f.price

AverageEntry(pos, f) ==
    (pos.avg * Abs(pos.qty) + f.price * Abs(f.qty)) \div Abs(pos.qty + f.qty)

(* The position after a fill.  A fill through zero keeps the old entry.    *)
Filled(pos, f) ==
    IF Opens(pos) THEN Position(f.qty, f.price)
    ELSE IF Closes(pos, f) THEN NoPosition
    ELSE IF Reduces(pos, f) THEN [pos EXCEPT !.qty = @ + f.qty]
    ELSE Position(pos.qty + f.qty, AverageEntry(pos, f))

(* realized_pnl of the record: none unless the fill closes something.      *)
Realized(pos, f) ==
    IF Reduces(pos, f)
    THEN <<Profit(pos, Min({Abs(f.qty), Abs(pos.qty)}), f.price) - f.commission>>
    ELSE <<>>

(* The full close returns before the cash is brought up to date.           *)
CashAfter(cash, pos, f) ==
    IF Closes(pos, f) THEN cash ELSE cash - (f.price * f.qty + f.commission)

-----------------------------------------------------------------------------
(* Harvests, in thousandths.                                               *)

(* The mutant: the rate grows with the account.                            *)
EffectiveRate_Upward(nlv) == IF nlv <= 25000 THEN 150 ELSE (150 * nlv) \div 25000

(* Carousel::effective_rate: 15 % up to a base of 25,000, then inversely   *)
(* to the account's size, and 5 % at least.                                *)
EffectiveRate(nlv) ==
    IF nlv <= 25000 THEN 150 ELSE Max({(150 * 25000) \div nlv, 50})

(* Carousel::calculate_harvest.                                            *)
CarouselHarvest(pnl, nlv) ==
    LET amount == pnl * EffectiveRate(nlv)
    IN  IF pnl > 0 /\ amount >= MinHarvest THEN <<amount>> ELSE <<>>

(* HarvestEngine::calculate_harvest: 30 %, unless below the gravity well.  *)
VaultHarvest(order, pnl) ==
    LET amount == pnl * 300
    IN  IF pnl > 0 /\ amount >= GravityWell
        THEN <<[order |-> order, amount |-> amount, status |-> "PendingSettlement"]>>
        ELSE <<>>

PendingTotal(queue) ==
    SumOf([i \in DOMAIN queue |->
        IF queue[i].status \in {"Completed", "Cancelled"} THEN 0 ELSE queue[i].amount])

CancelForOrder(queue, order) ==
    [i \in DOMAIN queue |->
        IF queue[i].order = order /\ queue[i].status = "PendingSettlement"
        THEN [queue[i] EXCEPT !.status = "Cancelled"] ELSE queue[i]]

(* Vault::from_events.                                                     *)
FromEvents(events) ==
    SumOf([i \in DOMAIN events |->
              CASE events[i].kind = "HarvestReceived" -> events[i].amount
                [] events[i].kind = "WithdrawalCompleted" -> -events[i].amount
                [] OTHER -> 0])

-----------------------------------------------------------------------------
(* The wash-sale tracker: losses are pairs <<symbol, day>>.                *)

FamilyOf(s) == {s} \cup UNION {F \in Families : s \in F}

(* The mutant: losses are dropped with the first day they still count.     *)
Prune_TooEarly(losses, today) == {l \in losses : l[2] > today - WashDays}

(* One day longer than they count.                                         *)
Prune(losses, today) == {l \in losses : l[2] >= today - (WashDays + 1)}

RecordLoss(losses, s, day, today) == Prune(losses \cup {<<s, day>>}, today)

IsBlocked(losses, s, today) ==
    \E l \in losses : l[1] \in FamilyOf(s) /\ l[2] >= today - WashDays

(* Symbols with the days that remain, of the losing symbols themselves.    *)
BlockedSymbols(losses, today) ==
    {<<l[1], WashDays - (today - l[2])>> : l \in {m \in losses : m[2] >= today - WashDays}}

-----------------------------------------------------------------------------
(* The day-trade tracker: the days of the trades, oldest first.            *)

Recent(days, today) == {k \in DOMAIN days : days[k] >= today - DayTradeDays}

CanDayTrade(days, equity, today) ==
    equity >= 25000 \/ Cardinality(Recent(days, today)) < DayTradeLimit

(* The mutant: a full tracker lets go of the newest day.                   *)
RecordDayTrade_DropsNewest(days, day) ==
    IF Len(days) >= DayTradeCap THEN days ELSE Append(days, day)

RecordDayTrade(days, day) ==
    LET longer == Append(days, day)
    IN  IF Len(longer) > DayTradeCap THEN Tail(longer) ELSE longer
=============================================================================
