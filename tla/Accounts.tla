------------------------------- MODULE Accounts -------------------------------
(***************************************************************************)
(* The books used together: fills change the portfolio, a realized gain is *)
(* harvested by Carousel and by the Vault, a realized loss is recorded as  *)
(* a possible wash sale, and a position reduced on the day it was opened   *)
(* is recorded as a day trade.  The repository has these interfaces and    *)
(* their tests; main.rs does not call them yet, so the order of the calls  *)
(* here is that of the interfaces' own docs.                               *)
(***************************************************************************)
EXTENDS Books, SequencesExt

CONSTANTS
    Symbols,
    Trades,          \* the fills that may come: symbol, quantity and price
    Commission,
    NetLiqs,         \* net liquidations Carousel may be told
    Equities,        \* equities the day-trade tracker may be told
    StartingCapital,
    MaxShares,       \* bound: shares of a symbol held or sold short
    MaxFills,        \* bound: fills altogether
    MaxDays          \* bound: days that pass

ASSUME AccountsAssumption ==
    /\ Trades \subseteq [symbol : Symbols, qty : Int, price : Int]
    /\ {Commission, StartingCapital} \subseteq Int
    /\ NetLiqs \subseteq Int /\ Equities \subseteq Int
    /\ {MaxShares, MaxFills, MaxDays} \subseteq Nat

VARIABLES
    today,
    fills,           \* every fill so far, with its day
    positions,
    cash,
    realized,        \* realized_pnl_today, never reset
    records,         \* realized P&L of each record that has one
    openedOn,        \* day a position was last opened or added to
    carousel,        \* total_harvested, and pending_harvest with it
    queue,           \* the Vault's harvest queue
    vault,           \* Vault::total
    events,          \* Vault::events
    moved,           \* entries of the queue that were transferred
    losses,          \* of the wash-sale tracker
    dayTrades,       \* of the day-trade tracker
    closedAtLoss,    \* every loss recorded so far, for the properties
    traded           \* the day of every day trade recorded, for the properties

ledgerVars == <<fills, positions, cash, realized, records, openedOn>>
harvestVars == <<carousel, queue, vault, events, moved>>
trackerVars == <<losses, dayTrades, closedAtLoss, traded>>
accountVars == <<today, ledgerVars, harvestVars, trackerVars>>

AccountsInit ==
    /\ today = 0
    /\ fills = <<>> /\ records = <<>>
    /\ positions = [s \in Symbols |-> NoPosition]
    /\ cash = StartingCapital /\ realized = 0
    /\ openedOn = [s \in Symbols |-> 0]
    /\ carousel = 0 /\ queue = <<>> /\ vault = 0 /\ events = <<>> /\ moved = {}
    /\ losses = {} /\ dayTrades = <<>> /\ closedAtLoss = {} /\ traded = <<>>

IsDayTrade(f) == Reduces(positions[f.symbol], f) /\ openedOn[f.symbol] = today

(* A fill and what its record gives rise to.                               *)
Fill(t, nlv) ==
    LET f == [symbol |-> t.symbol, qty |-> t.qty, price |-> t.price,
              commission |-> Commission, day |-> today]
        s == f.symbol
        pos == positions[s]
        pnl == Realized(pos, f)
        order == Len(fills) + 1
    IN  /\ Len(fills) < MaxFills /\ Abs(pos.qty + f.qty) <= MaxShares
        /\ fills' = Append(fills, f)
        /\ positions' = [positions EXCEPT ![s] = Filled(pos, f)]
        /\ cash' = CashAfter(cash, pos, f)
        /\ realized' = realized + SumOf(pnl)
        /\ records' = records \o pnl
        /\ openedOn' = IF Reduces(pos, f) THEN openedOn ELSE [openedOn EXCEPT ![s] = today]
        /\ carousel' = carousel + (IF pnl = <<>> THEN 0 ELSE SumOf(CarouselHarvest(pnl[1], nlv)))
        /\ queue' = queue \o (IF pnl = <<>> THEN <<>> ELSE VaultHarvest(order, pnl[1]))
        /\ IF pnl # <<>> /\ pnl[1] < 0
           THEN /\ losses' = RecordLoss(losses, s, today, today)
                /\ closedAtLoss' = closedAtLoss \cup {<<s, today>>}
           ELSE UNCHANGED <<losses, closedAtLoss>>
        /\ IF IsDayTrade(f)
           THEN /\ dayTrades' = RecordDayTrade(dayTrades, today)
                /\ traded' = Append(traded, today)
           ELSE UNCHANGED <<dayTrades, traded>>
        /\ UNCHANGED <<today, vault, events, moved>>

(* receive_harvest of an entry of the queue: nothing in the code marks the *)
(* entry, so the caller has to remember what it moved.                     *)
Transfer(k) ==
    /\ k \notin moved
    /\ queue[k].status # "Cancelled"
    /\ vault' = vault + queue[k].amount
    /\ events' = Append(events, [kind |-> "HarvestReceived", amount |-> queue[k].amount])
    /\ moved' = moved \cup {k}
    /\ UNCHANGED <<today, ledgerVars, carousel, queue, trackerVars>>

Cancel(k) ==
    /\ queue[k].status = "PendingSettlement"
    /\ queue' = CancelForOrder(queue, queue[k].order)
    /\ UNCHANGED <<today, ledgerVars, carousel, vault, events, moved, trackerVars>>

DayPasses ==
    /\ today < MaxDays
    /\ today' = today + 1
    /\ UNCHANGED <<ledgerVars, harvestVars, trackerVars>>

AccountsNext ==
    \/ \E t \in Trades, n \in NetLiqs : Fill(t, n)
    \/ \E k \in DOMAIN queue : Transfer(k) \/ Cancel(k)
    \/ DayPasses

AccountsSpec == AccountsInit /\ [][AccountsNext]_accountVars

-----------------------------------------------------------------------------
(* The quantity held of a symbol after the first n fills.                  *)
Held(s, n) == SumOf([k \in 1..n |-> IF fills[k].symbol = s THEN fills[k].qty ELSE 0])

ClosesFully(n) == LET s == fills[n].symbol IN Held(s, n - 1) # 0 /\ Held(s, n) = 0
GoesThroughZero(n) == LET s == fills[n].symbol IN Held(s, n - 1) * Held(s, n) < 0

(* The realized profits are what the fills earned: their cash flow, with   *)
(* the open positions at their entry prices, less the commissions of the   *)
(* fills that closed something.                                            *)
ProfitsAddUp ==
    LET symbols == SetToSeq(Symbols)
        Open(s) == positions[s].qty * positions[s].avg
    IN  SumOf(records) =
            SumOf([k \in DOMAIN symbols |-> Open(symbols[k])])
            - SumOf([n \in DOMAIN fills |-> fills[n].price * fills[n].qty])
            - Commission * Len(records)

(* Cash is the starting capital less what every fill cost, except that the *)
(* fills which closed a position fully are missing from it.                *)
CashAddsUp ==
    cash = StartingCapital -
        SumOf([n \in DOMAIN fills |->
            IF ClosesFully(n) THEN 0 ELSE fills[n].price * fills[n].qty + fills[n].commission])

(* The ledger adds up: the profits as long as no fill went through zero,   *)
(* the day's figure and the cash in any case (Portfolio::apply_fill).      *)
LedgerAddsUp ==
    /\ (\A n \in DOMAIN fills : ~GoesThroughZero(n)) => ProfitsAddUp
    /\ realized = SumOf(records)
    /\ CashAddsUp

(* Only gains are harvested, and only their share of each: 15 % at most by *)
(* Carousel, 30 % by the Vault, whether pending or moved; and the Vault's  *)
(* total is the one its events rebuild.                                    *)
HarvestsStayWithinGains ==
    LET gains == SumOf([k \in DOMAIN records |-> IF records[k] > 0 THEN records[k] ELSE 0])
    IN  /\ carousel <= 150 * gains
        /\ PendingTotal(queue) <= 300 * gains
        /\ vault <= 300 * gains
        /\ FromEvents(events) = vault

(* A symbol is blocked exactly when it or a member of its family was       *)
(* closed at a loss within the last WashDays, however the losses were      *)
(* pruned since; and every symbol the tracker lists is blocked, with days  *)
(* left to wait.                                                           *)
WashWindowIsExact ==
    /\ \A s \in Symbols :
          IsBlocked(losses, s, today) <=>
          \E l \in closedAtLoss : l[1] \in FamilyOf(s) /\ today - l[2] <= WashDays
    /\ \A b \in BlockedSymbols(losses, today) :
          IsBlocked(losses, b[1], today) /\ b[2] \in 0..WashDays

(* The day-trade tracker, which keeps only the last DayTradeCap days,      *)
(* forgets nothing that counts: at any equity and on any day its answer is *)
(* the one the whole history of day trades gives for the DayTradeDays days *)
(* before.  They are calendar days as in the code; the architecture's      *)
(* window of five business days is longer.                                 *)
PdtForgetsNothing ==
    \A e \in Equities :
        CanDayTrade(dayTrades, e, today) <=>
            \/ e >= 25000
            \/ Cardinality({k \in DOMAIN traded : traded[k] >= today - DayTradeDays})
                  < DayTradeLimit
=============================================================================
