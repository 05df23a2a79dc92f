-------------------------------- MODULE Market --------------------------------
(***************************************************************************)
(* The market data wiring of main.rs: the IBKR bars cross a bounded        *)
(* channel and its bridge, the Polygon and Yahoo pollers publish directly, *)
(* and two loops read the one broadcast at their own pace: the state loop, *)
(* which keeps the watchlist, and the module loop, which feeds the         *)
(* strategies and sends their intents.  A reader that falls more than the  *)
(* capacity behind loses the oldest quotes and is told so.                 *)
(***************************************************************************)
EXTENDS Strategies, FiniteSets

CONSTANTS
    Symbols,
    Bars,            \* the IBKR bars that may arrive
    Snapshots,       \* the Polygon snapshots; empty without an API key
    Fallbacks,       \* the Yahoo quotes
    BarCap,          \* mpsc channel of the bars: 4096 in the code
    QuoteCap,        \* broadcast channel of the quotes: 4096
    IntentCap,       \* intent channel: 256
    MaxQuotes        \* bound: quotes the sources bring altogether

ASSUME MarketAssumption ==
    /\ {BarCap, QuoteCap, IntentCap} \subseteq Nat \ {0} /\ MaxQuotes \in Nat
    /\ Bars \cup Fallbacks \subseteq [symbol : Symbols, close : Nat, volume : Nat]
    /\ Snapshots \subseteq [symbol : Symbols, traded : BOOLEAN, price : Nat,
                            dayVolume : Nat, prevVolume : Nat, low : SUBSET Nat]
    /\ \A p \in Snapshots : \A l, h \in p.low : l = h

Modules == {"Firebird", "Thunderbird", "Taxi"}
Rank == [m \in Modules |-> CASE m = "Firebird" -> 1 [] m = "Thunderbird" -> 2 [] OTHER -> 3]
Readers == {"state", "modules"}

VARIABLES
    barCh,           \* bars on the way to the bridge
    published,       \* every quote ever published, in order
    cursor,          \* how many quotes each reader has behind it
    lost,            \* the quotes each reader never got
    shown,           \* AppState: per symbol the quote of the watchlist, 0 for none
    memory,          \* windows and readings of each module and symbol
    outbox,          \* intents of the quote in hand, still to be sent
    found,           \* setups of the quote in hand
    inHand,          \* the module loop is handling a quote
    signals,         \* signal counter of each module
    scanner,         \* AppState: approaching setups
    counted,         \* AppState: signals_generated of each module
    sent,            \* every intent ever sent to the gate, with its quote
    taken            \* how many of them the gate has taken

sourceVars == <<barCh, published>>
moduleVars == <<memory, outbox, found, inHand, signals, scanner, counted, sent>>
marketVars == <<sourceVars, cursor, lost, shown, moduleVars, taken>>

Zero == [m \in Modules |-> 0]

MarketInit ==
    /\ barCh = <<>> /\ published = <<>>
    /\ cursor = [r \in Readers |-> 0]
    /\ lost = [r \in Readers |-> {}]
    /\ shown = [s \in Symbols |-> 0]
    /\ memory = [m \in Modules |-> [s \in Symbols |-> Blank]]
    /\ outbox = <<>> /\ found = {} /\ inHand = FALSE
    /\ signals = Zero /\ scanner = {} /\ counted = Zero
    /\ sent = <<>> /\ taken = 0

-----------------------------------------------------------------------------
(* The sources.  A poller goes round its symbols and skips the ones that   *)
(* fail: any symbol may be the next that succeeds.                         *)

Readings == Len(barCh) + Len(published) < MaxQuotes
Publish(q) == published' = Append(published, q)
OthersThanSources == UNCHANGED <<cursor, lost, shown, moduleVars, taken>>

BarArrives(b) ==
    /\ Readings
    /\ Len(barCh) < BarCap
    /\ barCh' = Append(barCh, BarQuote(b))
    /\ UNCHANGED published
    /\ OthersThanSources

Bridge ==
    /\ barCh # <<>>
    /\ Publish(Head(barCh))
    /\ barCh' = Tail(barCh)
    /\ OthersThanSources

PolygonPolls(p) ==
    /\ Readings
    /\ Publish(SnapshotQuote(p))
    /\ UNCHANGED barCh
    /\ OthersThanSources

YahooPolls(y) ==
    /\ Readings
    /\ Publish(FallbackQuote(y))
    /\ UNCHANGED barCh
    /\ OthersThanSources

Sources ==
    \/ \E b \in Bars : BarArrives(b)
    \/ Bridge
    \/ \E p \in Snapshots : PolygonPolls(p)
    \/ \E y \in Fallbacks : YahooPolls(y)

-----------------------------------------------------------------------------
(* Receiving from the broadcast.                                           *)

Published == Len(published)

(* A reader's quotes begin with its subscription: what the pollers         *)
(* published before it is not for the reader and is left out here.         *)
Behind(r) == Published - cursor[r]

(* The mutant: the reader believes it has nothing to read.                 *)
SkipLost_WaitsForNews(r) ==
    /\ cursor' = [cursor EXCEPT ![r] = Published]
    /\ UNCHANGED lost

(* A reader that lags is moved to the oldest quote still in the channel.   *)
SkipLost(r) ==
    /\ cursor' = [cursor EXCEPT ![r] = Published - QuoteCap]
    /\ lost' = [lost EXCEPT ![r] = @ \cup (cursor[r] + 1)..(Published - QuoteCap)]

Lagged(r) ==
    /\ Behind(r) > QuoteCap
    /\ SkipLost(r)
    /\ UNCHANGED <<sourceVars, shown, moduleVars, taken>>

Received(r) ==
    /\ Behind(r) \in 1..QuoteCap
    /\ cursor' = [cursor EXCEPT ![r] = @ + 1]
    /\ UNCHANGED lost

-----------------------------------------------------------------------------
(* The state loop.  Between two quotes it may be busy fetching the account *)
(* and the positions, for as long as the broker takes: it then reads       *)
(* nothing, as a slow reader does.                                         *)

StateLag == Lagged("state")

StateQuote ==
    /\ Received("state")
    /\ LET k == cursor["state"] + 1
       IN  shown' = [shown EXCEPT ![published[k].symbol] = k]
    /\ UNCHANGED <<sourceVars, moduleVars, taken>>

StateLoop == StateLag \/ StateQuote

-----------------------------------------------------------------------------
(* The module loop.                                                        *)

OnQuote(m, old, q) ==
    CASE m = "Firebird" -> Firebird(old, q)
      [] m = "Thunderbird" -> Thunderbird(old, q)
      [] m = "Taxi" -> Taxi(old, q)

ModuleLag == ~inHand /\ Lagged("modules")

(* The intents of one quote, in the order of the modules, each with its k. *)
InModuleOrder(results, k) ==
    LET intents == results["Firebird"].intents \o results["Thunderbird"].intents
                     \o results["Taxi"].intents
    IN  [i \in DOMAIN intents |-> [quote |-> k, intent |-> intents[i]]]

ModulesOnQuote ==
    /\ ~inHand
    /\ Received("modules")
    /\ LET k == cursor["modules"] + 1
           q == published[k]
           results == [m \in Modules |-> OnQuote(m, memory[m][q.symbol], q)]
       IN  /\ memory' = [m \in Modules |->
                            [memory[m] EXCEPT ![q.symbol] = results[m].mem]]
           /\ outbox' = InModuleOrder(results, k)
           /\ found' = UNION {results[m].setups : m \in Modules}
           /\ signals' = [m \in Modules |-> signals[m] + Len(results[m].intents)]
    /\ inHand' = TRUE
    /\ UNCHANGED <<sourceVars, shown, scanner, counted, sent, taken>>

(* The mutant: an intent that was sent may stay in the outbox.             *)
Sending_Twice == outbox' \in {outbox, Tail(outbox)}

Sending == outbox' = Tail(outbox)

(* The send waits for a free slot in the intent channel.                   *)
SendIntent ==
    /\ outbox # <<>>
    /\ Len(sent) - taken < IntentCap
    /\ sent' = Append(sent, Head(outbox))
    /\ Sending
    /\ UNCHANGED <<sourceVars, cursor, lost, shown, memory, found, inHand,
                   signals, scanner, counted, taken>>

(* Only now AppState is changed: the setups are those of this quote alone. *)
ModulesPublish ==
    /\ inHand /\ outbox = <<>>
    /\ inHand' = FALSE
    /\ scanner' = found
    /\ found' = {}
    /\ counted' = signals
    /\ UNCHANGED <<sourceVars, cursor, lost, shown, memory, outbox, signals,
                   sent, taken>>

ModuleLoop == ModuleLag \/ ModulesOnQuote \/ SendIntent \/ ModulesPublish

GateTakes ==
    /\ taken < Len(sent)
    /\ taken' = taken + 1
    /\ UNCHANGED <<sourceVars, cursor, lost, shown, moduleVars>>

MarketNext ==
    \/ Sources
    \/ StateLoop
    \/ ModuleLoop
    \/ GateTakes

MarketSpec == MarketInit /\ [][MarketNext]_marketVars

-----------------------------------------------------------------------------
(* Properties.                                                             *)

(* The quotes of symbol s among the first k, in order, without the missed. *)
TapeOf(quotes, missed, s) ==
    LET tape[k \in 0..Len(quotes)] ==
            IF k = 0 THEN <<>>
            ELSE IF k \notin missed /\ quotes[k].symbol = s
            THEN Append(tape[k - 1], quotes[k])
            ELSE tape[k - 1]
    IN  tape

(* The quotes of symbol s a module was given.                              *)
Tape(s) == TapeOf(published, lost["modules"], s)[cursor["modules"]]

IsLatest(w, tape, n) == w = IF Len(tape) > n THEN Latest(tape, n) ELSE tape

(* Every window is the end of the symbol's own tape, as long as the module *)
(* keeps it: whatever was interleaved or lost to lag, a module sees no     *)
(* quote of another symbol, none twice and none out of order, and the      *)
(* three modules judge the same prices.                                    *)
WindowsAreTheTape ==
    \A s \in Symbols :
        LET prices == [i \in DOMAIN Tape(s) |-> Tape(s)[i].last]
            volumes == [i \in DOMAIN Tape(s) |-> Tape(s)[i].volume]
        IN  /\ IsLatest(memory["Firebird"][s].prices, prices, RsiPeriod + 2)
            /\ IsLatest(memory["Firebird"][s].volumes, volumes, VolLookback + 1)
            /\ IsLatest(memory["Thunderbird"][s].prices, prices, BbPeriod + 2)
            /\ IsLatest(memory["Thunderbird"][s].volumes, volumes, BbPeriod + 2)
            /\ IsLatest(memory["Taxi"][s].prices, prices, SwingLookback + 2)
            /\ IsLatest(memory["Taxi"][s].volumes, volumes, SwingLookback + 2)

(* What reaches the gate is in the order of the quotes and, for one quote, *)
(* of the modules, with no intent twice; and once a quote is dealt with    *)
(* the signals shown are the intents sent.                                 *)
SignalsInOrder ==
    /\ \A i, j \in DOMAIN sent : i < j =>
          \/ sent[i].quote < sent[j].quote
          \/ /\ sent[i].quote = sent[j].quote
             /\ Rank[sent[i].intent.module] < Rank[sent[j].intent.module]
    /\ ~inHand => \A m \in Modules :
          counted[m] = Cardinality({k \in DOMAIN sent : sent[k].intent.module = m})

(* No quote makes Firebird buy a symbol and Thunderbird sell it short: an  *)
(* oversold price is never above the upper band.                           *)
NoOpposedReversals ==
    \A i, j \in DOMAIN sent :
        sent[i].quote = sent[j].quote /\ sent[i].intent.module = "Firebird"
          => sent[j].intent.module # "Thunderbird"

(* The stop of an intent is there and on the losing side of its limit.     *)
Stopped(i) ==
    /\ i.stop # NoPrice
    /\ \A s \in i.stop : IF i.side = "Long" THEN s < i.limit ELSE i.limit < s

(* The target of an intent that was made of a traded price lies beyond its *)
(* limit and its stop on the other side.  Only Firebird ever sends one     *)
(* without such a stop: for a quote without the day's low, a bar or a      *)
(* fallback, none at all, and one at or above the limit for a quote whose  *)
(* low is above its last price.                                            *)
BracketsAreSane ==
    \A k \in DOMAIN sent :
        LET i == sent[k].intent
            q == published[sent[k].quote]
        IN  q.last # 0 =>
               /\ IF i.side = "Long" THEN i.limit < i.target ELSE i.target < i.limit
               /\ Stopped(i) \/ (i.module = "Firebird" /\ \A l \in q.low : q.last < l)

(* A setup of Firebird is called heating exactly when the RSI fell with    *)
(* the last quote the module was given of that symbol.  The other modules' *)
(* setups can be judged against a reading many quotes old.                 *)
HeatIsReal ==
    \A x \in scanner :
        x.module = "Firebird" /\ ~inHand =>
            LET prices == memory["Firebird"][x.symbol].prices
            IN  x.heating <=> /\ Len(prices) > RsiPeriod + 1
                              /\ Below(RsiOf(prices), RsiOf(Front(prices)))

(* A quote behind the state loop that was not lost is on the watchlist, or *)
(* a later one of its symbol is: the list never goes back.                 *)
WatchlistIsNewest ==
    \A s \in Symbols :
        \A k \in 1..cursor["state"] :
            published[k].symbol = s /\ k \notin lost["state"] => shown[s] >= k
=============================================================================
