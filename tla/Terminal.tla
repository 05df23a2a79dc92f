------------------------------- MODULE Terminal -------------------------------
(***************************************************************************)
(* The terminal apart from its approvals (talon-triminl input.rs, app.rs,  *)
(* render.rs; Console has the approvals), with its partners in main.rs:    *)
(* the state loop, which fills the watchlist, and the chart manager, which *)
(* fetches candles for the row the operator moved to.                      *)
(*                                                                         *)
(* The terminal acts on its own copy of AppState; a chart request names    *)
(* what that copy had under the cursor, waits in a bounded channel, and is *)
(* answered by the manager in its own time.                                *)
(***************************************************************************)
EXTENDS Integers, FiniteSets, Sequences, SequencesExt

CONSTANTS
    Symbols,       \* the symbols quotes can come for
    Timeframes,    \* Timeframe::ALL, a sequence: eight in the code
    FirstFrame,    \* StockDetailState::default: Day
    ChartCap,      \* capacity of the chart channel: 16 in the code
    Nothing        \* no symbol, no request

ASSUME TerminalAssumption ==
    /\ IsFiniteSet(Symbols) /\ Nothing \notin Symbols
    /\ Timeframes \in Seq(ToSet(Timeframes)) /\ IsInjective(Timeframes)
    /\ FirstFrame \in ToSet(Timeframes)
    /\ ChartCap \in Nat \ {0}

Overlays == {"None", "Help", "DebugLog", "Modules", "RiskMesh", "Eject"}
Modes    == {"Watchlist", "Portfolio"}

(* ChartCmd::FetchCandles; a chart is the request it answers, or Nothing,  *)
(* and whether there are candles to draw.                                  *)
Fetch(s, t) == [symbol |-> s, timeframe |-> t]
Requests == [symbol : Symbols, timeframe : ToSet(Timeframes)]
NoChart == [of |-> Nothing, candles |-> FALSE]

VARIABLES
    list,        \* AppState.watchlist_quotes: the symbols, in their order
    chart,       \* AppState.chart_symbol, chart_timeframe, chart_candles
    screen,      \* the terminal's copy of these two
    cursor,      \* watchlist.selected; rows are counted from 0
    timeframe,   \* stock_detail.timeframe
    view,        \* mode, overlay and entry_halt
    chartCh,     \* the chart channel
    fetching,    \* the request the chart manager is working on
    keyed,       \* POLYGON_API_KEY is set
    running,     \* run_tui has not returned
    aimed,       \* history: the last request tried, Nothing if it was dropped
    moved        \* history: since then another symbol came under the cursor

appVars == <<screen, cursor, timeframe, view, running, aimed, moved>>
terminalVars == <<list, chart, appVars, chartCh, fetching, keyed>>

TerminalInit ==
    /\ list = <<>>
    /\ chart = NoChart
    /\ screen = [list |-> <<>>, chart |-> NoChart]
    /\ cursor = 0
    /\ timeframe = FirstFrame
    /\ view = [mode |-> "Watchlist", overlay |-> "None", halt |-> FALSE]
    /\ chartCh = <<>>
    /\ fetching = Nothing
    /\ keyed \in BOOLEAN
    /\ running = TRUE
    /\ aimed = Nothing
    /\ moved = FALSE

-----------------------------------------------------------------------------
(* The state loop.                                                         *)

(* The list is a hash map's values in the map's order: a quote of a known  *)
(* symbol leaves it, a new symbol may come with any order of them all.     *)
OrdersOf(S) == {l \in [1..Cardinality(S) -> S] : IsInjective(l)}

NewSymbol(s) ==
    /\ s \notin ToSet(list)
    /\ list' \in OrdersOf(ToSet(list) \cup {s})
    /\ UNCHANGED <<chart, appVars, chartCh, fetching, keyed>>

-----------------------------------------------------------------------------
(* The chart manager: one request after the other.                         *)

ShowChart(r, candles) == chart' = [of |-> r, candles |-> candles]

(* Without a key the request is answered with an empty chart.              *)
RefuseFetch ==
    /\ ~keyed /\ chartCh # <<>>
    /\ ShowChart(Head(chartCh), FALSE)
    /\ chartCh' = Tail(chartCh)
    /\ UNCHANGED <<list, appVars, fetching, keyed>>

StartFetch ==
    /\ keyed /\ fetching = Nothing /\ chartCh # <<>>
    /\ fetching' = Head(chartCh)
    /\ chartCh' = Tail(chartCh)
    /\ UNCHANGED <<list, chart, appVars, keyed>>

(* The mutant: a failed request leaves the chart as it was.                *)
FetchAnswered_KeepsOnFailure(candles) ==
    /\ fetching # Nothing
    /\ IF candles THEN ShowChart(fetching, TRUE) ELSE UNCHANGED chart
    /\ fetching' = Nothing
    /\ UNCHANGED <<list, appVars, chartCh, keyed>>

(* Polygon answers with bars, with none, or fails: the last two are alike. *)
FetchAnswered(candles) ==
    /\ fetching # Nothing
    /\ ShowChart(fetching, candles)
    /\ fetching' = Nothing
    /\ UNCHANGED <<list, appVars, chartCh, keyed>>

(* What a request to Polygon comes to: whether there are bars to draw.     *)
Aggregates == BOOLEAN

ChartManager == RefuseFetch \/ StartFetch \/ \E candles \in Aggregates : FetchAnswered(candles)

-----------------------------------------------------------------------------
(* What the terminal reads and draws of its copy.                          *)

Row(l, n) == IF n < Len(l) THEN l[n + 1] ELSE Nothing

SelectedSymbol == Row(screen.list, cursor)

(* The detail pane: the header and the tabs are the cursor's and the       *)
(* operator's, the candles are those of whatever chart is in the copy.     *)
DetailPane ==
    [header |-> SelectedSymbol, tab |-> timeframe,
     candles |-> IF screen.chart.candles THEN screen.chart.of ELSE Nothing]

-----------------------------------------------------------------------------
(* The keys.                                                               *)

Place(tf) == CHOOSE i \in DOMAIN Timeframes : Timeframes[i] = tf
NextTimeframe(tf) == Timeframes[(Place(tf) % Len(Timeframes)) + 1]
PrevTimeframe(tf) == Timeframes[((Place(tf) + Len(Timeframes) - 2) % Len(Timeframes)) + 1]

(* request_chart_data, of the row n at the time frame tf: try_send drops   *)
(* the request when the channel is full, and nobody looks at the result.   *)
RequestChart(n, tf) ==
    LET s == Row(screen.list, n)
    IN  IF s = Nothing THEN UNCHANGED <<chartCh, aimed, moved>>
        ELSE /\ moved' = FALSE
             /\ IF Len(chartCh) < ChartCap
                THEN chartCh' = Append(chartCh, Fetch(s, tf)) /\ aimed' = Fetch(s, tf)
                ELSE aimed' = Nothing /\ UNCHANGED chartCh

Elsewhere == UNCHANGED <<list, chart, screen, fetching, keyed, running>>

(* The mutant: the cursor may step below the last row.                     *)
KeyDown_OneTooFar ==
    /\ cursor < Len(screen.list)
    /\ cursor' = cursor + 1
    /\ RequestChart(cursor', timeframe)
    /\ UNCHANGED <<timeframe, view>> /\ Elsewhere

KeyDown ==
    /\ cursor < Len(screen.list) - 1
    /\ cursor' = cursor + 1
    /\ RequestChart(cursor', timeframe)
    /\ UNCHANGED <<timeframe, view>> /\ Elsewhere

KeyUp ==
    /\ cursor > 0
    /\ cursor' = cursor - 1
    /\ RequestChart(cursor', timeframe)
    /\ UNCHANGED <<timeframe, view>> /\ Elsewhere

KeyTimeframe ==
    /\ timeframe' \in {NextTimeframe(timeframe), PrevTimeframe(timeframe)}
    /\ RequestChart(cursor, timeframe')
    /\ UNCHANGED <<cursor, view>> /\ Elsewhere

(* 1, 2 and t; H; and the keys that open an overlay.                       *)
KeyMode == view' \in {[view EXCEPT !.mode = m] : m \in Modes \ {view.mode}}
KeyHalt == view' = [view EXCEPT !.halt = ~@]
KeyOverlay == view' \in {[view EXCEPT !.overlay = o] : o \in Overlays \ {"None"}}

(* Esc closes every overlay; so does the key that opened Help or DebugLog, *)
(* and y the Eject dialogue, which sends nothing yet.  No other key passes. *)
KeyClose ==
    /\ view.overlay # "None"
    /\ view' = [view EXCEPT !.overlay = "None"]

KeyOnMain ==
    /\ view.overlay = "None"
    /\ \/ KeyDown \/ KeyUp \/ KeyTimeframe
       \/ /\ KeyMode \/ KeyHalt \/ KeyOverlay
          /\ UNCHANGED <<cursor, timeframe, chartCh, aimed, moved>> /\ Elsewhere

KeyOnOverlay ==
    /\ KeyClose
    /\ UNCHANGED <<cursor, timeframe, chartCh, aimed, moved>> /\ Elsewhere

(* q and Ctrl+C on the main view, Ctrl+X anywhere, the end of the keyboard *)
(* or an error of it leave the loop; a drawing that fails returns at once, *)
(* and main then skips the event store's shutdown (EventStore has both).   *)
Leave ==
    /\ running' = FALSE
    /\ UNCHANGED <<list, chart, screen, cursor, timeframe, view, chartCh,
                   fetching, keyed, aimed, moved>>

-----------------------------------------------------------------------------
(* The watch channel signals a change: the latest AppState is copied.  The *)
(* cursor stays on its row, whichever symbol that row has now.             *)
StateChanged ==
    /\ screen # [list |-> list, chart |-> chart]
    /\ screen' = [list |-> list, chart |-> chart]
    /\ moved' = (moved \/ Row(list, cursor) # SelectedSymbol)
    /\ UNCHANGED <<list, chart, cursor, timeframe, view, chartCh, fetching,
                   keyed, running, aimed>>

RunTui == KeyOnMain \/ KeyOnOverlay \/ Leave \/ StateChanged

(* The process ends with the terminal.                                     *)
TerminalNext ==
    /\ running
    /\ \/ \E s \in Symbols : NewSymbol(s)
       \/ ChartManager
       \/ RunTui

TerminalSpec == TerminalInit /\ [][TerminalNext]_terminalVars

-----------------------------------------------------------------------------
(* The variables have their types, the list has every symbol at most once, *)
(* and the cursor is on a row of it, though the list was replaced at any   *)
(* time under the cursor (handle_key, selected_quote).                     *)
TerminalTypeOK ==
    /\ list \in UNION {OrdersOf(S) : S \in SUBSET Symbols}
    /\ {chart.of, screen.chart.of, fetching, aimed} \subseteq Requests \cup {Nothing}
    /\ cursor \in 0..Cardinality(Symbols)
    /\ screen.list # <<>> => SelectedSymbol \in Symbols
    /\ timeframe \in ToSet(Timeframes)
    /\ view \in [mode : Modes, overlay : Overlays, halt : BOOLEAN]
    /\ chartCh \in Seq(Requests) /\ Len(chartCh) <= ChartCap

(* Nothing is on its way to the screen.                                    *)
Settled ==
    /\ chartCh = <<>> /\ fetching = Nothing
    /\ screen = [list |-> list, chart |-> chart]

(* Once all requests are answered, the pane's candles are the header's, at *)
(* the time frame of the tab, however fast the operator moved and however  *)
(* slow or unsuccessful the fetches were, unless the last request was      *)
(* dropped or another symbol moved under the cursor (request_chart_data,   *)
(* run_chart_manager, stock_detail::draw).                                 *)
CandlesAreTheHeaders ==
    LET p == DetailPane
    IN  Settled /\ aimed # Nothing /\ ~moved /\ p.candles # Nothing
          => p.candles = Fetch(p.header, p.tab)
=============================================================================
