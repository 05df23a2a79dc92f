---------------------------- MODULE TerminalProofs ----------------------------
(***************************************************************************)
(* What TLAPS proves of the terminal: its types, with the cursor on a row  *)
(* of the list whatever the list is replaced by, and that the candles on   *)
(* the screen are those of the header.                                     *)
(***************************************************************************)
EXTENDS Terminal, SequenceTheorems, FunctionTheorems, FiniteSetTheorems, TLAPS

-----------------------------------------------------------------------------
(* The inductive invariant.                                                *)

WatchLists == UNION {OrdersOf(S) : S \in SUBSET Symbols}
Charts == [of : Requests \cup {Nothing}, candles : BOOLEAN]

(* The list only grows: the copy the cursor is on is never the longer one. *)
CursorOnTheList ==
    /\ list \in WatchLists /\ screen.list \in WatchLists
    /\ Len(screen.list) <= Len(list)
    /\ cursor \in Nat
    /\ cursor = 0 \/ cursor < Len(screen.list)

Kinds ==
    /\ chart \in Charts
    /\ screen \in [list : WatchLists, chart : Charts]
    /\ {fetching, aimed} \subseteq Requests \cup {Nothing}
    /\ timeframe \in ToSet(Timeframes)
    /\ view \in [mode : Modes, overlay : Overlays, halt : BOOLEAN]
    /\ chartCh \in Seq(Requests) /\ Len(chartCh) <= ChartCap
    /\ {keyed, moved} \subseteq BOOLEAN
    /\ ~keyed => fetching = Nothing

(* The last request tried is the last in the channel, or being fetched, or *)
(* answered by the chart.                                                  *)
LastWins ==
    aimed # Nothing =>
        \/ chartCh # <<>> /\ chartCh[Len(chartCh)] = aimed
        \/ chartCh = <<>> /\ fetching = aimed
        \/ chartCh = <<>> /\ fetching = Nothing /\ chart.of = aimed

(* It named what the pane still shows.                                     *)
AimIsTrue ==
    aimed # Nothing /\ ~moved => Fetch(SelectedSymbol, timeframe) = aimed

TerminalInv == CursorOnTheList /\ Kinds /\ LastWins /\ AimIsTrue

-----------------------------------------------------------------------------
(* Lists and rows.                                                         *)

(* A list of a set's members has each of them at one place.                *)
LEMMA OrderIsExact ==
    ASSUME NEW S \in SUBSET Symbols, NEW l \in OrdersOf(S)
    PROVE  /\ IsFiniteSet(S) /\ l \in Seq(Symbols)
           /\ Len(l) = Cardinality(S) /\ ToSet(l) = S
<1>1. IsFiniteSet(S) /\ Cardinality(S) \in Nat
  BY TerminalAssumption, FS_Subset, FS_CardinalityType
<1>2. PICK c \in Nat : c = Cardinality(S)
  BY <1>1
<1>3. l \in [1..c -> S] /\ IsInjective(l)
  BY <1>2 DEF OrdersOf
<1>4. IsFiniteSet(1..c) /\ Cardinality(1..c) = c
  BY <1>2, FS_Interval
<1>5. l \in Injection(1..c, S)
  BY <1>3 DEF Injection, IsInjective
<1>6. l \in Surjection(1..c, S)
  BY <1>1, <1>2, <1>4, <1>5, FS_Injection
<1>7. \A x \in S : \E i \in 1..c : l[i] = x
  BY <1>6 DEF Surjection
<1>8. l \in Seq(Symbols) /\ Len(l) = c /\ DOMAIN l = 1..c
  BY <1>3
<1>9. ToSet(l) = S
  BY <1>3, <1>7, <1>8 DEF ToSet
<1> QED
  BY <1>1, <1>2, <1>8, <1>9

(* A watchlist is a sequence of at most all symbols.                       *)
LEMMA ListType ==
    ASSUME NEW l \in WatchLists
    PROVE  /\ l \in Seq(Symbols) /\ ToSet(l) \in SUBSET Symbols
           /\ Len(l) \in 0..Cardinality(Symbols)
<1>1. PICK S \in SUBSET Symbols : l \in OrdersOf(S)
  BY DEF WatchLists
<1>2. l \in Seq(Symbols) /\ Len(l) = Cardinality(S) /\ ToSet(l) = S /\ IsFiniteSet(S)
  BY <1>1, OrderIsExact
<1>3. /\ Cardinality(S) <= Cardinality(Symbols)
      /\ Cardinality(Symbols) \in Nat /\ Cardinality(S) \in Nat
  BY <1>2, TerminalAssumption, FS_Subset, FS_CardinalityType
<1> QED
  BY <1>2, <1>3

(* A new symbol makes the list longer, whatever order it comes in.         *)
LEMMA ListGrows ==
    ASSUME NEW l \in WatchLists, NEW s \in Symbols, s \notin ToSet(l),
           NEW m \in OrdersOf(ToSet(l) \cup {s})
    PROVE  m \in WatchLists /\ Len(m) = Len(l) + 1
<1>1. PICK S \in SUBSET Symbols : l \in OrdersOf(S)
  BY DEF WatchLists
<1>2. Len(l) = Cardinality(S) /\ ToSet(l) = S /\ IsFiniteSet(S)
  BY <1>1, OrderIsExact
<1>3. S \cup {s} \in SUBSET Symbols /\ m \in OrdersOf(S \cup {s})
  BY <1>2
<1>4. Cardinality(S \cup {s}) = Cardinality(S) + 1
  BY <1>2, FS_AddElement
<1>5. Len(m) = Cardinality(S \cup {s})
  BY <1>3, OrderIsExact
<1> QED
  BY <1>2, <1>3, <1>4, <1>5 DEF WatchLists

(* A row number within the list names a symbol, beyond it nothing.         *)
LEMMA RowOfList ==
    ASSUME NEW l \in WatchLists, NEW n \in Nat
    PROVE  /\ n < Len(l) => Row(l, n) \in Symbols /\ Row(l, n) # Nothing
           /\ ~(n < Len(l)) => Row(l, n) = Nothing
<1>1. l \in Seq(Symbols) /\ Len(l) \in Nat
  BY ListType
<1>2. ASSUME n < Len(l) PROVE Row(l, n) \in Symbols
  <2>1. n + 1 \in 1..Len(l)
    BY <1>1, <1>2
  <2> QED
    BY <1>1, <1>2, <2>1 DEF Row
<1> QED
  BY <1>2, TerminalAssumption DEF Row

(* The time frames are a cycle.                                            *)
LEMMA FrameType ==
    ASSUME NEW tf \in ToSet(Timeframes)
    PROVE  NextTimeframe(tf) \in ToSet(Timeframes) /\ PrevTimeframe(tf) \in ToSet(Timeframes)
<1>1. PICK T : T = Timeframes /\ T \in Seq(ToSet(Timeframes))
  BY TerminalAssumption
<1>2. PICK n \in Nat : n = Len(T) /\ DOMAIN T = 1..n
  BY <1>1
<1>3. \E i \in 1..n : T[i] = tf
  BY <1>1, <1>2 DEF ToSet
<1>4. PICK i \in 1..n : i = Place(tf)
  BY <1>1, <1>2, <1>3 DEF Place
<1>5. n \in Nat \ {0} /\ i + n - 2 \in Int
  BY <1>4
<1>6. \A k \in Int : (k % n) + 1 \in 1..n
  BY <1>5
<1>7. (i % n) + 1 \in 1..n /\ ((i + n - 2) % n) + 1 \in 1..n
  BY <1>5, <1>6
<1>8. \A k \in 1..n : T[k] \in ToSet(Timeframes)
  BY <1>1, <1>2 DEF ToSet
<1> QED
  BY <1>1, <1>2, <1>4, <1>7, <1>8 DEF NextTimeframe, PrevTimeframe

-----------------------------------------------------------------------------
(* The request a key makes: it is last in the channel, or was dropped, or  *)
(* there was no row to make it for.                                        *)
LEMMA RequestOutcome ==
    ASSUME TerminalInv, NEW n \in Nat, NEW tf \in ToSet(Timeframes), RequestChart(n, tf)
    PROVE  /\ chartCh' \in Seq(Requests) /\ Len(chartCh') <= ChartCap
           /\ aimed' \in Requests \cup {Nothing} /\ moved' \in BOOLEAN
           /\ \/ /\ UNCHANGED <<chartCh, aimed, moved>>
                 /\ Row(screen.list, n) = Nothing
              \/ aimed' = Nothing
              \/ /\ chartCh' # <<>> /\ chartCh'[Len(chartCh')] = aimed'
                 /\ Fetch(Row(screen.list, n), tf) = aimed'
<1>0. /\ chartCh \in Seq(Requests) /\ Len(chartCh) <= ChartCap
      /\ aimed \in Requests \cup {Nothing} /\ moved \in BOOLEAN
  BY DEF TerminalInv, Kinds
<1>1. PICK s : s = Row(screen.list, n)
  OBVIOUS
<1>2. CASE s = Nothing
  <2>1. UNCHANGED <<chartCh, aimed, moved>>
    BY <1>1, <1>2 DEF RequestChart
  <2> QED
    BY <1>0, <1>1, <1>2, <2>1
<1>3. CASE s # Nothing /\ Len(chartCh) < ChartCap
  <2>1. moved' = FALSE /\ chartCh' = Append(chartCh, Fetch(s, tf)) /\ aimed' = Fetch(s, tf)
    BY <1>1, <1>3 DEF RequestChart
  <2>2. s \in Symbols
    BY <1>1, <1>3, RowOfList DEF TerminalInv, CursorOnTheList
  <2>3. Fetch(s, tf) \in Requests
    BY <2>2 DEF Fetch, Requests
  <2>4. PICK a, b \in Seq(Requests) : a = chartCh /\ b = chartCh' /\ b = Append(a, Fetch(s, tf))
    BY <1>0, <2>1, <2>3
  <2>5. Len(b) = Len(a) + 1 /\ b[Len(a) + 1] = Fetch(s, tf) /\ b # <<>>
    BY <2>3, <2>4
  <2>6. Len(b) <= ChartCap
    BY <1>3, <2>4, <2>5, TerminalAssumption
  <2> QED
    BY <1>1, <2>1, <2>3, <2>4, <2>5, <2>6
<1>4. CASE s # Nothing /\ ~(Len(chartCh) < ChartCap)
  <2>1. moved' = FALSE /\ chartCh' = chartCh /\ aimed' = Nothing
    BY <1>1, <1>4 DEF RequestChart
  <2> QED
    BY <1>0, <2>1
<1> QED
  BY <1>2, <1>3, <1>4

(* What is left to show of a key that requests a chart for the row n.      *)
LEMMA KeyRequests ==
    ASSUME TerminalInv, NEW n \in Nat, NEW tf \in ToSet(Timeframes), RequestChart(n, tf),
           cursor' = n, timeframe' = tf, view' = view, Elsewhere,
           n = 0 \/ n < Len(screen.list),
           Row(screen.list, n) = Nothing => aimed = Nothing \/ moved
    PROVE  TerminalInv'
<1>1. /\ list' = list /\ chart' = chart /\ screen' = screen
      /\ fetching' = fetching /\ keyed' = keyed
  BY DEF Elsewhere
<1>2. /\ chartCh' \in Seq(Requests) /\ Len(chartCh') <= ChartCap
      /\ aimed' \in Requests \cup {Nothing} /\ moved' \in BOOLEAN
      /\ \/ /\ UNCHANGED <<chartCh, aimed, moved>>
            /\ Row(screen.list, n) = Nothing
         \/ aimed' = Nothing
         \/ /\ chartCh' # <<>> /\ chartCh'[Len(chartCh')] = aimed'
            /\ Fetch(Row(screen.list, n), tf) = aimed'
  BY RequestOutcome
<1>3. CursorOnTheList'
  BY <1>1 DEF TerminalInv, CursorOnTheList
<1>4. Kinds'
  BY <1>1, <1>2 DEF TerminalInv, Kinds
<1>5. LastWins'
  BY <1>1, <1>2 DEF TerminalInv, LastWins
<1>6. SelectedSymbol' = Row(screen.list, n)
  BY <1>1 DEF SelectedSymbol, Row
<1>7. AimIsTrue'
  BY <1>2, <1>6 DEF AimIsTrue
<1> QED
  BY <1>3, <1>4, <1>5, <1>7 DEF TerminalInv

(* Cursor and time-frame keys keep the invariant.                          *)
LEMMA KeyStep ==
    ASSUME TerminalInv, KeyDown \/ KeyUp \/ KeyTimeframe
    PROVE  TerminalInv'
<1>1. /\ screen.list \in WatchLists /\ cursor \in Nat /\ timeframe \in ToSet(Timeframes)
      /\ cursor = 0 \/ cursor < Len(screen.list)
      /\ Len(screen.list) \in Nat
  BY ListType DEF TerminalInv, CursorOnTheList, Kinds
<1>2. CASE KeyDown
  <2>1. PICK n \in Nat : n = cursor + 1 /\ n < Len(screen.list)
    <3>1. cursor + 1 < Len(screen.list)
      <4>1. PICK k \in Nat, c \in Nat : k = cursor /\ c = Len(screen.list)
        BY <1>1
      <4>2. k < c - 1
        BY <1>2, <4>1 DEF KeyDown
      <4> QED
        BY <4>1, <4>2
    <3> QED
      BY <1>1, <3>1
  <2>2. RequestChart(n, timeframe) /\ cursor' = n
    BY <1>2, <2>1 DEF KeyDown
  <2>3. Row(screen.list, n) # Nothing
    BY <1>1, <2>1, RowOfList
  <2> QED
    BY <1>1, <1>2, <2>1, <2>2, <2>3, KeyRequests DEF KeyDown
<1>3. CASE KeyUp
  <2>1. PICK n \in Nat : n = cursor - 1 /\ n < Len(screen.list)
    <3>1. PICK k \in Nat, c \in Nat : k = cursor /\ c = Len(screen.list)
      BY <1>1
    <3>2. k > 0 /\ k < c
      BY <1>1, <1>3, <3>1 DEF KeyUp
    <3>3. k - 1 \in Nat /\ k - 1 < c
      BY <3>2
    <3> QED
      BY <3>1, <3>3
  <2>2. RequestChart(n, timeframe) /\ cursor' = n
    BY <1>3, <2>1 DEF KeyUp
  <2>3. Row(screen.list, n) # Nothing
    BY <1>1, <2>1, RowOfList
  <2> QED
    BY <1>1, <1>3, <2>1, <2>2, <2>3, KeyRequests DEF KeyUp
<1>4. CASE KeyTimeframe
  <2>1. PICK tf \in ToSet(Timeframes) : tf = timeframe' /\ RequestChart(cursor, tf)
    BY <1>1, <1>4, FrameType DEF KeyTimeframe
  <2>2. ASSUME Row(screen.list, cursor) = Nothing PROVE aimed = Nothing \/ moved
    <3>1. SUFFICES ASSUME aimed # Nothing, ~moved PROVE FALSE
      BY DEF TerminalInv, Kinds
    <3>2. Fetch(Nothing, timeframe) = aimed
      BY <2>2, <3>1 DEF TerminalInv, AimIsTrue, SelectedSymbol
    <3>3. aimed \in Requests
      BY <3>1 DEF TerminalInv, Kinds
    <3>4. aimed.symbol \in Symbols /\ aimed.symbol = Nothing
      BY <3>2, <3>3 DEF Fetch, Requests
    <3> QED
      BY <3>4, TerminalAssumption
  <2> QED
    BY <1>1, <1>4, <2>1, <2>2, KeyRequests DEF KeyTimeframe
<1> QED
  BY <1>2, <1>3, <1>4

-----------------------------------------------------------------------------
(* The other steps.                                                        *)

(* A symbol that joins the list leaves the pane and the requests alone. *)
LEMMA NewSymbolStep ==
    ASSUME TerminalInv, NEW s \in Symbols, NewSymbol(s)
    PROVE  TerminalInv'
<1>1. /\ s \notin ToSet(list) /\ list' \in OrdersOf(ToSet(list) \cup {s})
      /\ chart' = chart /\ screen' = screen /\ cursor' = cursor /\ timeframe' = timeframe
      /\ view' = view /\ aimed' = aimed /\ moved' = moved
      /\ chartCh' = chartCh /\ fetching' = fetching /\ keyed' = keyed
  BY DEF NewSymbol, appVars
<1>2. list \in WatchLists /\ screen.list \in WatchLists
  BY DEF TerminalInv, CursorOnTheList
<1>3. list' \in WatchLists /\ Len(list') = Len(list) + 1
  BY <1>1, <1>2, ListGrows
<1>4. Len(screen.list) <= Len(list')
  <2>1. PICK a, b \in Nat : a = Len(screen.list) /\ b = Len(list) /\ a <= b
    BY <1>2, ListType DEF TerminalInv, CursorOnTheList
  <2> QED
    BY <1>3, <2>1
<1>5. CursorOnTheList'
  BY <1>1, <1>3, <1>4 DEF TerminalInv, CursorOnTheList
<1>6. Kinds'
  BY <1>1 DEF TerminalInv, Kinds
<1>7. LastWins' /\ AimIsTrue'
  BY <1>1 DEF TerminalInv, LastWins, AimIsTrue, SelectedSymbol
<1> QED
  BY <1>5, <1>6, <1>7 DEF TerminalInv

(* Taking the first request out of the channel leaves the last one there,  *)
(* unless it was the first.                                                *)
LEMMA TakeRequest ==
    ASSUME NEW q \in Seq(Requests), q # <<>>
    PROVE  /\ Head(q) \in Requests /\ Tail(q) \in Seq(Requests)
           /\ Len(Tail(q)) <= Len(q) /\ Len(q) \in Nat
           /\ \/ Tail(q) = <<>> /\ q[Len(q)] = Head(q)
              \/ Tail(q) # <<>> /\ Tail(q)[Len(Tail(q))] = q[Len(q)]
<1>1. /\ Head(q) = q[1] /\ Head(q) \in Requests
      /\ Tail(q) \in Seq(Requests) /\ Len(Tail(q)) = Len(q) - 1
      /\ Len(q) \in Nat /\ Len(q) > 0
      /\ \A k \in 1..Len(Tail(q)) : Tail(q)[k] = q[k + 1]
  OBVIOUS
<1>2. PICK t \in Seq(Requests), n \in Nat, m \in Nat :
         t = Tail(q) /\ n = Len(q) /\ m = Len(t) /\ m = n - 1 /\ n > 0
  <2>1. Len(Tail(q)) \in Nat
    BY <1>1
  <2> QED
    BY <1>1, <2>1
<1>3. CASE n = 1
  BY <1>1, <1>2, <1>3
<1>4. CASE n > 1
  <2>1. m \in 1..m /\ m + 1 = n
    <3>1. m = n - 1 /\ m \in Nat /\ n \in Nat
      BY <1>2
    <3> QED
      BY <1>4, <3>1
  <2>2. t[m] = q[n] /\ t # <<>>
    <3>1. Tail(q)[m] = q[m + 1]
      BY <1>1, <1>2, <2>1
    <3>2. t # <<>>
      BY <1>2, <1>4
    <3> QED
      BY <1>2, <2>1, <3>1, <3>2
  <2>3. Len(Tail(q)) <= Len(q)
    BY <1>2
  <2> QED
    BY <1>1, <1>2, <2>2, <2>3
<1> QED
  BY <1>2, <1>3, <1>4

(* So does the chart manager, whether or not its fetch succeeds.           *)
LEMMA ChartManagerStep ==
    ASSUME TerminalInv, ChartManager
    PROVE  TerminalInv'
<1>1. /\ chart \in Charts /\ fetching \in Requests \cup {Nothing} /\ aimed \in Requests \cup {Nothing}
      /\ chartCh \in Seq(Requests) /\ Len(chartCh) <= ChartCap /\ ChartCap \in Nat
      /\ ~keyed => fetching = Nothing
  BY TerminalAssumption DEF TerminalInv, Kinds
<1>2. /\ list' = list /\ screen' = screen /\ cursor' = cursor /\ timeframe' = timeframe
      /\ view' = view /\ aimed' = aimed /\ moved' = moved /\ keyed' = keyed
  BY DEF ChartManager, RefuseFetch, StartFetch, FetchAnswered, appVars
<1>3. CursorOnTheList' /\ AimIsTrue'
  BY <1>2 DEF TerminalInv, CursorOnTheList, AimIsTrue, SelectedSymbol
<1>4. ASSUME chart' \in Charts, fetching' \in Requests \cup {Nothing},
             chartCh' \in Seq(Requests), Len(chartCh') <= ChartCap,
             ~keyed => fetching' = Nothing
      PROVE  Kinds'
  BY <1>2, <1>4 DEF TerminalInv, Kinds
<1>5. ASSUME NEW r \in Requests, NEW candles \in BOOLEAN, ShowChart(r, candles)
      PROVE  chart' \in Charts /\ chart'.of = r
  BY <1>5 DEF ShowChart, Charts
<1>6. chartCh # <<>> =>
         /\ Head(chartCh) \in Requests /\ Tail(chartCh) \in Seq(Requests)
         /\ Len(Tail(chartCh)) <= ChartCap
         /\ \/ Tail(chartCh) = <<>> /\ chartCh[Len(chartCh)] = Head(chartCh)
            \/ Tail(chartCh) # <<>> /\ Tail(chartCh)[Len(Tail(chartCh))] = chartCh[Len(chartCh)]
  <2>1. ASSUME chartCh # <<>>
        PROVE  Len(Tail(chartCh)) <= ChartCap
    <3>1. PICK a, b, c \in Nat : a = Len(Tail(chartCh)) /\ b = Len(chartCh) /\ c = ChartCap
      BY <1>1, <2>1, TakeRequest
    <3>2. a <= b /\ b <= c
      BY <1>1, <2>1, <3>1, TakeRequest
    <3> QED
      BY <3>1, <3>2
  <2> QED
    BY <1>1, <2>1, TakeRequest
<1>7. CASE RefuseFetch
  <2>1. /\ ~keyed /\ chartCh # <<>> /\ ShowChart(Head(chartCh), FALSE)
        /\ chartCh' = Tail(chartCh) /\ fetching' = fetching /\ fetching = Nothing
    BY <1>1, <1>7 DEF RefuseFetch
  <2>2. chart' \in Charts /\ chart'.of = Head(chartCh)
    BY <1>5, <1>6, <2>1
  <2>3. Kinds'
    BY <1>1, <1>4, <1>6, <2>1, <2>2
  <2>4. LastWins'
    BY <1>2, <1>6, <2>1, <2>2 DEF TerminalInv, LastWins
  <2> QED
    BY <1>3, <2>3, <2>4 DEF TerminalInv
<1>8. CASE StartFetch
  <2>1. /\ keyed /\ chartCh # <<>> /\ fetching' = Head(chartCh)
        /\ chartCh' = Tail(chartCh) /\ chart' = chart /\ fetching = Nothing
    BY <1>8 DEF StartFetch
  <2>2. Kinds'
    BY <1>1, <1>4, <1>6, <2>1
  <2>3. LastWins'
    BY <1>2, <1>6, <2>1 DEF TerminalInv, LastWins
  <2> QED
    BY <1>3, <2>2, <2>3 DEF TerminalInv
<1>9. ASSUME NEW candles \in BOOLEAN, FetchAnswered(candles) PROVE TerminalInv'
  <2>1. /\ fetching # Nothing /\ ShowChart(fetching, candles)
        /\ fetching' = Nothing /\ chartCh' = chartCh
    BY <1>9 DEF FetchAnswered
  <2>2. chart' \in Charts /\ chart'.of = fetching
    BY <1>1, <1>5, <2>1
  <2>3. Kinds'
    BY <1>1, <1>4, <2>1, <2>2
  <2>4. LastWins'
    BY <1>2, <2>1, <2>2 DEF TerminalInv, LastWins
  <2> QED
    BY <1>3, <2>3, <2>4 DEF TerminalInv
<1> QED
  BY <1>7, <1>8, <1>9 DEF ChartManager, Aggregates

(* The keys that only change the view.                                     *)
LEMMA ViewStep ==
    ASSUME TerminalInv, view' \in [mode : Modes, overlay : Overlays, halt : BOOLEAN],
           UNCHANGED <<list, chart, screen, cursor, timeframe, chartCh, fetching, keyed,
                       aimed, moved>>
    PROVE  TerminalInv'
<1>1. CursorOnTheList'
  BY DEF TerminalInv, CursorOnTheList
<1>2. Kinds'
  BY DEF TerminalInv, Kinds
<1>3. LastWins' /\ AimIsTrue'
  BY DEF TerminalInv, LastWins, AimIsTrue, SelectedSymbol
<1> QED
  BY <1>1, <1>2, <1>3 DEF TerminalInv

(* A fresh copy of AppState keeps the invariant.                           *)
LEMMA StateChangedStep ==
    ASSUME TerminalInv, StateChanged
    PROVE  TerminalInv'
<1>1. /\ screen' = [list |-> list, chart |-> chart]
      /\ moved' = (moved \/ Row(list, cursor) # SelectedSymbol)
      /\ list' = list /\ chart' = chart /\ cursor' = cursor /\ timeframe' = timeframe
      /\ view' = view /\ aimed' = aimed
      /\ chartCh' = chartCh /\ fetching' = fetching /\ keyed' = keyed
  BY DEF StateChanged
<1>2. screen'.list = list /\ screen'.chart = chart
  BY <1>1
<1>3. CursorOnTheList'
  <2>1. PICK a, b \in Nat, k \in Nat : a = Len(screen.list) /\ b = Len(list) /\ k = cursor
    BY ListType DEF TerminalInv, CursorOnTheList
  <2>2. a <= b /\ (k = 0 \/ k < a)
    BY <2>1 DEF TerminalInv, CursorOnTheList
  <2>3. b <= b /\ (k = 0 \/ k < b)
    BY <2>1, <2>2
  <2> QED
    BY <1>1, <1>2, <2>1, <2>3 DEF TerminalInv, CursorOnTheList
<1>4. Kinds'
  <2>1. screen' \in [list : WatchLists, chart : Charts]
    BY <1>1 DEF TerminalInv, CursorOnTheList, Kinds
  <2>2. moved' \in BOOLEAN
    BY <1>1
  <2> QED
    BY <1>1, <2>1, <2>2 DEF TerminalInv, Kinds
<1>5. LastWins'
  BY <1>1 DEF TerminalInv, LastWins
<1>6. SelectedSymbol' = Row(list, cursor)
  BY <1>1, <1>2 DEF SelectedSymbol, Row
<1>7. AimIsTrue'
  BY <1>1, <1>6 DEF TerminalInv, AimIsTrue
<1> QED
  BY <1>3, <1>4, <1>5, <1>7 DEF TerminalInv

-----------------------------------------------------------------------------
(* The invariant holds of the specification.                               *)

(* The terminal starts with an empty list and no candles. *)
LEMMA InitTerminalInv == TerminalInit => TerminalInv
<1> SUFFICES ASSUME TerminalInit PROVE TerminalInv
  OBVIOUS
<1>1. /\ list = <<>> /\ chart = [of |-> Nothing, candles |-> FALSE]
      /\ screen = [list |-> <<>>, chart |-> [of |-> Nothing, candles |-> FALSE]]
      /\ cursor = 0 /\ timeframe = FirstFrame
      /\ view = [mode |-> "Watchlist", overlay |-> "None", halt |-> FALSE]
      /\ chartCh = <<>> /\ fetching = Nothing /\ keyed \in BOOLEAN
      /\ aimed = Nothing /\ moved = FALSE
  BY DEF TerminalInit, NoChart
<1>2. <<>> \in WatchLists
  <2>1. Cardinality({}) = 0
    BY FS_EmptySet
  <2>2. <<>> \in [1..0 -> {}] /\ IsInjective(<<>>)
    BY DEF IsInjective
  <2>3. <<>> \in OrdersOf({})
    BY <2>1, <2>2 DEF OrdersOf
  <2> QED
    BY <2>3 DEF WatchLists
<1>3. chart \in Charts
  BY <1>1 DEF Charts
<1>4. CursorOnTheList
  BY <1>1, <1>2 DEF CursorOnTheList
<1>5. view \in [mode : Modes, overlay : Overlays, halt : BOOLEAN]
  BY <1>1 DEF Modes, Overlays
<1>6. chartCh \in Seq(Requests) /\ Len(chartCh) <= ChartCap
  BY <1>1, TerminalAssumption
<1>7. Kinds
  BY <1>1, <1>2, <1>3, <1>5, <1>6, TerminalAssumption DEF Kinds
<1> QED
  BY <1>1, <1>4, <1>7 DEF TerminalInv, LastWins, AimIsTrue

(* Every step keeps the invariant.                                         *)
LEMMA NextTerminalInv == TerminalInv /\ [TerminalNext]_terminalVars => TerminalInv'
<1> SUFFICES ASSUME TerminalInv, [TerminalNext]_terminalVars PROVE TerminalInv'
  OBVIOUS
<1>0. /\ view \in [mode : Modes, overlay : Overlays, halt : BOOLEAN]
      /\ "None" \in Overlays
  BY DEF TerminalInv, Kinds, Overlays
<1>1. ASSUME NEW s \in Symbols, NewSymbol(s) PROVE TerminalInv'
  BY <1>1, NewSymbolStep
<1>2. CASE ChartManager
  BY <1>2, ChartManagerStep
<1>3. CASE KeyOnMain
  <2>1. CASE KeyDown \/ KeyUp \/ KeyTimeframe
    BY <2>1, KeyStep
  <2>2. CASE /\ KeyMode \/ KeyHalt \/ KeyOverlay
             /\ UNCHANGED <<cursor, timeframe, chartCh, aimed, moved>> /\ Elsewhere
    <3>1. view' \in [mode : Modes, overlay : Overlays, halt : BOOLEAN]
      BY <1>0, <2>2 DEF KeyMode, KeyHalt, KeyOverlay
    <3> QED
      BY <2>2, <3>1, ViewStep DEF Elsewhere
  <2> QED
    BY <1>3, <2>1, <2>2 DEF KeyOnMain
<1>4. CASE KeyOnOverlay
  <2>1. view' \in [mode : Modes, overlay : Overlays, halt : BOOLEAN]
    BY <1>0, <1>4 DEF KeyOnOverlay, KeyClose
  <2> QED
    BY <1>4, <2>1, ViewStep DEF KeyOnOverlay, Elsewhere
<1>5. CASE Leave
  BY <1>0, <1>5, ViewStep DEF Leave
<1>6. CASE StateChanged
  BY <1>6, StateChangedStep
<1>7. CASE UNCHANGED terminalVars
  BY <1>0, <1>7, ViewStep DEF terminalVars, appVars
<1> QED
  BY <1>1, <1>2, <1>3, <1>4, <1>5, <1>6, <1>7 DEF TerminalNext, RunTui

(* The invariant holds throughout.                                         *)
LEMMA TerminalInvHolds == TerminalSpec => []TerminalInv
  BY InitTerminalInv, NextTerminalInv, PTL DEF TerminalSpec

-----------------------------------------------------------------------------
(* The variables have their types; every list shown is without repetition  *)
(* and the cursor is on a row of it, though the state loop replaces the    *)
(* list under the cursor (selected_quote).                                 *)
THEOREM TerminalTypeCorrect == TerminalSpec => []TerminalTypeOK
<1>1. ASSUME TerminalInv PROVE TerminalTypeOK
  <2>1. /\ list \in WatchLists /\ screen.list \in WatchLists
        /\ cursor \in Nat /\ (cursor = 0 \/ cursor < Len(screen.list))
        /\ Len(screen.list) \in 0..Cardinality(Symbols)
    BY <1>1, ListType DEF TerminalInv, CursorOnTheList
  <2>2. cursor \in 0..Cardinality(Symbols)
    <3>1. PICK k, n, c \in Nat : k = cursor /\ n = Len(screen.list) /\ c = Cardinality(Symbols)
      <4>1. Cardinality(Symbols) \in Nat
        BY TerminalAssumption, FS_CardinalityType
      <4>2. Len(screen.list) \in Nat
        BY <2>1, ListType
      <4> QED
        BY <2>1, <4>1, <4>2
    <3>2. n <= c /\ (k = 0 \/ k < n)
      BY <2>1, <3>1
    <3>3. k \in 0..c
      BY <3>2
    <3> QED
      BY <3>1, <3>3
  <2>3. screen.list # <<>> => SelectedSymbol \in Symbols
    <3>1. ASSUME screen.list # <<>> PROVE cursor < Len(screen.list)
      <4>1. Len(screen.list) > 0
        BY <2>1, <3>1, ListType
      <4> QED
        BY <2>1, <4>1
    <3> QED
      BY <2>1, <3>1, RowOfList DEF SelectedSymbol
  <2>4. {chart.of, screen.chart.of, fetching, aimed} \subseteq Requests \cup {Nothing}
    BY <1>1 DEF TerminalInv, Kinds, Charts
  <2> QED
    BY <1>1, <2>1, <2>2, <2>3, <2>4 DEF TerminalInv, Kinds, TerminalTypeOK, WatchLists
<1>2. TerminalInv => TerminalTypeOK
  BY <1>1
<1> QED
  BY <1>2, TerminalInvHolds, PTL

(* Once every request is answered, candles are drawn under the header and  *)
(* the tab they belong to, in every order of keys, quotes, answers and     *)
(* failures (request_chart_data, run_chart_manager, stock_detail::draw).   *)
THEOREM CandlesMatchTheHeader == TerminalSpec => []CandlesAreTheHeaders
<1>1. ASSUME TerminalInv PROVE CandlesAreTheHeaders
  <2>1. SUFFICES ASSUME Settled, aimed # Nothing, ~moved, DetailPane.candles # Nothing
                 PROVE  DetailPane.candles = Fetch(DetailPane.header, DetailPane.tab)
    BY DEF CandlesAreTheHeaders
  <2>2. /\ DetailPane.header = SelectedSymbol /\ DetailPane.tab = timeframe
        /\ DetailPane.candles = screen.chart.of
    BY <2>1 DEF DetailPane
  <2>3. chart.of = aimed /\ screen.chart = chart
    BY <1>1, <2>1 DEF Settled, TerminalInv, LastWins
  <2>4. Fetch(SelectedSymbol, timeframe) = aimed
    BY <1>1, <2>1 DEF TerminalInv, AimIsTrue
  <2> QED
    BY <2>2, <2>3, <2>4
<1>2. TerminalInv => CandlesAreTheHeaders
  BY <1>1
<1> QED
  BY <1>2, TerminalInvHolds, PTL
=============================================================================
