------------------------------- MODULE MCMarket -------------------------------
(***************************************************************************)
(* A small market: one symbol with bars, snapshots and the fallback, the   *)
(* other with snapshots that have no trade.                                *)
(***************************************************************************)
EXTENDS Market

bar(close, volume) == [symbol |-> "spy", close |-> close, volume |-> volume]

snapshot(s, traded, price, low, dayVolume) ==
    [symbol |-> s, traded |-> traded, price |-> price, dayVolume |-> dayVolume,
     prevVolume |-> 3, low |-> {low}]

mcBars == {bar(76, 12)}

(* The second snapshot has a low above its last trade: the trade is from   *)
(* before a gap, or the day has not begun.                                 *)
mcSnapshots == {snapshot("spy", TRUE, 75, 70, 10), snapshot("spy", TRUE, 74, 75, 9),
                snapshot("qqq", FALSE, 75, 70, 10)}
mcFallbacks == {bar(73, 11)}

mcDeviation == <<6, 5>>
=============================================================================
