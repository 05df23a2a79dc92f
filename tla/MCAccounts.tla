------------------------------ MODULE MCAccounts ------------------------------
(* One fund traded both ways in one and two shares, a second of another    *)
(* index that loses when it is sold, and a third that is not traded but    *)
(* belongs to the first one's family.  Prices are multiples of 144, so     *)
(* that every average of four fills of at most three shares held is a      *)
(* whole number.                                                           *)
EXTENDS Accounts

Held1 == [symbol : {"SPY"}, qty : {-2, -1, 1, 2}, price : {144, 288}]
Held2 == {[symbol |-> "QQQ", qty |-> 1, price |-> 288],
          [symbol |-> "QQQ", qty |-> -1, price |-> 144]}
MCTrades == Held1 \cup Held2
MCFamilies == {{"SPY", "VOO"}, {"QQQ", "QQQM"}}
=============================================================================
