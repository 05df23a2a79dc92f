---------------------------- MODULE MCFlowManager -----------------------------
(* Values for model checking FlowManager: three bids for a ladder of two,  *)
(* one ask, and prints on the bid, between the sides, on the ask and       *)
(* broken.  The two symbols are alike.                                     *)
EXTENDS FlowManager

AnySymbol == Permutations(Symbols)

MCPrices == [s \in Sides |-> IF s = "Bid" THEN {980, 990, 1000} ELSE {1010}]
MCPrintPrices == {-1, 1000, 1005, 1010}
=============================================================================
