---------------------------- MODULE MCStressEngine ----------------------------
(* Values for model checking StressEngine: the thresholds and limits of    *)
(* main.rs, on its account of 10,000 dollars.                              *)
EXTENDS StressEngine

MCThresholds == [t \in StressTier \ {"Normal"} |->
    CASE t = "Tier1" -> 3 [] t = "Tier2" -> 5 [] t = "Flameout" -> 8
      [] t = "Nosedive" -> 15]

MCEquities == {-1000, 0, 8400, 8500, 9200, 9500, 9700, 9800, 10000, 11000}

(* Around the limits of 60 percent exposure, 5 percent risk and 5          *)
(* positions, at full size and at the fractions the tiers leave.           *)
MCOrders == [module : {"Climb"}, qty : {0, 14, 30, 45, 60}, stop : {{}, {90}}]
MCBooks  == [count : 0..5, inModule : 0..1, exposure : {0, 1000}]

MCAllocation == [m \in {"Climb", "ParaShort"} |-> 20]

(* A long and a short with entry 100 and a stop 8 away, or none.           *)
MCOpenings == [long : {TRUE}, entry : {100}, price : {100}, stop : {{}, {92}}]
         \cup [long : {FALSE}, entry : {100}, price : {100}, stop : {{108}}]
MCPrices == {94, 98, 100, 102, 104, 106}
=============================================================================
