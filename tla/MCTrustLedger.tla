---------------------------- MODULE MCTrustLedger -----------------------------
(* Values for model checking TrustLedger: a module that graduates, in two  *)
(* regimes, and a strict one.                                              *)
EXTENDS TrustLedger

MCKeys == {[module |-> "Climb", regime |-> "Trending"],
           [module |-> "Climb", regime |-> "Crisis"],
           [module |-> "ParaShort", regime |-> "Crisis"]}

(* Three occasions; only the first and the last differ in everything.      *)
MCOccasions == {[day |-> "Mon", vix |-> "Low", time |-> "Open"],
                [day |-> "Mon", vix |-> "High", time |-> "Open"],
                [day |-> "Tue", vix |-> "High", time |-> "Close"]}
=============================================================================
