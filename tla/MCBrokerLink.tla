----------------------------- MODULE MCBrokerLink -----------------------------
(* Values for model checking BrokerLink, and Console as part of it.        *)
EXTENDS BrokerLink

CONSTANTS short1, short2

(* Two intents that need the operator.                                     *)
MCIntents == {short1, short2}
MCOrder   == [i \in MCIntents |->
                [module |-> "ParaShort", qty |-> 10, stop |-> {}]]

(* What the account request can be answered with: nothing, figures other   *)
(* than the one wanted, and that figure, of 10,000 dollars or not parsed.  *)
MCAnswers == {<<>>, <<<<"BuyingPower", 40000>>>>,
              <<<<"BuyingPower", 40000>>, <<"NetLiquidation", 10000>>>>,
              <<<<"NetLiquidation", 10000>>, <<"NetLiquidation", 0>>>>}

MCNetLiqs == {AccountSnapshot(a) : a \in MCAnswers}

NoAllocation == [m \in ModuleId |-> 0]
=============================================================================
