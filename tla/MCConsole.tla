------------------------------ MODULE MCConsole ------------------------------
(* Values for model checking Console, and what its operator saw.           *)
EXTENDS Console

CONSTANTS short1, short2

(* Two intents that need the operator.                                     *)
MCIntents == {short1, short2}
MCOrder   == [i \in MCIntents |->
                [module |-> "ParaShort", qty |-> 10, stop |-> {}]]

MCNetLiqs == {10000}

NoAllocation == [m \in ModuleId |-> 0]

-----------------------------------------------------------------------------
(* A history of the approve-all key.                                       *)

VARIABLE seen     \* intents on the screen when approve-all was pressed

SeenInit == ConsoleInit /\ seen = {}

SeenNext ==
    \/ KeyApproveAll /\ seen' = seen \cup screen
    \/ (Gate \/ KeyApprove \/ KeyReject \/ KeyRejectAll \/ StateChanged)
          /\ UNCHANGED seen
    \/ \E acked \in BOOLEAN : GateSubmits(acked) /\ UNCHANGED seen

SeenSpec == SeenInit /\ [][SeenNext]_<<allVars, seen>>

(* What the repository says and the code does not keep: Architecture S8.6, *)
(* the strict modules "require operator approval on every trade".  None is *)
(* executed that was neither on the banner when the operator approved it   *)
(* nor on the screen when the operator approved all.  The code drains      *)
(* whatever is pending by the time the command is handled.                 *)
StrictApprovedOneByOne ==
    \A i \in Intents :
        SupervisionModel(Order[i].module) = "DualControlStrict" /\ orders[i] > 0
            => i \in asked \cup seen
=============================================================================
