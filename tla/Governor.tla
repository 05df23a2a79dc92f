------------------------------- MODULE Governor -------------------------------
(***************************************************************************)
(* The Governor (talon-exec governor.rs), the gate before ExecCore, which  *)
(* main.rs no longer builds: it owns a risk mesh, a stress engine and a    *)
(* trust ledger and decides on an intent at once, without a queue and      *)
(* without a timeout.                                                      *)
(*                                                                         *)
(* The ledger and the engine share nothing, and the governor writes to     *)
(* neither when it decides; it has no method that records into its ledger  *)
(* or moves its regime.  What happens to the one is therefore followed     *)
(* while the other is as it was constructed.                               *)
(***************************************************************************)
EXTENDS StressEngine, TrustLedger

governorVars == <<vars, trustVars>>

GovernorInit == Init /\ TrustInit

-----------------------------------------------------------------------------
(* process_intent: what becomes of an order, given what account_snapshot   *)
(* reports (0 when it fails) and whether the broker acknowledges.  No      *)
(* position is ever added to the governor's own.                           *)

Released(k, order, netLiq) ==
    /\ Approves(order, EmptyBook, netLiq, tier)
    /\ EvaluateSupervision(k.module, HasAutoTrust(k)) = "AutoExecute"

ProcessIntent(k, order, netLiq, acked) ==
    IF ~Approves(order, EmptyBook, netLiq, tier) THEN "Rejected"
    ELSE IF ~Released(k, order, netLiq) THEN "PendingApproval"
    ELSE IF acked THEN "Executed"
    ELSE "Rejected"

(* The equity reaches the engine through update_stress.                    *)
EngineMoves ==
    /\ TrustInit
    /\ Next
    /\ UNCHANGED trustVars

LedgerMoves ==
    /\ Init
    /\ TrustNext
    /\ UNCHANGED vars

GovernorNext == EngineMoves \/ LedgerMoves

GovernorSpec == GovernorInit /\ [][GovernorNext]_governorVars

-----------------------------------------------------------------------------
(* The variables of both have their types.                                 *)
GovernorTypeOK == TypeOK /\ TrustTypeOK

(* The governor sends a supervised module's order to the broker without    *)
(* asking only where the module has earned it: never for a strict module,  *)
(* and not on approvals given in another regime or before a rejection,     *)
(* whatever the order, and whether the account reports the equity last     *)
(* known or the request for it fails (process_intent,                      *)
(* evaluate_supervision, record_approval, record_rejection).               *)
ExecutesAloneOnlyWhereEarned ==
    \A k \in Keys, o \in Orders, n \in {equity, 0} :
        /\ SupervisionModel(k.module) # "SupervisedAutonomy"
        /\ ProcessIntent(k, [o EXCEPT !.module = k.module], n, TRUE) = "Executed"
        => k.module \notin Strict /\ Earned(k)
=============================================================================
