----------------------------- MODULE Supervision -----------------------------
(***************************************************************************)
(* The supervision gate as a pure function: which trading modules may act  *)
(* on their own, and what happens to an intent of each (talon-exec         *)
(* supervision.rs, talon-types module.rs).                                 *)
(***************************************************************************)

Autonomous == {"Firebird", "Thunderbird", "Taxi", "Carousel"}
Strict     == {"Snapback", "YoYo", "Payload", "ParaShort"}
Graduating == {"Climb", "Sage", "Siphon"}

ModuleId == Autonomous \cup Strict \cup Graduating

SupervisionModels == {"SupervisedAutonomy", "DualControl", "DualControlStrict"}

SupervisionModel(m) ==
    CASE m \in Autonomous -> "SupervisedAutonomy"
      [] m \in Strict     -> "DualControlStrict"
      [] m \in Graduating -> "DualControl"

(* hasAutoTrust is what the trust ledger answers for the module's Entry    *)
(* key; only a DualControl module asks it.                                 *)
EvaluateSupervision(m, hasAutoTrust) ==
    IF \/ SupervisionModel(m) = "SupervisedAutonomy"
       \/ SupervisionModel(m) = "DualControl" /\ hasAutoTrust
    THEN "AutoExecute"
    ELSE "RequiresApproval"
=============================================================================
