------------------------------ MODULE MCGovernor ------------------------------
(* The values of MCStressEngine and MCTrustLedger together.                *)
EXTENDS Governor, MCStressEngine, MCTrustLedger
=============================================================================
