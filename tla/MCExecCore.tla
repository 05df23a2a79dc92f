----------------------------- MODULE MCExecCore ------------------------------
(* Values for model checking ExecCore.  The limits are those of main.rs;   *)
(* the account holds 10,000 dollars.                                       *)
EXTENDS ExecCore, TLC

CONSTANTS firebird, short1, short2, short3

Sized(m, n) == [module |-> m, qty |-> n, stop |-> {}]

(* One intent the modules may execute on their own, and three alike that   *)
(* must be approved.                                                       *)
MCIntents == {firebird, short1, short2, short3}
MCOrder   == [i \in {firebird, short1, short2, short3} |->
                Sized(IF i = firebird THEN "Firebird" ELSE "ParaShort", 10)]

(* A smaller instance for liveness: one of each kind.                      *)
TwoIntents == {firebird, short1}
TwoOrders  == [i \in TwoIntents |-> MCOrder[i]]

Alike == Permutations({short1, short2, short3})

MCNetLiqs == {0, 10000}

NoAllocation == [m \in ModuleId |-> 0]
=============================================================================
