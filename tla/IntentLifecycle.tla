--------------------------- MODULE IntentLifecycle ---------------------------
(***************************************************************************)
(* What the supervision gate promises of each order intent: it is checked  *)
(* once, waits for the operator if its module is supervised, and ends      *)
(* either acknowledged by the broker or closed, for good.                  *)
(***************************************************************************)
CONSTANTS
    Intents,
    Supervised   \* the intents that must wait for the operator

VARIABLE stage

Stages == {"new", "checking", "waiting", "released", "acked", "closed"}

At(s) == {i \in Intents : stage[i] = s}

Init == stage = [i \in Intents |-> "new"]

(* All intents of S move to stage s.                                       *)
Move(S, s) == stage' = [i \in Intents |-> IF i \in S THEN s ELSE stage[i]]

(* One intent at a time is checked, and none while another is submitted.   *)
Check(i) == /\ At("checking") \cup At("released") = {}
            /\ i \in At("new")
            /\ Move({i}, "checking")

Wait(i) == i \in At("checking") /\ Move({i}, "waiting")

ReleaseUnasked(i) == /\ i \in At("checking") \ Supervised
                     /\ Move({i}, "released")

ReleaseOnCommand(S) == /\ At("checking") \cup At("released") = {}
                       /\ S \subseteq At("waiting")
                       /\ Move(S, "released")

Acknowledge(i) == i \in At("released") /\ Move({i}, "acked")

(* Refused by the risk mesh, for want of room, or by the broker.           *)
Refuse(i) == i \in At("checking") \cup At("released") /\ Move({i}, "closed")

(* Rejected by the operator or timed out, which waits for a free handler.  *)
Discard(S) == /\ At("checking") \cup At("released") = {}
              /\ S \subseteq At("waiting")
              /\ Move(S, "closed")

Next ==
    \/ \E i \in Intents : \/ Check(i) \/ Wait(i) \/ ReleaseUnasked(i)
                          \/ Acknowledge(i) \/ Refuse(i)
    \/ \E S \in SUBSET At("waiting") : ReleaseOnCommand(S) \/ Discard(S)

Spec == Init /\ [][Next]_stage
=============================================================================
