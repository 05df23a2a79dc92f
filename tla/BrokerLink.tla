------------------------------ MODULE BrokerLink ------------------------------
(***************************************************************************)
(* The link to the broker (ibkr.rs, session.rs) under the running gate and *)
(* the operator's terminal: the connection with its retries before         *)
(* anything else starts, the submission of an order (it leaves on a thread *)
(* of its own, the call returns, the gate takes the answer), the broker    *)
(* that takes it some time later or never, and the map from orders to the  *)
(* broker's ids.                                                           *)
(***************************************************************************)
EXTENDS Console, SequencesExt

CONSTANT MaxRetries      \* retries of the connection: 4 in the code

ASSUME BrokerLinkAssumption == MaxRetries \in Nat

VARIABLES
    session,     \* "connecting", "up", or "failed": main has returned the error
    attempt,     \* connection attempts that failed
    sent,        \* orders that have left for the broker
    atBroker,    \* those of them it has taken
    reply,       \* what the submitting thread returned and the gate has not taken
    orderMap     \* orders whose broker id is known

orderVars == <<sent, atBroker, reply, orderMap>>
linkVars == <<session, attempt, orderVars>>
deskVars == <<allVars, linkVars>>

LinkInit ==
    /\ ConsoleInit
    /\ session = "connecting" /\ attempt = 0
    /\ sent = {} /\ atBroker = {} /\ orderMap = {}
    /\ reply = "none"

-----------------------------------------------------------------------------
(* account_snapshot: the gate's net liquidation is the last one reported   *)
(* before the answer ends, breaks off or fails; a figure that does not     *)
(* parse and one that never came are zero.  Each line of an answer is a    *)
(* pair of a tag and a value.                                              *)
AccountSnapshot(answer) ==
    LET reported == SelectSeq(answer, LAMBDA line : line[1] = "NetLiquidation")
    IN  IF reported = <<>> THEN 0 ELSE Last(reported)[2]

(* cancel_order reaches the broker with the id of the map or not at all.   *)
Cancellable == orderMap

-----------------------------------------------------------------------------
(* connect_with_retries; main starts nothing before it returns.            *)

Connecting == session = "connecting" /\ UNCHANGED <<allVars, orderVars>>

ConnectFails ==
    /\ Connecting
    /\ attempt' = attempt + 1
    /\ session' = IF attempt = MaxRetries THEN "failed" ELSE session

(* A gateway that answers without its accounts ends the attempts at once.  *)
AccountsFail ==
    /\ Connecting
    /\ session' = "failed"
    /\ UNCHANGED attempt

Connect ==
    /\ Connecting
    /\ session' = "up"
    /\ UNCHANGED attempt

(* The operator starts the program again.                                  *)
Restart ==
    /\ session = "failed"
    /\ session' = "connecting" /\ attempt' = 0
    /\ UNCHANGED <<allVars, orderVars>>

-----------------------------------------------------------------------------
(* submit_order, on a blocking thread while the gate awaits it.            *)

Submitting == at = "submit" /\ reply = "none"

(* The order goes out to the gateway.                                      *)
SendOrder ==
    /\ Submitting
    /\ sent' = sent \cup {current}
    /\ UNCHANGED <<allVars, session, attempt, atBroker, reply, orderMap>>

(* The mutant: the map is written before the answer is known.              *)
Remember_BeforeTheAnswer(ok) == orderMap' = orderMap \cup {current}

Remember(ok) == orderMap' = IF ok THEN orderMap \cup {current} ELSE orderMap

(* The call returns: with the id once the order has left, whatever the     *)
(* broker will do with it, or with an error, whatever became of the order. *)
Return(ok) ==
    /\ Submitting
    /\ ok => current \in sent
    /\ reply' = IF ok THEN "ok" ELSE "error"
    /\ Remember(ok)
    /\ UNCHANGED <<allVars, session, attempt, sent, atBroker>>

(* The gate takes the answer; an error is a rejection.                     *)
SubmitOrder ==
    /\ reply # "none"
    /\ GateSubmits(reply = "ok")
    /\ reply' = "none"
    /\ UNCHANGED <<session, attempt, sent, atBroker, orderMap>>

(* The broker takes an order that was sent, before or after the call       *)
(* returns.  One it refuses (error 201) and one that is lost on its way it *)
(* never takes: nothing in the code hears of either.                       *)
BrokerTakes(i) ==
    /\ i \in sent \ atBroker
    /\ atBroker' = atBroker \cup {i}
    /\ UNCHANGED <<allVars, session, attempt, sent, reply, orderMap>>

-----------------------------------------------------------------------------
Running ==
    /\ session = "up"
    /\ \/ (Gate \/ Terminal) /\ UNCHANGED linkVars
       \/ SendOrder
       \/ \E ok \in BOOLEAN : Return(ok)
       \/ SubmitOrder
       \/ \E i \in Intents : BrokerTakes(i)

LinkNext ==
    \/ ConnectFails \/ AccountsFail \/ Connect \/ Restart
    \/ Running

LinkSpec == LinkInit /\ [][LinkNext]_deskVars

(* The fairness of ExecCore's loop under its keyboard and its broker: the  *)
(* account calls and the submissions are answered, one way or the other.   *)
(* Nothing is assumed of the operator, who may press keys for ever or      *)
(* never, and nothing of the connection.                                   *)
Fair(A) == session = "up" /\ A /\ UNCHANGED <<consoleVars, linkVars>>

LinkFairness ==
    /\ WF_deskVars(Fair(Clock))
    /\ SF_deskVars(Fair(ReceiveIntent))
    /\ SF_deskVars(Fair(HandleSupervisionCommand))
    /\ SF_deskVars(Fair(ExpireTimedOutIntents))
    /\ WF_deskVars(Fair(\E n \in NetLiqs : ProcessIntent(n)))
    /\ WF_deskVars(session = "up" /\ \E ok \in BOOLEAN : Return(ok))
    /\ WF_deskVars(session = "up" /\ SubmitOrder)

FairLinkSpec == LinkSpec /\ LinkFairness

-----------------------------------------------------------------------------
LinkTypeOK ==
    /\ ConsoleTypeOK
    /\ session \in {"connecting", "up", "failed"}
    /\ attempt \in 0..MaxRetries + 1
    /\ sent \subseteq Intents /\ atBroker \subseteq sent
    /\ orderMap \subseteq Intents
    /\ reply \in {"none", "ok", "error"}
    /\ reply # "none" => at = "submit"

(* What has left for the broker agrees with the gate's books, at every     *)
(* instant of a submission: it was released by the gate, never merely      *)
(* waiting, timed out, refused by the operator or further down a batch.    *)
(* What can be cancelled has left, and is acknowledged or about to be: an  *)
(* order the gate calls rejected never is, even when the broker works it,  *)
(* and an order the broker works that cannot be cancelled is in the gate's *)
(* hands or counted as rejected.  Nothing is said of what the broker does  *)
(* with an acknowledged order: it may have refused it.                     *)
BrokerMatchesGate ==
    /\ \A i \in sent : Stage(i) \in {"released", "acked", "closed"}
    /\ sent \cap (refused \cup batch) = {}
    /\ Acked \subseteq Cancellable
    /\ Cancellable \subseteq sent \cap (Acked \cup InFlight)
    /\ reply # "ok" => Cancellable = Acked
    /\ \A i \in atBroker \ Cancellable : i \in InFlight \/ Stage(i) = "closed"
=============================================================================
