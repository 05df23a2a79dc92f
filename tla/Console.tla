------------------------------- MODULE Console -------------------------------
(***************************************************************************)
(* The operator's terminal over the supervision gate (talon-triminl        *)
(* input.rs, render.rs): the keys act on the copy of AppState the terminal *)
(* last took, and their commands reach ExecCore through the bounded        *)
(* channel.  The command source of ExecCore is here the keyboard.          *)
(***************************************************************************)
EXTENDS ExecCore

VARIABLES
    screen,      \* pending_intents of the terminal's copy of AppState
    asked,       \* intents on the banner when the key approving it was pressed
    refused      \* intents whose rejection entered the channel in time

consoleVars == <<screen, asked, refused>>
allVars == <<vars, consoleVars>>

ConsoleTypeOK ==
    /\ TypeOK
    /\ screen \subseteq Intents
    /\ asked \subseteq Intents
    /\ refused \subseteq Intents

ConsoleInit ==
    /\ Init
    /\ screen = {}
    /\ asked = {}
    /\ refused = {}

Room == Len(commandCh) < CommandCap

(* The mutant: a terminal that files its last command ahead of the others. *)
TrySend_Overtaking(c) ==
    commandCh' = IF Room THEN <<c>> \o commandCh ELSE commandCh

(* Another: a channel without its bound.                                   *)
TrySend_Unbounded(c) == commandCh' = Append(commandCh, c)

(* try_send: the command is dropped when the channel is full, and nobody   *)
(* looks at the result.                                                    *)
TrySend(c) == commandCh' = IF Room THEN Append(commandCh, c) ELSE commandCh

Keyboard == UNCHANGED <<unsent, intentCh, timer, orders, tier, coreVars,
                        screen>>

(* pending_cursor is never moved: the selected intent is the first shown.  *)
Selected == Oldest(screen)

(* What the operator sees of the queue, in a terminal large enough to draw *)
(* anything: the first intent and how many more there are.                 *)
Banner == IF screen = {} THEN {} ELSE {Selected}

(* The operator's rejection of S comes in time for those still waiting for *)
(* a decision, with no approval on its way.                                *)
InTime(S) ==
    IF Room /\ \A k \in DOMAIN commandCh : commandCh[k] # ApproveAll
    THEN (S \cap pending) \ asked
    ELSE {}

KeyApprove ==
    /\ screen # {}
    /\ TrySend(Approve(Selected))
    /\ asked' = asked \cup Banner
    /\ UNCHANGED refused
    /\ Keyboard

KeyReject ==
    /\ screen # {}
    /\ TrySend(Reject(Selected))
    /\ refused' = refused \cup InTime({Selected})
    /\ UNCHANGED asked
    /\ Keyboard

KeyApproveAll ==
    /\ screen # {}
    /\ TrySend(ApproveAll)
    /\ UNCHANGED <<asked, refused>>
    /\ Keyboard

KeyRejectAll ==
    /\ screen # {}
    /\ TrySend(RejectAll)
    /\ refused' = refused \cup InTime(screen)
    /\ UNCHANGED asked
    /\ Keyboard

(* The watch channel signals a change: the latest AppState is copied.      *)
StateChanged ==
    /\ screen # published.pending
    /\ screen' = published.pending
    /\ UNCHANGED <<vars, asked, refused>>

(* All of the gate but the call of the broker.                             *)
Gate ==
    /\ \/ \E i \in Intents : ModuleSend(i)
       \/ Clock
       \/ ReceiveIntent
       \/ \E n \in NetLiqs : ProcessIntent(n)
       \/ HandleSupervisionCommand
       \/ ExpireTimedOutIntents
    /\ UNCHANGED consoleVars

GateSubmits(acked) == SubmitToBroker(acked) /\ UNCHANGED consoleVars

Terminal ==
    \/ KeyApprove
    \/ KeyReject
    \/ KeyApproveAll
    \/ KeyRejectAll
    \/ StateChanged

ConsoleNext ==
    \/ Gate
    \/ \E acked \in BOOLEAN : GateSubmits(acked)
    \/ Terminal

ConsoleSpec == ConsoleInit /\ [][ConsoleNext]_allVars

-----------------------------------------------------------------------------
(* A rejection that enters the channel while its intent still waits, with  *)
(* no approval of it given or on its way, is final: the order never        *)
(* reaches the broker, whatever the operator and the gate do afterwards.   *)
RefusalIsFinal ==
    \A i \in refused : orders[i] = 0

(* Only an approve-all releases an intent that was never on the banner     *)
(* when the approving key was pressed: a single approval cannot hit        *)
(* another intent than the one drawn, however stale the screen is.         *)
SingleApprovalIsExact ==
    [][\A i \in Supervised \ asked :
          Stage(i) = "waiting" /\ Stage(i)' = "released"
            => Head(commandCh) = ApproveAll]_allVars
=============================================================================
