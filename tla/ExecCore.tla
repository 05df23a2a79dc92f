------------------------------- MODULE ExecCore -------------------------------
(***************************************************************************)
(* The supervision gate between the trading modules and the broker         *)
(* (talon-exec exec_core.rs, wired in talon main.rs).                      *)
(*                                                                         *)
(* One task runs a select! loop over three sources: the intent channel,    *)
(* the operator's command channel and a one-second timer.  Its handlers    *)
(* await the broker (account_snapshot, submit), and while they do, the     *)
(* modules and the operator keep filling the channels, time passes, and    *)
(* everyone else looks at the snapshot published after the last handler.   *)
(***************************************************************************)
EXTENDS Supervision, RiskMesh, Sequences, FiniteSets

CONSTANTS
    Intents,       \* the order intents, each with an id of its own (a UUID)
    Order,         \* Order[i]: the intent's module, quantity and stop
    InitialTiers,  \* the stress tiers update_stress can have left before run()
    NetLiqs,       \* what account_snapshot can report; 0 is also its error
    MaxPending,    \* ExecCore.max_pending (10)
    TimeoutSecs,   \* ExecCore.timeout_secs (10)
    Second,        \* the instants the model tells apart within a second
    MaxTicks,      \* bound: ticks of the interval that wait to be handled
    IntentCap,     \* capacity of the intent channel (256)
    CommandCap,    \* capacity of the supervision channel (50)
    NoIntent       \* not an intent

OrderType == [module : ModuleId, qty : Nat, stop : SUBSET Int]

ASSUME ExecCoreAssumption ==
    /\ IsFiniteSet(Intents)
    /\ Order \in [Intents -> OrderType]
    /\ InitialTiers \subseteq StressTier
    /\ NetLiqs \subseteq Int
    /\ MaxPending \in Nat
    /\ {TimeoutSecs, Second, MaxTicks} \subseteq Nat \ {0}
    /\ IntentCap \in Nat
    /\ CommandCap \in Nat
    /\ NoIntent \notin Intents

VARIABLES
    unsent,      \* intents the module loop has not sent yet
    intentCh,    \* the intent channel
    commandCh,   \* the supervision channel
    at,          \* where the ExecCore task is suspended
    current,     \* the intent its handler is working on
    batch,       \* what ApproveAll drained and has still to submit
    pending,     \* the pending queue; its order is that of rank
    rank,        \* the how-manieth intent received, 0 if not received yet
    age,         \* instants an intent has been pending, up to MaxAge
    phase,       \* instants since the one-second interval last elapsed
    ticks,       \* its ticks that are due and not handled yet
    metrics,     \* ExecMetrics
    orders,      \* how often the broker acknowledged the intent's order
    tier,        \* the stress engine's tier
    published    \* the part of AppState that publish_state writes

coreVars == <<at, current, batch, pending, rank, age, metrics, published>>
timer == <<phase, ticks>>
vars == <<unsent, intentCh, commandCh, at, current, batch, pending, rank, age,
          timer, metrics, orders, tier, published>>

(* The timeout in instants, and the age from which on a pending intent is  *)
(* about a second overdue; the model does not tell greater ages apart.     *)
Timeout == TimeoutSecs * Second
MaxAge == Timeout + Second - 1

-----------------------------------------------------------------------------
(* SupervisionCommand.                                                     *)

Approve(i) == [op |-> "Approve", id |-> i]
Reject(i)  == [op |-> "Reject", id |-> i]
ApproveAll == [op |-> "ApproveAll", id |-> NoIntent]
RejectAll  == [op |-> "RejectAll", id |-> NoIntent]

Commands == {Approve(i) : i \in Intents} \cup {Reject(i) : i \in Intents}
               \cup {ApproveAll, RejectAll}

Counters == {"received", "auto", "approved", "rejected", "timeout"}

(* The counter c moves up by n.                                            *)
Count(m, c, n) == [m EXCEPT ![c] = @ + n]

(* The variables have their types, the two channels and the pending queue  *)
(* stay within their capacities, and an intent is held exactly while a     *)
(* handler is suspended.                                                   *)
TypeOK ==
    /\ unsent \subseteq Intents
    /\ intentCh \in Seq(Intents)
    /\ commandCh \in Seq(Commands)
    /\ at \in {"select", "account", "submit"}
    /\ current \in Intents \cup {NoIntent}
    /\ batch \subseteq Intents
    /\ pending \subseteq Intents
    /\ rank \in [Intents -> Nat]
    /\ age \in [Intents -> 0..MaxAge]
    /\ phase \in 0..Second - 1 /\ ticks \in 0..MaxTicks
    /\ metrics \in [Counters -> Nat]
    /\ orders \in [Intents -> Nat]
    /\ tier \in StressTier
    /\ published \in [pending : SUBSET Intents, metrics : [Counters -> Nat]]
    /\ at = "select" <=> current = NoIntent
    /\ at # "submit" => batch = {}
    /\ Len(intentCh) <= IntentCap
    /\ Len(commandCh) <= CommandCap
    /\ Cardinality(pending) <= MaxPending

Init ==
    /\ unsent = Intents
    /\ intentCh = <<>>
    /\ commandCh = <<>>
    /\ at = "select"
    /\ current = NoIntent
    /\ batch = {}
    /\ pending = {}
    /\ rank = [i \in Intents |-> 0]
    /\ age = [i \in Intents |-> 0]
    /\ phase = 0 /\ ticks = 1          \* an interval's first tick is immediate
    /\ metrics = [c \in Counters |-> 0]
    /\ orders = [i \in Intents |-> 0]
    /\ tier \in InitialTiers           \* run() owns the engine from here on
    /\ published = [pending |-> {}, metrics |-> [c \in Counters |-> 0]]

-----------------------------------------------------------------------------
(* The task's environment.                                                 *)

(* The module loop sends an intent; send() waits while the channel is full. *)
ModuleSend(i) ==
    /\ i \in unsent
    /\ Len(intentCh) < IntentCap
    /\ unsent' = unsent \ {i}
    /\ intentCh' = Append(intentCh, i)
    /\ UNCHANGED <<commandCh, timer, orders, tier, coreVars>>

(* A command enters the channel; try_send drops it when the channel is full. *)
OperatorSend(c) ==
    /\ Len(commandCh) < CommandCap
    /\ commandCh' = Append(commandCh, c)
    /\ UNCHANGED <<unsent, intentCh, timer, orders, tier, coreVars>>

(* Time passes, whatever the task is waiting for.  Each intent's age runs  *)
(* from the instant it was queued, the interval from its own; an interval  *)
(* that was not looked at keeps its ticks (Burst, tokio's default).        *)
Clock ==
    /\ phase' = IF phase + 1 = Second THEN 0 ELSE phase + 1
    /\ ticks' = IF phase + 1 = Second /\ ticks < MaxTicks THEN ticks + 1 ELSE ticks
    /\ age' = [i \in Intents |-> IF i \notin pending THEN 0
                                  ELSE IF age[i] < MaxAge THEN age[i] + 1
                                  ELSE age[i]]
    /\ UNCHANGED <<unsent, intentCh, commandCh, at, current, batch, pending,
                   rank, metrics, orders, tier, published>>

-----------------------------------------------------------------------------
(* The select loop.                                                        *)

(* The mutants of this module, each the slip a programmer could make in    *)
(* the definition it is named after.                                       *)
IsExpired_Strict(i) == age[i] > Timeout
IsExpired_Never(i)  == FALSE
PublishState_BeforeTheUpdate(p, m) ==
    published' = [pending |-> pending, metrics |-> m]

IsExpired(i) == age[i] >= Timeout

Oldest(S) == CHOOSE i \in S : \A j \in S : rank[i] <= rank[j]

(* No module holds trust: ExecCore::new starts from an empty ledger and    *)
(* nothing in the crate writes to it.                                      *)
HasAutoTrust(m) == FALSE

(* The handler is over: back to select!, with the state it left published. *)
PublishState(p, m) == published' = [pending |-> p, metrics |-> m]

FinishWith(p, m) ==
    /\ at' = "select"
    /\ current' = NoIntent
    /\ pending' = p
    /\ metrics' = m
    /\ PublishState(p, m)

(* intent_rx.recv() yields an intent: it is counted and process_intent     *)
(* asks the broker for the account.                                        *)
ReceiveIntent ==
    /\ at = "select"
    /\ intentCh # <<>>
    /\ intentCh' = Tail(intentCh)
    /\ at' = "account"
    /\ current' = Head(intentCh)
    /\ metrics' = Count(metrics, "received", 1)
    /\ rank' = [rank EXCEPT ![Head(intentCh)] = metrics.received + 1]
    /\ UNCHANGED <<unsent, commandCh, batch, pending, age, timer, orders,
                   tier, published>>

(* The rest of process_intent once account_snapshot has answered.  The     *)
(* positions the mesh is shown are ExecCore's own list, which stays empty. *)
RejectIntent ==
    /\ FinishWith(pending, Count(metrics, "rejected", 1))
    /\ UNCHANGED <<batch, age>>

SubmitNow ==
    /\ at' = "submit"
    /\ metrics' = Count(metrics, "auto", 1)
    /\ UNCHANGED <<current, batch, pending, age, published>>

EnqueuePending_OneTooMany ==
    IF Cardinality(pending) > MaxPending
    THEN RejectIntent
    ELSE /\ FinishWith(pending \cup {current}, metrics)
         /\ age' = [age EXCEPT ![current] = 0]
         /\ UNCHANGED batch

EnqueuePending_FullMeansSubmit ==
    IF Cardinality(pending) >= MaxPending
    THEN SubmitNow
    ELSE /\ FinishWith(pending \cup {current}, metrics)
         /\ age' = [age EXCEPT ![current] = 0]
         /\ UNCHANGED batch

EnqueuePending ==
    IF Cardinality(pending) >= MaxPending
    THEN RejectIntent
    ELSE /\ FinishWith(pending \cup {current}, metrics)
         /\ age' = [age EXCEPT ![current] = 0]
         /\ UNCHANGED batch

ProcessIntent(netLiq) ==
    /\ at = "account"
    /\ IF ~Approves(Order[current], EmptyBook, netLiq, tier)
       THEN RejectIntent
       ELSE LET m == Order[current].module
            IN  IF EvaluateSupervision(m, HasAutoTrust(m)) = "AutoExecute"
                THEN SubmitNow
                ELSE EnqueuePending
    /\ UNCHANGED <<unsent, intentCh, commandCh, rank, timer, orders, tier>>

(* The broker answers a submission; an error counts as a rejection.  A     *)
(* drained batch goes on with its next intent, oldest first.               *)
SubmitToBroker(acked) ==
    /\ at = "submit"
    /\ orders' = IF acked THEN [orders EXCEPT ![current] = @ + 1] ELSE orders
    /\ LET m == IF acked THEN metrics ELSE Count(metrics, "rejected", 1)
       IN  IF batch = {}
           THEN /\ FinishWith(pending, m)
                /\ UNCHANGED batch
           ELSE /\ current' = Oldest(batch)
                /\ batch' = batch \ {Oldest(batch)}
                /\ metrics' = Count(m, "approved", 1)
                /\ UNCHANGED <<at, pending, published>>
    /\ UNCHANGED <<unsent, intentCh, commandCh, rank, age, timer, tier>>

StartBatch_KeepsPending(S) ==
    /\ at' = "submit"
    /\ current' = Oldest(S)
    /\ batch' = S \ {Oldest(S)}
    /\ metrics' = Count(metrics, "approved", 1)
    /\ UNCHANGED <<pending, published>>

DropPending_CountsOne(S) ==
    /\ FinishWith(pending \ S, Count(metrics, "rejected", IF S = {} THEN 0 ELSE 1))
    /\ UNCHANGED batch

Named_QueueHead(c) ==
    IF c.id = NoIntent \/ pending = {} THEN pending ELSE {Oldest(pending)}

(* A pending intent that leaves the queue takes its Instant with it.       *)
ForgetAges == age' = [i \in Intents |-> IF i \in pending' THEN age[i] ELSE 0]

(* supervision_rx.recv() yields a command.                                 *)
StartBatch(S) ==
    /\ at' = "submit"
    /\ current' = Oldest(S)
    /\ batch' = S \ {Oldest(S)}
    /\ pending' = pending \ S
    /\ metrics' = Count(metrics, "approved", 1)
    /\ UNCHANGED published

DropPending(S) ==
    /\ FinishWith(pending \ S, Count(metrics, "rejected", Cardinality(S)))
    /\ UNCHANGED batch

(* The pending intents a command names; none if the id is gone.            *)
Named(c) == IF c.id = NoIntent THEN pending ELSE pending \cap {c.id}

HandleSupervisionCommand ==
    /\ at = "select"
    /\ commandCh # <<>>
    /\ commandCh' = Tail(commandCh)
    /\ LET c == Head(commandCh)
       IN  IF c.op \in {"Approve", "ApproveAll"} /\ Named(c) # {}
           THEN StartBatch(Named(c))
           ELSE DropPending(IF c.op \in {"Reject", "RejectAll"}
                            THEN Named(c) ELSE {})
    /\ ForgetAges
    /\ UNCHANGED <<unsent, intentCh, rank, timer, orders, tier>>

(* timeout_check.tick(): what is too old leaves the queue.                 *)
ExpireTimedOutIntents ==
    /\ at = "select"
    /\ ticks > 0
    /\ ticks' = ticks - 1
    /\ LET expired == {i \in pending : IsExpired(i)}
       IN  FinishWith(pending \ expired,
                      Count(metrics, "timeout", Cardinality(expired)))
    /\ ForgetAges
    /\ UNCHANGED <<unsent, intentCh, commandCh, batch, rank, phase, orders, tier>>

-----------------------------------------------------------------------------
Next ==
    \/ \E i \in Intents : ModuleSend(i)
    \/ \E c \in Commands : OperatorSend(c)
    \/ Clock
    \/ ReceiveIntent
    \/ \E n \in NetLiqs : ProcessIntent(n)
    \/ \E acked \in BOOLEAN : SubmitToBroker(acked)
    \/ HandleSupervisionCommand
    \/ ExpireTimedOutIntents

Spec == Init /\ [][Next]_vars

(* tokio::select! picks at random among the sources that are ready, so no  *)
(* source that is ready again and again is passed over for ever; time      *)
(* goes on.  BrokerAnswers is an assumption about the outside: the code    *)
(* puts no time limit on a broker call.                                    *)
LoopFairness ==
    /\ WF_vars(Clock)
    /\ SF_vars(ReceiveIntent)
    /\ SF_vars(HandleSupervisionCommand)
    /\ SF_vars(ExpireTimedOutIntents)

BrokerAnswers ==
    /\ WF_vars(\E n \in NetLiqs : ProcessIntent(n))
    /\ WF_vars(\E acked \in BOOLEAN : SubmitToBroker(acked))

FairSpec == Spec /\ LoopFairness /\ BrokerAnswers

SilentBrokerSpec == Spec /\ LoopFairness

-----------------------------------------------------------------------------
(* Where an intent stands, read off the state.                             *)

Supervised == {i \in Intents :
                 SupervisionModel(Order[i].module) # "SupervisedAutonomy"}

Acked == {i \in Intents : orders[i] > 0}

InFlight == IF at = "select" THEN {} ELSE {current}

Stage(i) ==
    IF i \in Acked                            THEN "acked"
    ELSE IF i \in pending                     THEN "waiting"
    ELSE IF i \in batch                       THEN "released"
    ELSE IF i \in InFlight /\ at = "submit"   THEN "released"
    ELSE IF i \in InFlight                    THEN "checking"
    ELSE IF rank[i] = 0                       THEN "new"
    ELSE "closed"

(* The gate as a whole: every intent runs through the life cycle of        *)
(* IntentLifecycle, whatever the interleaving of intents, commands, ticks  *)
(* and broker replies.                                                     *)
Lifecycle == INSTANCE IntentLifecycle
                WITH stage <- [i \in Intents |-> Stage(i)]

ImplementsLifecycle == Lifecycle!Spec

(* Every received intent is accounted for exactly once: acknowledged by    *)
(* the broker, counted as rejected or timed out, waiting in the queue, or  *)
(* in the handler's hands.  The counters the operator sees add up.         *)
Accounted ==
    metrics.received = Cardinality(Acked) + metrics.rejected + metrics.timeout
                       + Cardinality(pending) + Cardinality(batch)
                       + Cardinality(InFlight)

(* No order reaches the broker twice, however often its approval is        *)
(* repeated, and none that reached it is still queued.                     *)
SubmittedAtMostOnce ==
    \A i \in Intents :
        /\ orders[i] <= 1
        /\ orders[i] = 1 => i \notin pending \cup batch \cup InFlight

(* An intent is in one place at a time: not sent yet, in the channel, or   *)
(* received; and a received one is in the queue, in the batch being        *)
(* released, in the handler's hands, at the broker, or gone for good.      *)
InOnePlace ==
    /\ \A k, l \in 1..Len(intentCh) : intentCh[k] = intentCh[l] => k = l
    /\ \A k \in 1..Len(intentCh) :
          intentCh[k] \notin unsent /\ rank[intentCh[k]] = 0
    /\ \A i \in unsent : rank[i] = 0
    /\ \A i \in pending \cup batch \cup InFlight \cup Acked : rank[i] > 0
    /\ pending \cap (batch \cup InFlight \cup Acked) = {}
    /\ batch \cap (InFlight \cup Acked) = {}
    /\ InFlight \cap Acked = {}

(* While every tick that is due has been handled, what is in the queue was *)
(* within its time when the interval last elapsed: nothing stays there for *)
(* a second beyond its timeout, in whatever phase it was queued.           *)
SweptWithinASecond ==
    at = "select" /\ ticks = 0 => \A i \in pending : age[i] < Timeout + phase

(* Between handlers the published snapshot is the gate's real state; while *)
(* one is suspended it still shows the last one, which is wrong only in    *)
(* listing the intents being submitted as pending.                         *)
PublishedIsCurrent ==
    /\ at = "select" => published = [pending |-> pending, metrics |-> metrics]
    /\ at = "account" => published.pending = pending
    /\ at = "submit" => /\ pending \subseteq published.pending
                        /\ batch \subseteq published.pending

(* A supervised intent is released only by an operator command that names  *)
(* it, taken from the channel in that very step.                           *)
OnlyOperatorReleases ==
    [][\A i \in Supervised :
          Stage(i) # "released" /\ Stage(i)' = "released"
            => /\ commandCh # <<>>
               /\ Head(commandCh) \in {Approve(i), ApproveAll}
               /\ commandCh' = Tail(commandCh)]_vars

(* Every intent the modules send is decided in the end, provided the       *)
(* broker answers: acknowledged, rejected or timed out.                    *)
EventuallyDecided ==
    \A i \in Intents :
        i \notin unsent ~> Stage(i) \in {"acked", "closed"}

-----------------------------------------------------------------------------
(* What the repository says of the gate and the code does not keep.        *)

(* A waiting intent leaves the queue once its time is up (config           *)
(* talon.toml, "auto-reject after 10s with no decision"), also when the    *)
(* broker is silent: the handlers await it inside the select loop.         *)
TimeoutIsKept ==
    \A i \in Intents : Stage(i) = "waiting" ~> Stage(i) # "waiting"
=============================================================================
