--------------------------- MODULE BrokerLinkProofs ---------------------------
(***************************************************************************)
(* What TLAPS proves of the gate, for every set of intents, every capacity *)
(* and every timeout: first of the gate alone (ExecCore), then of the gate *)
(* with the operator's terminal and the broker around it (Console,         *)
(* BrokerLink), where every step of the desk is a step of the gate.        *)
(***************************************************************************)
EXTENDS BrokerLink, FiniteSetTheorems, TLAPS

-----------------------------------------------------------------------------
(* The oldest intent of a nonempty set is one of its members.              *)
LEMMA OldestIsMember ==
    ASSUME NEW S, S \subseteq Intents, S # {}, rank \in [Intents -> Nat]
    PROVE  Oldest(S) \in S
<1> DEFINE R == {rank[i] : i \in S}
<1>1. R \subseteq Nat /\ R # {}
  OBVIOUS
<1>2. PICK m \in R : \A n \in R : <<n, m>> \notin OpToRel(<, Nat)
  BY <1>1, NatLessThanWellFounded, WFMin, Zenon
<1>3. \A n \in R : m <= n
  <2> TAKE n \in R
  <2>1. m \in Nat /\ n \in Nat
    BY <1>1
  <2>2. ~(n < m)
    BY <1>2, <2>1 DEF OpToRel
  <2> QED
    BY <2>1, <2>2
<1>4. PICK i \in S : rank[i] = m
  BY <1>2
<1>5. \A j \in S : rank[i] <= rank[j]
  BY <1>3, <1>4
<1> QED
  BY <1>4, <1>5 DEF Oldest

(* The pending queue and every part of it is finite.                       *)
LEMMA PartsAreFinite ==
    ASSUME NEW S, S \subseteq Intents
    PROVE  IsFiniteSet(S) /\ Cardinality(S) \in Nat
<1>1. IsFiniteSet(S)
  BY FS_Subset, ExecCoreAssumption
<1> QED
  BY <1>1, FS_CardinalityType

(* A counter that moves up stays a counter.                                *)
LEMMA CountType ==
    ASSUME NEW m \in [Counters -> Nat], NEW c \in Counters, NEW n \in Nat
    PROVE  /\ Count(m, c, n) \in [Counters -> Nat]
           /\ Count(m, c, n)[c] = m[c] + n
           /\ \A d \in Counters : d # c => Count(m, c, n)[d] = m[d]
  BY DEF Count

(* The timeout takes time, and the greatest age is no less.                *)
LEMMA TimesAreTimes ==
    Timeout \in Nat \ {0} /\ MaxAge \in Nat /\ Second \in Nat \ {0}
<1>1. TimeoutSecs \in Nat \ {0} /\ Second \in Nat \ {0}
  BY ExecCoreAssumption
<1>2. TimeoutSecs * Second \in Nat \ {0}
  BY <1>1
<1> QED
  BY <1>1, <1>2 DEF Timeout, MaxAge

(* An intent that leaves the queue, or has just come, has no age.          *)
LEMMA AgesForgotten ==
    ASSUME TypeOK, ForgetAges
    PROVE  age' \in [Intents -> 0..MaxAge]
<1>1. MaxAge \in Nat
  BY TimesAreTimes
<1> QED
  BY <1>1 DEF ForgetAges, TypeOK

(* The types hold initially.                                               *)
LEMMA InitTypeOK == Init => TypeOK
<1> SUFFICES ASSUME Init PROVE TypeOK
  OBVIOUS
<1>1. Cardinality({}) = 0
  BY FS_EmptySet
<1>2. MaxAge \in Nat /\ Second \in Nat \ {0} /\ MaxTicks \in Nat \ {0}
  BY TimesAreTimes, ExecCoreAssumption
<1> QED
  BY <1>1, <1>2, ExecCoreAssumption, SMTT(30) DEF Init, TypeOK

(* Every action keeps the types.                                           *)
LEMMA NextTypeOK == TypeOK /\ [Next]_vars => TypeOK'
<1> SUFFICES ASSUME TypeOK, [Next]_vars PROVE TypeOK'
  OBVIOUS
<1> USE ExecCoreAssumption
<1>1. ASSUME NEW i \in Intents, ModuleSend(i) PROVE TypeOK'
  <2>1. intentCh' \in Seq(Intents) /\ Len(intentCh') <= IntentCap
    <3>1. intentCh \in Seq(Intents) /\ intentCh' = Append(intentCh, i)
          /\ Len(intentCh) < IntentCap
      BY <1>1 DEF ModuleSend, TypeOK
    <3> QED
      BY <3>1
  <2>2. unsent' \subseteq Intents /\ UNCHANGED <<commandCh, timer, orders, tier, coreVars>>
    BY <1>1 DEF ModuleSend, TypeOK
  <2> QED
    BY <2>1, <2>2 DEF TypeOK, coreVars, timer
<1>2. ASSUME NEW c \in Commands, OperatorSend(c) PROVE TypeOK'
  <2>1. commandCh' \in Seq(Commands) /\ Len(commandCh') <= CommandCap
    <3>1. commandCh \in Seq(Commands) /\ commandCh' = Append(commandCh, c)
          /\ Len(commandCh) < CommandCap
      BY <1>2 DEF OperatorSend, TypeOK
    <3> QED
      BY <3>1
  <2>2. UNCHANGED <<unsent, intentCh, timer, orders, tier, coreVars>>
    BY <1>2 DEF OperatorSend
  <2> QED
    BY <2>1, <2>2 DEF TypeOK, coreVars, timer
<1>3. CASE Clock
  <2>1. Timeout \in Nat \ {0} /\ MaxAge \in Nat
    BY TimesAreTimes
  <2>2. phase' \in 0..Second - 1 /\ ticks' \in 0..MaxTicks
    BY <1>3 DEF Clock, TypeOK
  <2>3. age' \in [Intents -> 0..MaxAge]
    BY <1>3, <2>1 DEF Clock, TypeOK
  <2>4. UNCHANGED <<unsent, intentCh, commandCh, at, current, batch, pending,
                    rank, metrics, orders, tier, published>>
    BY <1>3 DEF Clock
  <2> QED
    BY <2>2, <2>3, <2>4 DEF TypeOK
<1>4. CASE ReceiveIntent
  <2>1. Head(intentCh) \in Intents /\ Tail(intentCh) \in Seq(Intents)
    BY <1>4 DEF ReceiveIntent, TypeOK
  <2>2. Len(Tail(intentCh)) <= IntentCap
    BY <1>4 DEF ReceiveIntent, TypeOK
  <2>3. metrics' \in [Counters -> Nat]
    <3>1. "received" \in Counters /\ 1 \in Nat /\ metrics \in [Counters -> Nat]
      BY DEF Counters, TypeOK
    <3>2. Count(metrics, "received", 1) \in [Counters -> Nat]
      BY <3>1, CountType
    <3> QED
      BY <1>4, <3>2 DEF ReceiveIntent
  <2>4. metrics.received \in Nat
    BY DEF TypeOK, Counters
  <2>5. rank' \in [Intents -> Nat]
    <3>1. PICK n \in Nat : n = metrics.received + 1
      BY <2>4
    <3>2. rank \in [Intents -> Nat] /\ rank' = [rank EXCEPT ![Head(intentCh)] = n]
      BY <1>4, <3>1 DEF ReceiveIntent, TypeOK
    <3> QED
      BY <3>2
  <2> QED
    BY <1>4, <2>1, <2>2, <2>3, <2>4, <2>5 DEF ReceiveIntent, TypeOK, timer
<1>5. ASSUME NEW n \in NetLiqs, ProcessIntent(n) PROVE TypeOK'
  <2>0. current \in Intents
    BY <1>5 DEF ProcessIntent, TypeOK
  <2>p. IsFiniteSet(pending) /\ Cardinality(pending) \in Nat
    BY PartsAreFinite DEF TypeOK
  <2>1. CASE RejectIntent
    <3>1. Count(metrics, "rejected", 1) \in [Counters -> Nat]
      BY CountType DEF TypeOK, Counters
    <3> QED
      BY <1>5, <2>1, <3>1 DEF ProcessIntent, RejectIntent, FinishWith, PublishState, TypeOK, timer
  <2>2. CASE SubmitNow
    <3>1. Count(metrics, "auto", 1) \in [Counters -> Nat]
      BY CountType DEF TypeOK, Counters
    <3> QED
      BY <1>5, <2>2, <3>1 DEF ProcessIntent, SubmitNow, TypeOK, timer
  <2>3. CASE EnqueuePending /\ Cardinality(pending) < MaxPending
    <3>1. Cardinality(pending \cup {current}) <= MaxPending
      <4>1. Cardinality(pending \cup {current}) =
              IF current \in pending THEN Cardinality(pending)
                                     ELSE Cardinality(pending) + 1
        BY <2>p, FS_AddElement
      <4> QED
        BY <2>3, <2>p, <4>1
    <3>2. ~(Cardinality(pending) >= MaxPending)
      BY <2>3, <2>p
    <3>3. /\ at' = "select" /\ current' = NoIntent /\ at = "account"
          /\ pending' = pending \cup {current} /\ metrics' = metrics
          /\ published' = [pending |-> pending', metrics |-> metrics']
          /\ age' = [age EXCEPT ![current] = 0] /\ batch' = batch
          /\ UNCHANGED <<unsent, intentCh, commandCh, rank, phase, ticks, orders, tier>>
      BY <1>5, <2>3, <3>2
         DEF ProcessIntent, EnqueuePending, FinishWith, PublishState, timer
    <3>4. age' \in [Intents -> 0..MaxAge] /\ pending' \subseteq Intents
      BY <2>0, <3>3, TimesAreTimes DEF TypeOK
    <3> QED
      BY <3>1, <3>3, <3>4 DEF TypeOK
  <2>4. EnqueuePending => RejectIntent \/ Cardinality(pending) < MaxPending
    BY <2>p DEF EnqueuePending
  <2> QED
    BY <1>5, <2>1, <2>2, <2>3, <2>4 DEF ProcessIntent
<1>6. ASSUME NEW acked \in BOOLEAN, SubmitToBroker(acked) PROVE TypeOK'
  <2> DEFINE m == IF acked THEN metrics ELSE Count(metrics, "rejected", 1)
  <2>1. m \in [Counters -> Nat]
    BY CountType DEF TypeOK, Counters
  <2>2. orders' \in [Intents -> Nat]
    BY <1>6 DEF SubmitToBroker, TypeOK
  <2>3. CASE batch = {}
    BY <1>6, <2>1, <2>2, <2>3
       DEF SubmitToBroker, FinishWith, PublishState, TypeOK, timer
  <2>4. CASE batch # {}
    <3>1. Oldest(batch) \in batch
      BY <2>4, OldestIsMember DEF TypeOK
    <3>2. Count(m, "approved", 1) \in [Counters -> Nat]
      BY <2>1, CountType DEF Counters
    <3>3. current' \in Intents /\ batch' \subseteq Intents
          /\ metrics' \in [Counters -> Nat] /\ at' = "submit"
      BY <1>6, <2>4, <3>1, <3>2 DEF SubmitToBroker, TypeOK
    <3> QED
      BY <1>6, <2>2, <2>4, <3>3 DEF SubmitToBroker, TypeOK, timer
  <2> QED
    BY <2>3, <2>4
<1>7. CASE HandleSupervisionCommand
  <2> DEFINE c == Head(commandCh)
  <2>1. /\ c \in Commands
        /\ Tail(commandCh) \in Seq(Commands)
        /\ Len(Tail(commandCh)) <= CommandCap
    BY <1>7 DEF HandleSupervisionCommand, TypeOK
  <2>2. Named(c) \subseteq pending
    BY DEF Named
  <2>3. ASSUME NEW S, S \subseteq pending
        PROVE  /\ IsFiniteSet(S) /\ Cardinality(S) \in Nat
               /\ Cardinality(pending \ S) <= MaxPending
    <3>1. IsFiniteSet(pending) /\ IsFiniteSet(S) /\ Cardinality(S) \in Nat
      BY <2>3, PartsAreFinite DEF TypeOK
    <3>2. Cardinality(pending \ S) <= Cardinality(pending)
      BY <3>1, FS_Subset
    <3>3. Cardinality(pending \ S) \in Nat /\ Cardinality(pending) \in Nat
      BY PartsAreFinite DEF TypeOK
    <3> QED
      BY <3>1, <3>2, <3>3 DEF TypeOK
  <2>a. age' \in [Intents -> 0..MaxAge] /\ UNCHANGED timer
    BY <1>7, AgesForgotten DEF HandleSupervisionCommand
  <2>4. CASE StartBatch(Named(c)) /\ Named(c) # {}
    <3>1. Oldest(Named(c)) \in Named(c)
      BY <2>2, <2>4, OldestIsMember DEF TypeOK
    <3>2. Count(metrics, "approved", 1) \in [Counters -> Nat]
      BY CountType DEF TypeOK, Counters
    <3> QED
      BY <1>7, <2>1, <2>2, <2>3, <2>a, <2>4, <3>1, <3>2
         DEF HandleSupervisionCommand, StartBatch, TypeOK, timer
  <2>5. ASSUME NEW S, S \subseteq pending, DropPending(S)
        PROVE  TypeOK'
    <3>1. Count(metrics, "rejected", Cardinality(S)) \in [Counters -> Nat]
      BY <2>3, <2>5, CountType DEF TypeOK, Counters
    <3> QED
      BY <1>7, <2>1, <2>3, <2>a, <2>5, <3>1
         DEF HandleSupervisionCommand, DropPending, FinishWith, PublishState, TypeOK, timer
  <2> QED
    BY <1>7, <2>2, <2>4, <2>5 DEF HandleSupervisionCommand
<1>8. CASE ExpireTimedOutIntents
  <2> DEFINE E == {i \in pending : IsExpired(i)}
  <2>1. IsFiniteSet(pending) /\ Cardinality(E) \in Nat
    BY PartsAreFinite DEF TypeOK
  <2>2. Cardinality(pending \ E) <= Cardinality(pending)
    BY <2>1, FS_Subset
  <2>3. Count(metrics, "timeout", Cardinality(E)) \in [Counters -> Nat]
    BY <2>1, CountType DEF TypeOK, Counters
  <2>4. Cardinality(pending \ E) \in Nat /\ Cardinality(pending) \in Nat
    BY PartsAreFinite DEF TypeOK
  <2>5. /\ pending' = pending \ E
        /\ metrics' = Count(metrics, "timeout", Cardinality(E))
        /\ published' = [pending |-> pending', metrics |-> metrics']
        /\ at' = at /\ current' = NoIntent /\ ticks' = ticks - 1 /\ ticks > 0
    BY <1>8 DEF ExpireTimedOutIntents, FinishWith, PublishState
  <2> HIDE DEF E
  <2>6. /\ at = "select" /\ pending' \subseteq Intents
        /\ Cardinality(pending') <= MaxPending
        /\ UNCHANGED <<unsent, intentCh, commandCh, batch, rank, phase, orders, tier>>
    BY <1>8, <2>2, <2>4, <2>5 DEF ExpireTimedOutIntents, TypeOK
  <2>7. age' \in [Intents -> 0..MaxAge]
    BY <1>8, AgesForgotten DEF ExpireTimedOutIntents
  <2>8. ticks' \in 0..MaxTicks
    BY <2>5 DEF TypeOK
  <2> QED
    BY <2>3, <2>5, <2>6, <2>7, <2>8 DEF TypeOK
<1>9. CASE UNCHANGED vars
  BY <1>9 DEF vars, TypeOK, timer
<1> QED
  BY <1>1, <1>2, <1>3, <1>4, <1>5, <1>6, <1>7, <1>8, <1>9 DEF Next

(* The gate keeps its types, and its channels and its queue their bounds.  *)
THEOREM TypeCorrect == Spec => []TypeOK
  BY InitTypeOK, NextTypeOK, PTL DEF Spec

-----------------------------------------------------------------------------
(* What the steps of the handlers do to the places an intent can be in.    *)
(* The handlers branch; these are their outcomes.                          *)

FromSelect  == at = "select" /\ batch = {} /\ InFlight = {}
OthersStay  == UNCHANGED <<unsent, intentCh, rank>>

(* The intent in the handler's hands is refused by mesh or broker.         *)
Refused ==
    /\ InFlight = {current} /\ InFlight' = {} /\ batch = {}
    /\ UNCHANGED <<pending, batch, orders>>
    /\ metrics' = Count(metrics, "rejected", 1)

(* It is kept for the operator.                                            *)
Kept ==
    /\ at = "account" /\ at' = "select" /\ current' = NoIntent
    /\ InFlight = {current} /\ InFlight' = {} /\ batch = {}
    /\ pending' = pending \cup {current}
    /\ UNCHANGED <<batch, orders, metrics>>

(* It goes to the broker.                                                  *)
Passed ==
    /\ at = "account" /\ at' = "submit" /\ current' = current
    /\ InFlight = {current} /\ InFlight' = {current}
    /\ UNCHANGED <<pending, batch, orders>>
    /\ metrics' = Count(metrics, "auto", 1)

(* process_intent refuses, queues or passes the intent in hand.            *)
LEMMA ProcessIntentOutcomes ==
    ASSUME TypeOK, NEW n \in NetLiqs, ProcessIntent(n)
    PROVE  /\ current \in Intents /\ OthersStay
           /\ \/ Refused /\ at = "account" /\ at' = "select" /\ current' = NoIntent
              \/ Kept
              \/ /\ Passed
                 /\ LET m == Order[current].module
                    IN  EvaluateSupervision(m, HasAutoTrust(m)) = "AutoExecute"
<1>1. at = "account" /\ current \in Intents /\ OthersStay /\ UNCHANGED orders
      /\ batch = {}
  BY ExecCoreAssumption DEF ProcessIntent, TypeOK, OthersStay
<1>2. InFlight = {current}
  BY <1>1 DEF InFlight
<1>3. CASE RejectIntent
  BY <1>1, <1>2, <1>3 DEF RejectIntent, FinishWith, Refused, InFlight
<1>4. CASE /\ SubmitNow
           /\ LET m == Order[current].module
              IN  EvaluateSupervision(m, HasAutoTrust(m)) = "AutoExecute"
  BY <1>1, <1>2, <1>4 DEF SubmitNow, Passed, InFlight
<1>5. CASE EnqueuePending
  BY <1>1, <1>2, <1>3, <1>5 DEF EnqueuePending, FinishWith, Kept, InFlight
<1> QED
  BY <1>1, <1>3, <1>4, <1>5 DEF ProcessIntent

(* A command releases a nonempty part of the queue or drops a part of it.  *)
Released(S) ==
    /\ S # {} /\ S \subseteq pending /\ FromSelect
    /\ at' = "submit" /\ current' \in S /\ InFlight' = {current'}
    /\ batch' = S \ {current'}
    /\ pending' = pending \ S
    /\ metrics' = Count(metrics, "approved", 1)
    /\ UNCHANGED orders

Dropped(S, c) ==
    /\ S \subseteq pending /\ FromSelect
    /\ at' = "select" /\ current' = NoIntent /\ InFlight' = {}
    /\ pending' = pending \ S
    /\ metrics' = Count(metrics, c, Cardinality(S))
    /\ UNCHANGED <<batch, orders>>

(* An operator command releases or drops what it names.                    *)
LEMMA CommandOutcomes ==
    ASSUME TypeOK, HandleSupervisionCommand
    PROVE  /\ OthersStay
           /\ \/ /\ Head(commandCh).op \in {"Approve", "ApproveAll"}
                 /\ Released(Named(Head(commandCh)))
              \/ Dropped(Named(Head(commandCh)), "rejected")
<1> DEFINE c == Head(commandCh)
<1>1. OthersStay /\ FromSelect /\ UNCHANGED orders
  BY DEF HandleSupervisionCommand, TypeOK, OthersStay, FromSelect, InFlight
<1>2. Named(c) \subseteq pending
  BY DEF Named
<1>3. CASE StartBatch(Named(c)) /\ Named(c) # {}
           /\ c.op \in {"Approve", "ApproveAll"}
  <2>1. Oldest(Named(c)) \in Named(c)
    BY <1>2, <1>3, OldestIsMember DEF TypeOK
  <2> QED
    BY <1>1, <1>2, <1>3, <2>1 DEF StartBatch, Released, InFlight
<1>4. ASSUME NEW S, S \subseteq pending, DropPending(S)
      PROVE  Dropped(S, "rejected")
  BY <1>1, <1>4 DEF DropPending, FinishWith, Dropped, InFlight
<1>5. \/ StartBatch(Named(c)) /\ Named(c) # {} /\ c.op \in {"Approve", "ApproveAll"}
      \/ DropPending(Named(c))
  <2>1. c.op \in {"Approve", "ApproveAll", "Reject", "RejectAll"}
    BY DEF HandleSupervisionCommand, TypeOK, Commands, Approve, Reject,
           ApproveAll, RejectAll
  <2> QED
    BY <2>1 DEF HandleSupervisionCommand
<1> QED
  BY <1>1, <1>2, <1>3, <1>4, <1>5

(* The timer drops what is too old.                                        *)
LEMMA ExpiryOutcome ==
    ASSUME TypeOK, ExpireTimedOutIntents
    PROVE  OthersStay /\ Dropped({i \in pending : IsExpired(i)}, "timeout")
<1> DEFINE E == {i \in pending : IsExpired(i)}
<1>1. E \subseteq pending
  OBVIOUS
<1>2. /\ FinishWith(pending \ E, Count(metrics, "timeout", Cardinality(E)))
      /\ at = "select" /\ UNCHANGED <<unsent, intentCh, batch, rank, orders>>
  BY DEF ExpireTimedOutIntents
<1>3. batch = {}
  BY <1>2 DEF TypeOK
<1> HIDE DEF E
<1>4. OthersStay /\ Dropped(E, "timeout")
  BY <1>1, <1>2, <1>3 DEF FinishWith, OthersStay, Dropped, FromSelect, InFlight
<1> QED
  BY <1>4 DEF E

(* The intents the handlers hold.                                          *)
Held == batch \cup InFlight

(* The broker's answer takes the current intent out of the handler's hands *)
(* and, with an acknowledgement, books its order.                          *)
Answered(acked) ==
    /\ at = "submit" /\ InFlight = {current} /\ current \in Intents
    /\ Held' = Held \ {current}
    /\ batch' \subseteq batch /\ InFlight' \subseteq batch
    /\ batch' \cap InFlight' = {}
    /\ pending' = pending
    /\ orders' = IF acked THEN [orders EXCEPT ![current] = @ + 1] ELSE orders

(* What the answer does to the counters.                                   *)
AnsweredMetrics(acked) ==
    LET m == IF acked THEN metrics ELSE Count(metrics, "rejected", 1)
    IN  metrics' \in {m, Count(m, "approved", 1)}

(* The broker's answer ends the handler or takes the next of the batch.    *)
LEMMA SubmitOutcome ==
    ASSUME TypeOK, InOnePlace, NEW acked \in BOOLEAN, SubmitToBroker(acked)
    PROVE  OthersStay /\ Answered(acked) /\ AnsweredMetrics(acked)
<1>1. /\ at = "submit" /\ InFlight = {current} /\ OthersStay
      /\ orders' = IF acked THEN [orders EXCEPT ![current] = @ + 1] ELSE orders
  BY DEF SubmitToBroker, InFlight, OthersStay
<1>2. current \in Intents /\ batch \cap InFlight = {}
  BY <1>1, ExecCoreAssumption DEF TypeOK, InOnePlace
<1>3. CASE batch = {}
  <2>1. UNCHANGED <<pending, batch>> /\ at' = "select" /\ AnsweredMetrics(acked)
    BY <1>3 DEF SubmitToBroker, FinishWith, AnsweredMetrics
  <2>2. InFlight' = {}
    BY <2>1 DEF InFlight
  <2> QED
    BY <1>1, <1>2, <1>3, <2>1, <2>2 DEF Answered, Held
<1>4. CASE batch # {}
  <2>1. /\ current' = Oldest(batch) /\ batch' = batch \ {Oldest(batch)}
        /\ UNCHANGED <<at, pending>> /\ AnsweredMetrics(acked)
    BY <1>4 DEF SubmitToBroker, AnsweredMetrics
  <2>2. Oldest(batch) \in batch
    BY <1>4, OldestIsMember DEF TypeOK
  <2>3. InFlight' = {current'}
    BY <1>1, <2>1 DEF InFlight
  <2> QED
    BY <1>1, <1>2, <2>1, <2>2, <2>3 DEF Answered, Held
<1> QED
  BY <1>3, <1>4

-----------------------------------------------------------------------------
(* The inductive invariant.                                                *)

(* No intent is anywhere at the start. *)
LEMMA InitInOnePlace == Init => InOnePlace
<1> SUFFICES ASSUME Init PROVE InOnePlace
  OBVIOUS
<1>1. InFlight = {} /\ Acked = {} /\ Len(intentCh) = 0
  BY DEF Init, InFlight, Acked
<1> QED
  BY <1>1 DEF Init, InOnePlace

(* Every step keeps each intent in one place.                              *)
LEMMA NextInOnePlace == TypeOK /\ InOnePlace /\ [Next]_vars => InOnePlace'
<1> SUFFICES ASSUME TypeOK, InOnePlace, [Next]_vars PROVE InOnePlace'
  OBVIOUS
<1>1. ASSUME NEW i \in Intents, ModuleSend(i) PROVE InOnePlace'
  <2>1. UNCHANGED <<at, current, pending, batch, orders, rank>>
    BY <1>1 DEF ModuleSend, coreVars
  <2>2. InFlight' = InFlight /\ Acked' = Acked
    BY <2>1 DEF InFlight, Acked
  <2>3. /\ Len(intentCh') = Len(intentCh) + 1
        /\ \A k \in 1..Len(intentCh') :
              intentCh'[k] = IF k <= Len(intentCh) THEN intentCh[k] ELSE i
        /\ unsent' = unsent \ {i} /\ i \in unsent
    <3>1. intentCh' = Append(intentCh, i) /\ unsent' = unsent \ {i} /\ i \in unsent
      BY <1>1 DEF ModuleSend
    <3>2. intentCh \in Seq(Intents)
      BY DEF TypeOK
    <3>3. Len(intentCh') = Len(intentCh) + 1
      BY <3>1, <3>2
    <3>4. ASSUME NEW k \in 1..Len(intentCh')
          PROVE  intentCh'[k] = IF k <= Len(intentCh) THEN intentCh[k] ELSE i
      BY <3>1, <3>2
    <3> QED
      BY <3>1, <3>3, <3>4
  <2>4. \A k \in 1..Len(intentCh) : intentCh[k] # i
    <3>1. \A k \in 1..Len(intentCh) : intentCh[k] \notin unsent
      BY DEF InOnePlace
    <3>2. i \in unsent
      BY <1>1 DEF ModuleSend
    <3> QED
      BY <3>1, <3>2
  <2>5. Len(intentCh) \in Nat
    BY DEF TypeOK
  <2>6. \A k, l \in 1..Len(intentCh') : intentCh'[k] = intentCh'[l] => k = l
    BY <2>3, <2>4, <2>5 DEF InOnePlace
  <2>7. rank[i] = 0
    BY <2>3 DEF InOnePlace
  <2>8. \A k \in 1..Len(intentCh') :
          intentCh'[k] \notin unsent' /\ rank'[intentCh'[k]] = 0
    BY <2>1, <2>3, <2>5, <2>7 DEF InOnePlace
  <2> QED
    BY <2>1, <2>2, <2>3, <2>6, <2>8 DEF InOnePlace
<1>2. ASSUME UNCHANGED <<unsent, intentCh, at, current, pending, batch, orders, rank>>
      PROVE  InOnePlace'
  <2>1. InFlight' = InFlight /\ Acked' = Acked
    BY <1>2 DEF InFlight, Acked
  <2> QED
    BY <1>2, <2>1 DEF InOnePlace
<1>3. CASE ReceiveIntent
  <2> DEFINE i == Head(intentCh)
  <2>1. /\ at = "select" /\ at' = "account" /\ current' = i
        /\ UNCHANGED <<unsent, pending, batch, orders>>
        /\ batch = {}
    BY <1>3 DEF ReceiveIntent, TypeOK
  <2>2. InFlight = {} /\ InFlight' = {i} /\ Acked' = Acked
    BY <2>1 DEF InFlight, Acked
  <2>3. /\ i \in Intents /\ i = intentCh[1] /\ 1 \in 1..Len(intentCh)
        /\ Len(intentCh') = Len(intentCh) - 1
        /\ Len(intentCh) \in Nat /\ Len(intentCh') \in Nat
        /\ \A k \in 1..Len(intentCh') :
              intentCh'[k] = intentCh[k + 1] /\ k + 1 \in 1..Len(intentCh)
    BY <1>3 DEF ReceiveIntent, TypeOK
  <2>4. rank[i] = 0 /\ i \notin unsent
    BY <2>3 DEF InOnePlace
  <2>5. \A k \in 1..Len(intentCh') : intentCh'[k] # i
    BY <2>3 DEF InOnePlace
  <2>6. rank' = [rank EXCEPT ![i] = rank'[i]] /\ rank'[i] > 0
    <3>1. rank' = [rank EXCEPT ![i] = metrics.received + 1]
      BY <1>3 DEF ReceiveIntent
    <3>2. metrics.received + 1 > 0
      BY DEF TypeOK, Counters
    <3>3. rank'[i] = metrics.received + 1
      BY <2>3, <3>1 DEF TypeOK
    <3> HIDE DEF i
    <3> QED
      BY <3>1, <3>2, <3>3
  <2>7. i \notin pending \cup batch \cup Acked
    BY <2>4 DEF InOnePlace
  <2>8. rank \in [Intents -> Nat] /\ pending \subseteq Intents
        /\ Acked \subseteq Intents /\ unsent \subseteq Intents
        /\ \A k \in 1..Len(intentCh) : intentCh[k] \in Intents
    BY DEF TypeOK, Acked
  <2>9. \A j \in Intents : rank'[j] = IF j = i THEN rank'[i] ELSE rank[j]
    BY <2>6, <2>8
  <2>10. \A k \in 1..Len(intentCh') : intentCh'[k] \notin unsent'
                                      /\ rank'[intentCh'[k]] = 0
    BY <2>1, <2>3, <2>5, <2>8, <2>9 DEF InOnePlace
  <2>11. \A k, l \in 1..Len(intentCh') : intentCh'[k] = intentCh'[l] => k = l
    BY <2>3 DEF InOnePlace
  <2>12. \A j \in pending' \cup batch' \cup InFlight' \cup Acked' : rank'[j] > 0
    BY <2>1, <2>2, <2>3, <2>6, <2>8, <2>9 DEF InOnePlace
  <2>13. \A j \in unsent' : rank'[j] = 0
    BY <2>1, <2>4, <2>8, <2>9 DEF InOnePlace
  <2> QED
    BY <2>1, <2>2, <2>7, <2>10, <2>11, <2>12, <2>13 DEF InOnePlace
<1>4. ASSUME OthersStay, Acked' = Acked,
             pending' \cup batch' \cup InFlight' \subseteq pending \cup batch \cup InFlight,
             pending' \cap (batch' \cup InFlight') = {}, batch' \cap InFlight' = {}
      PROVE  InOnePlace'
  BY <1>4 DEF InOnePlace, OthersStay
<1>5. ASSUME NEW n \in NetLiqs, ProcessIntent(n) PROVE InOnePlace'
  <2>1. orders' = orders => Acked' = Acked
    BY DEF Acked
  <2>2. OthersStay /\ (Refused \/ Kept \/ Passed)
    BY <1>5, ProcessIntentOutcomes
  <2>3. CASE Refused
    BY <1>4, <2>1, <2>2, <2>3 DEF Refused, InOnePlace
  <2>4. CASE Kept
    BY <1>4, <2>1, <2>2, <2>4 DEF Kept, InOnePlace
  <2>5. CASE Passed
    BY <1>4, <2>1, <2>2, <2>5 DEF Passed, InOnePlace
  <2> QED
    BY <2>2, <2>3, <2>4, <2>5
<1>6. ASSUME NEW acked \in BOOLEAN, SubmitToBroker(acked) PROVE InOnePlace'
  <2>1. OthersStay /\ Answered(acked)
    BY <1>6, SubmitOutcome
  <2>2. Acked' \subseteq Acked \cup {current} /\ Acked \subseteq Acked'
    BY <2>1 DEF Answered, Acked, TypeOK
  <2>3. batch' \cup InFlight' \subseteq batch
    BY <2>1 DEF Answered
  <2> QED
    BY <2>1, <2>2, <2>3 DEF Answered, OthersStay, InOnePlace
<1>7. ASSUME NEW S, NEW c, OthersStay, Released(S) \/ Dropped(S, c) PROVE InOnePlace'
  <2>1. Acked' = Acked
    BY <1>7 DEF Released, Dropped, Acked
  <2>2. CASE Released(S)
    BY <1>4, <1>7, <2>1, <2>2 DEF Released
  <2>3. CASE Dropped(S, c)
    BY <1>4, <1>7, <2>1, <2>3 DEF Dropped, FromSelect
  <2> QED
    BY <1>7, <2>2, <2>3
<1>8. CASE HandleSupervisionCommand
  BY <1>7, <1>8, CommandOutcomes
<1>9. CASE ExpireTimedOutIntents
  BY <1>7, <1>9, ExpiryOutcome
<1>10. ASSUME \/ \E c \in Commands : OperatorSend(c)
              \/ Clock
              \/ UNCHANGED vars
       PROVE  InOnePlace'
  BY <1>2, <1>10 DEF OperatorSend, Clock, coreVars, vars
<1> QED
  BY <1>1, <1>3, <1>5, <1>6, <1>8, <1>9, <1>10 DEF Next

(* The broker has each order at most once.                                 *)
LEMMA NextSubmittedAtMostOnce ==
    /\ TypeOK /\ InOnePlace /\ SubmittedAtMostOnce /\ InOnePlace' /\ [Next]_vars
    => SubmittedAtMostOnce'
<1> SUFFICES ASSUME TypeOK, InOnePlace, SubmittedAtMostOnce, InOnePlace', [Next]_vars
             PROVE  SubmittedAtMostOnce'
  OBVIOUS
<1>1. \A i \in Intents : orders'[i] <= 1
  <2>1. CASE UNCHANGED orders
    BY <2>1 DEF SubmittedAtMostOnce
  <2>2. ASSUME NEW acked \in BOOLEAN, SubmitToBroker(acked)
        PROVE  \A i \in Intents : orders'[i] <= 1
    <3>1. Answered(acked)
      BY <2>2, SubmitOutcome
    <3>2. current \notin Acked
      BY <3>1 DEF Answered, InOnePlace
    <3>3. orders[current] = 0
      BY <3>1, <3>2 DEF Answered, Acked, TypeOK
    <3> QED
      BY <3>1, <3>3 DEF Answered, SubmittedAtMostOnce, TypeOK
  <2>3. UNCHANGED orders \/ \E acked \in BOOLEAN : SubmitToBroker(acked)
    BY DEF Next, vars, ModuleSend, OperatorSend, Clock, ReceiveIntent,
           ProcessIntent, HandleSupervisionCommand, ExpireTimedOutIntents
  <2> QED
    BY <2>1, <2>2, <2>3
<1>2. \A i \in Intents : orders'[i] = 1 => i \in Acked'
  BY DEF Acked
<1>3. (pending \cup batch \cup InFlight)' \cap Acked' = {}
  BY DEF InOnePlace
<1> QED
  BY <1>1, <1>2, <1>3 DEF SubmittedAtMostOnce

-----------------------------------------------------------------------------
(* The counters.                                                           *)

(* Accounted, with what the handlers hold counted in one go.               *)
Balanced ==
    metrics.received = Cardinality(Acked) + metrics.rejected + metrics.timeout
                       + Cardinality(pending) + Cardinality(Held)

(* The places hold finitely many intents.                                  *)
LEMMA PlacesAreFinite ==
    ASSUME TypeOK
    PROVE  /\ \A S \in {Acked, pending, batch, InFlight, Held} :
                 IsFiniteSet(S) /\ Cardinality(S) \in Nat
           /\ Acked \subseteq Intents /\ Held \subseteq Intents
           /\ InFlight \subseteq Intents
<1>1. Acked \subseteq Intents /\ InFlight \subseteq Intents
      /\ pending \subseteq Intents /\ batch \subseteq Intents
  BY ExecCoreAssumption DEF TypeOK, Acked, InFlight
<1>2. Held \subseteq Intents
  BY <1>1 DEF Held
<1>3. \A S \in SUBSET Intents : IsFiniteSet(S) /\ Cardinality(S) \in Nat
  BY PartsAreFinite
<1> QED
  BY <1>1, <1>2, <1>3

(* The balance is the one the property states.                             *)
LEMMA BalancedIsAccounted ==
    ASSUME TypeOK, InOnePlace
    PROVE  Balanced <=> Accounted
<1>1. IsFiniteSet(batch) /\ IsFiniteSet(InFlight)
      /\ Cardinality(batch) \in Nat /\ Cardinality(InFlight) \in Nat
  BY PlacesAreFinite
<1>2. batch \cap InFlight = {}
  BY DEF InOnePlace
<1>3. Cardinality(Held) = Cardinality(batch) + Cardinality(InFlight) - Cardinality(batch \cap InFlight)
  BY <1>1, FS_Union DEF Held
<1>4. Cardinality(batch \cap InFlight) = 0
  BY <1>2, FS_EmptySet
<1>5. Cardinality(Held) = Cardinality(batch) + Cardinality(InFlight)
  BY <1>1, <1>3, <1>4
<1>6. Cardinality(Acked) \in Nat /\ Cardinality(pending) \in Nat
  BY PlacesAreFinite
<1>7. metrics.rejected \in Nat /\ metrics.timeout \in Nat
  BY DEF TypeOK, Counters
<1> QED
  BY <1>1, <1>5, <1>6, <1>7 DEF Balanced, Accounted

(* Taking x out of, or putting it into, a place.                           *)
LEMMA OneMore ==
    ASSUME NEW S, IsFiniteSet(S), NEW x, x \notin S
    PROVE  Cardinality(S \cup {x}) = Cardinality(S) + 1
  BY FS_AddElement

(* A set without one of its elements.                                      *)
LEMMA OneLess ==
    ASSUME NEW S, IsFiniteSet(S), NEW x \in S
    PROVE  Cardinality(S \ {x}) = Cardinality(S) - 1
  BY FS_RemoveElement

(* Moving a part of S from S to elsewhere.                                 *)
LEMMA PartLess ==
    ASSUME NEW S, IsFiniteSet(S), NEW T, T \subseteq S
    PROVE  Cardinality(S \ T) = Cardinality(S) - Cardinality(T)
<1>1. S \cap T = T
  OBVIOUS
<1> QED
  BY <1>1, FS_Difference

(* Every step keeps the counters in balance.                               *)
LEMMA NextBalanced ==
    TypeOK /\ InOnePlace /\ Balanced /\ TypeOK' /\ [Next]_vars => Balanced'
<1> SUFFICES ASSUME TypeOK, InOnePlace, Balanced, TypeOK', [Next]_vars
             PROVE  Balanced'
  OBVIOUS
<1>n. /\ metrics.received \in Nat /\ metrics.rejected \in Nat /\ metrics.timeout \in Nat
      /\ metrics \in [Counters -> Nat]
  BY DEF TypeOK, Counters
<1>f. /\ IsFiniteSet(Acked) /\ IsFiniteSet(pending) /\ IsFiniteSet(Held)
      /\ Cardinality(Acked) \in Nat /\ Cardinality(pending) \in Nat
      /\ Cardinality(Held) \in Nat
  BY PlacesAreFinite
<1>1. ASSUME UNCHANGED <<metrics, orders, pending, batch, at, current>>
      PROVE  Balanced'
  <2>1. Acked' = Acked /\ Held' = Held
    BY <1>1 DEF Acked, Held, InFlight
  <2> QED
    BY <1>1, <2>1 DEF Balanced
<1>2. CASE ReceiveIntent
  <2>1. /\ Held = {} /\ Held' = {current'} /\ Acked' = Acked /\ pending' = pending
        /\ metrics' = Count(metrics, "received", 1)
    BY <1>2 DEF ReceiveIntent, Held, InFlight, Acked, TypeOK
  <2>2. Cardinality(Held) = 0 /\ Cardinality(Held') = 1
    BY <2>1, FS_EmptySet, FS_Singleton
  <2>3. /\ metrics'.received = metrics.received + 1
        /\ metrics'.rejected = metrics.rejected /\ metrics'.timeout = metrics.timeout
    BY <1>2, <1>n DEF ReceiveIntent, Count, Counters
  <2> QED
    BY <1>n, <1>f, <2>1, <2>2, <2>3 DEF Balanced
<1>3. ASSUME NEW n \in NetLiqs, ProcessIntent(n) PROVE Balanced'
  <2>1. /\ current \in Intents
        /\ Refused \/ Kept \/ Passed
    BY <1>3, ProcessIntentOutcomes
  <2>2. orders' = orders /\ Acked' = Acked
    BY <2>1 DEF Refused, Kept, Passed, Acked
  <2>3. CASE Refused
    <3>1. Held = {current} /\ Held' = {} /\ pending' = pending
          /\ metrics' = Count(metrics, "rejected", 1)
      BY <2>3 DEF Refused, Held
    <3>2. Cardinality(Held) = 1 /\ Cardinality(Held') = 0
      BY <3>1, FS_EmptySet, FS_Singleton
    <3>3. /\ metrics'.rejected = metrics.rejected + 1
          /\ metrics'.received = metrics.received /\ metrics'.timeout = metrics.timeout
      BY <1>n, <3>1 DEF Count, Counters
    <3> QED
      BY <1>n, <1>f, <2>2, <3>1, <3>2, <3>3 DEF Balanced
  <2>4. CASE Kept
    <3>1. Held = {current} /\ Held' = {} /\ pending' = pending \cup {current}
          /\ metrics' = metrics /\ current \notin pending
      BY <2>4 DEF Kept, Held, InOnePlace
    <3>2. Cardinality(Held) = 1 /\ Cardinality(Held') = 0
      BY <3>1, FS_EmptySet, FS_Singleton
    <3>3. Cardinality(pending') = Cardinality(pending) + 1
      BY <1>f, <3>1, OneMore
    <3> QED
      BY <1>n, <1>f, <2>2, <3>1, <3>2, <3>3 DEF Balanced
  <2>5. CASE Passed
    <3>1. Held' = Held /\ pending' = pending
          /\ metrics' = Count(metrics, "auto", 1)
      BY <2>5 DEF Passed, Held
    <3>2. /\ metrics'.rejected = metrics.rejected
          /\ metrics'.received = metrics.received /\ metrics'.timeout = metrics.timeout
      BY <1>n, <3>1 DEF Count, Counters
    <3> QED
      BY <2>2, <3>1, <3>2 DEF Balanced
  <2> QED
    BY <2>1, <2>3, <2>4, <2>5
<1>4. ASSUME NEW acked \in BOOLEAN, SubmitToBroker(acked) PROVE Balanced'
  <2>1. Answered(acked) /\ AnsweredMetrics(acked)
    BY <1>4, SubmitOutcome
  <2>2. pending' = pending /\ Held' = Held \ {current} /\ current \in Held
        /\ current \notin Acked /\ current \in Intents
    BY <2>1 DEF Answered, Held, InOnePlace
  <2>3. Cardinality(Held') = Cardinality(Held) - 1
    BY <1>f, <2>2, OneLess
  <2>4. CASE acked
    <3>1. Acked' = Acked \cup {current}
      <4>1. orders \in [Intents -> Nat] /\ current \in Intents
            /\ orders' = [orders EXCEPT ![current] = orders[current] + 1]
        BY <2>1, <2>4 DEF Answered, TypeOK
      <4>2. orders'[current] > 0
        BY <4>1
      <4>3. \A j \in Intents : j # current => orders'[j] = orders[j]
        BY <4>1
      <4> QED
        BY <4>1, <4>2, <4>3 DEF Acked
    <3>2. Cardinality(Acked') = Cardinality(Acked) + 1
      BY <1>f, <2>2, <3>1, OneMore
    <3>3. /\ metrics'.rejected = metrics.rejected
          /\ metrics'.received = metrics.received /\ metrics'.timeout = metrics.timeout
      BY <1>n, <2>1, <2>4 DEF AnsweredMetrics, Count, Counters
    <3> QED
      BY <1>n, <1>f, <2>2, <2>3, <3>2, <3>3 DEF Balanced
  <2>5. CASE ~acked
    <3>1. Acked' = Acked
      BY <2>1, <2>5 DEF Answered, Acked
    <3>2. /\ metrics'.rejected = metrics.rejected + 1
          /\ metrics'.received = metrics.received /\ metrics'.timeout = metrics.timeout
      BY <1>n, <2>1, <2>5 DEF AnsweredMetrics, Count, Counters
    <3> QED
      BY <1>n, <1>f, <2>2, <2>3, <3>1, <3>2 DEF Balanced
  <2> QED
    BY <2>4, <2>5
<1>5. ASSUME NEW S, Released(S) PROVE Balanced'
  <2>1. /\ Held = {} /\ Held' = S /\ pending' = pending \ S /\ S \subseteq pending
        /\ Acked' = Acked /\ metrics' = Count(metrics, "approved", 1)
    BY <1>5 DEF Released, FromSelect, Held, Acked
  <2>2. Cardinality(pending') = Cardinality(pending) - Cardinality(S)
    BY <1>f, <2>1, PartLess
  <2>3. Cardinality(Held) = 0 /\ Cardinality(S) \in Nat
    BY <1>f, <2>1, FS_EmptySet, FS_Subset, FS_CardinalityType
  <2>4. /\ metrics'.rejected = metrics.rejected
        /\ metrics'.received = metrics.received /\ metrics'.timeout = metrics.timeout
    BY <1>n, <2>1 DEF Count, Counters
  <2> QED
    BY <1>n, <1>f, <2>1, <2>2, <2>3, <2>4 DEF Balanced
<1>6. ASSUME NEW S, NEW c \in {"rejected", "timeout"}, Dropped(S, c) PROVE Balanced'
  <2>1. /\ Held = {} /\ Held' = {} /\ pending' = pending \ S /\ S \subseteq pending
        /\ Acked' = Acked /\ metrics' = Count(metrics, c, Cardinality(S))
    BY <1>6 DEF Dropped, FromSelect, Held, Acked
  <2>2. Cardinality(pending') = Cardinality(pending) - Cardinality(S)
    BY <1>f, <2>1, PartLess
  <2>3. Cardinality(S) \in Nat
    BY <1>f, <2>1, FS_Subset, FS_CardinalityType
  <2> DEFINE k == Cardinality(S)
             h == Cardinality(Held)
  <2>4. k \in Nat /\ metrics' = Count(metrics, c, k) /\ Cardinality(Held') = h
        /\ h \in Nat /\ Cardinality(pending') = Cardinality(pending) - k
        /\ metrics.received = Cardinality(Acked) + metrics.rejected + metrics.timeout
                              + Cardinality(pending) + h
    BY <1>f, <2>1, <2>2, <2>3 DEF Balanced
  <2> HIDE DEF k, h
  <2>5. CASE c = "rejected"
    <3>1. metrics' = Count(metrics, "rejected", k)
      BY <2>4, <2>5
    <3>2. /\ metrics'.rejected = metrics.rejected + k
          /\ metrics'.received = metrics.received /\ metrics'.timeout = metrics.timeout
      BY <1>n, <2>4, <3>1 DEF Count, Counters
    <3> QED
      BY <1>n, <1>f, <2>1, <2>4, <3>2 DEF Balanced
  <2>6. CASE c = "timeout"
    <3>1. metrics' = Count(metrics, "timeout", k)
      BY <2>4, <2>6
    <3>2. /\ metrics'.timeout = metrics.timeout + k
          /\ metrics'.received = metrics.received /\ metrics'.rejected = metrics.rejected
      BY <1>n, <2>4, <3>1 DEF Count, Counters
    <3> QED
      BY <1>n, <1>f, <2>1, <2>4, <3>2 DEF Balanced
  <2> QED
    BY <2>5, <2>6
<1>7. CASE HandleSupervisionCommand
  BY <1>5, <1>6, <1>7, CommandOutcomes
<1>8. CASE ExpireTimedOutIntents
  BY <1>6, <1>8, ExpiryOutcome
<1>9. ASSUME \/ \E i \in Intents : ModuleSend(i)
             \/ \E c \in Commands : OperatorSend(c)
             \/ Clock
             \/ UNCHANGED vars
      PROVE  Balanced'
  BY <1>1, <1>9 DEF ModuleSend, OperatorSend, Clock, coreVars, vars
<1> QED
  BY <1>2, <1>3, <1>4, <1>7, <1>8, <1>9 DEF Next

-----------------------------------------------------------------------------
(* The snapshot the rest of the program looks at.                          *)

(* Every handler publishes before it ends. *)
LEMMA NextPublishedIsCurrent ==
    TypeOK /\ PublishedIsCurrent /\ [Next]_vars => PublishedIsCurrent'
<1> SUFFICES ASSUME TypeOK, PublishedIsCurrent, [Next]_vars
             PROVE  PublishedIsCurrent'
  OBVIOUS
<1>1. ASSUME NEW S, NEW m, FinishWith(S, m) PROVE PublishedIsCurrent'
  BY <1>1 DEF FinishWith, PublishState, PublishedIsCurrent
<1>2. ASSUME UNCHANGED <<at, batch, pending, metrics, published>>
      PROVE  PublishedIsCurrent'
  BY <1>2 DEF PublishedIsCurrent
<1>3. CASE ReceiveIntent
  BY <1>3 DEF ReceiveIntent, PublishedIsCurrent
<1>4. ASSUME NEW n \in NetLiqs, ProcessIntent(n) PROVE PublishedIsCurrent'
  <2>1. CASE RejectIntent \/ EnqueuePending
    BY <1>1, <2>1 DEF RejectIntent, EnqueuePending
  <2>2. CASE SubmitNow
    BY <1>4, <2>2 DEF ProcessIntent, SubmitNow, PublishedIsCurrent, TypeOK
  <2> QED
    BY <1>4, <2>1, <2>2 DEF ProcessIntent
<1>5. ASSUME NEW acked \in BOOLEAN, SubmitToBroker(acked) PROVE PublishedIsCurrent'
  <2>1. CASE batch = {}
    BY <1>1, <1>5, <2>1 DEF SubmitToBroker
  <2>2. CASE batch # {}
    BY <1>5, <2>2 DEF SubmitToBroker, PublishedIsCurrent
  <2> QED
    BY <2>1, <2>2
<1>6. CASE HandleSupervisionCommand
  <2>1. ASSUME NEW S, S \subseteq pending, StartBatch(S) PROVE PublishedIsCurrent'
    BY <1>6, <2>1 DEF HandleSupervisionCommand, StartBatch, PublishedIsCurrent
  <2>2. ASSUME NEW S, DropPending(S) PROVE PublishedIsCurrent'
    BY <1>1, <2>2 DEF DropPending
  <2>3. Named(Head(commandCh)) \subseteq pending
    BY DEF Named
  <2> QED
    BY <1>6, <2>1, <2>2, <2>3 DEF HandleSupervisionCommand
<1>7. CASE ExpireTimedOutIntents
  BY <1>1, <1>7 DEF ExpireTimedOutIntents
<1>8. ASSUME \/ \E i \in Intents : ModuleSend(i)
             \/ \E c \in Commands : OperatorSend(c)
             \/ Clock
             \/ UNCHANGED vars
      PROVE  PublishedIsCurrent'
  BY <1>2, <1>8 DEF ModuleSend, OperatorSend, Clock, coreVars, vars
<1> QED
  BY <1>3, <1>4, <1>5, <1>6, <1>7, <1>8 DEF Next

-----------------------------------------------------------------------------
(* The timeout, also while a handler is suspended.                         *)

SweptInTime == ticks = 0 => \A i \in pending : age[i] < Timeout + phase

(* Every step keeps the queue swept.                                       *)
LEMMA NextSwept ==
    TypeOK /\ SweptInTime /\ [Next]_vars => SweptInTime'
<1> SUFFICES ASSUME TypeOK, SweptInTime, [Next]_vars PROVE SweptInTime'
  OBVIOUS
<1> USE ExecCoreAssumption
<1>0. PICK t \in Nat : t = Timeout /\ t > 0
  BY TimesAreTimes
<1>1. ASSUME pending' \subseteq pending, UNCHANGED timer,
             \A i \in pending' : age'[i] = age[i]
      PROVE  SweptInTime'
  BY <1>1 DEF SweptInTime, timer, Timeout
<1>2. CASE Clock
  <2>1. ticks \in Nat /\ phase \in Nat /\ MaxTicks \in Nat \ {0}
    BY DEF TypeOK
  <2> SUFFICES ASSUME ticks' = 0, NEW i \in pending
               PROVE  age'[i] < t + phase'
    BY <1>0, <1>2 DEF Clock, SweptInTime, Timeout
  <2>2. phase' = phase + 1 /\ ticks = 0
    BY <1>2, <2>1 DEF Clock
  <2>3. PICK a \in Nat : a = age[i]
    BY TimesAreTimes DEF TypeOK
  <2>4. a < t + phase
    BY <1>0, <2>2, <2>3 DEF SweptInTime
  <2>5. age'[i] \in {a, a + 1}
    BY <1>2, <2>3 DEF Clock, TypeOK
  <2> QED
    BY <1>0, <2>1, <2>2, <2>3, <2>4, <2>5
<1>3. ASSUME NEW n \in NetLiqs, ProcessIntent(n) PROVE SweptInTime'
  <2>1. CASE EnqueuePending /\ ~RejectIntent
    <3>1. /\ pending' = pending \cup {current} /\ UNCHANGED timer
          /\ age' = [age EXCEPT ![current] = 0] /\ current \in Intents
      BY <1>3, <2>1 DEF ProcessIntent, EnqueuePending, FinishWith, TypeOK
    <3>2. phase \in Nat /\ 0 < t + phase
      BY <1>0 DEF TypeOK
    <3>3. ASSUME ticks' = 0, NEW i \in pending' PROVE age'[i] < t + phase'
      <4>1. CASE i = current
        BY <3>1, <3>2, <4>1 DEF TypeOK, timer
      <4>2. CASE i # current
        BY <1>0, <3>1, <3>3, <4>2 DEF SweptInTime, TypeOK, timer
      <4> QED
        BY <4>1, <4>2
    <3> QED
      BY <1>0, <3>3 DEF SweptInTime, Timeout
  <2>2. CASE RejectIntent \/ SubmitNow
    BY <1>1, <1>3, <2>2 DEF ProcessIntent, RejectIntent, SubmitNow, FinishWith
  <2> QED
    BY <1>3, <2>1, <2>2 DEF ProcessIntent, EnqueuePending
<1>4. CASE ExpireTimedOutIntents
  <2> DEFINE E == {i \in pending : IsExpired(i)}
  <2>1. /\ pending' = pending \ E /\ phase' = phase
        /\ age' = [i \in Intents |-> IF i \in pending' THEN age[i] ELSE 0]
    BY <1>4 DEF ExpireTimedOutIntents, FinishWith, ForgetAges
  <2>2. ASSUME NEW i \in pending \ E PROVE age'[i] < t + phase'
    <3>1. PICK a \in Nat : a = age[i]
      BY TimesAreTimes DEF TypeOK
    <3>2. ~(a >= t) /\ age'[i] = a
      BY <1>0, <2>1, <2>2, <3>1 DEF IsExpired, TypeOK
    <3> QED
      BY <1>0, <2>1, <3>1, <3>2 DEF TypeOK
  <2> QED
    BY <1>0, <2>1, <2>2 DEF SweptInTime, Timeout
<1>5. CASE HandleSupervisionCommand
  <2>1. pending' \subseteq pending
    BY <1>5, CommandOutcomes DEF Released, Dropped
  <2>2. \A i \in pending' : age'[i] = age[i]
    BY <1>5, <2>1 DEF HandleSupervisionCommand, ForgetAges, TypeOK
  <2> QED
    BY <1>1, <1>5, <2>1, <2>2 DEF HandleSupervisionCommand
<1>6. ASSUME NEW acked \in BOOLEAN, SubmitToBroker(acked) PROVE SweptInTime'
  BY <1>1, <1>6 DEF SubmitToBroker, FinishWith
<1>7. ASSUME \/ \E i \in Intents : ModuleSend(i)
             \/ \E c \in Commands : OperatorSend(c)
             \/ ReceiveIntent
             \/ UNCHANGED vars
      PROVE  SweptInTime'
  BY <1>1, <1>7 DEF ModuleSend, OperatorSend, ReceiveIntent, coreVars, vars
<1> QED
  BY <1>2, <1>3, <1>4, <1>5, <1>6, <1>7 DEF Next

-----------------------------------------------------------------------------
(* The theorems about single states.                                       *)

IInv ==
    /\ TypeOK
    /\ InOnePlace
    /\ SubmittedAtMostOnce
    /\ Balanced
    /\ PublishedIsCurrent
    /\ SweptInTime

(* The invariant holds initially.                                          *)
LEMMA InitIInv == Init => IInv
<1> SUFFICES ASSUME Init PROVE IInv
  OBVIOUS
<1>1. Acked = {} /\ Held = {} /\ pending = {}
  BY DEF Init, Acked, Held, InFlight
<1>2. Balanced
  <2>1. Cardinality(Acked) = 0 /\ Cardinality(Held) = 0 /\ Cardinality(pending) = 0
    BY <1>1, FS_EmptySet
  <2>2. metrics.received = 0 /\ metrics.rejected = 0 /\ metrics.timeout = 0
    BY DEF Init, Counters
  <2> QED
    BY <2>1, <2>2 DEF Balanced
<1>3. SubmittedAtMostOnce
  BY DEF Init, SubmittedAtMostOnce
<1>4. PublishedIsCurrent
  BY DEF Init, PublishedIsCurrent
<1>5. SweptInTime
  BY DEF Init, SweptInTime
<1> QED
  BY <1>2, <1>3, <1>4, <1>5, InitTypeOK, InitInOnePlace DEF IInv

(* Every step keeps the invariant.                                         *)
LEMMA NextIInv == IInv /\ [Next]_vars => IInv'
  BY NextTypeOK, NextInOnePlace, NextSubmittedAtMostOnce, NextBalanced,
     NextPublishedIsCurrent, NextSwept DEF IInv

(* The invariant implies the balance of the counters.                      *)
LEMMA IInvAccounts == IInv => Accounted
  BY BalancedIsAccounted DEF IInv

(* The invariant holds throughout.                                         *)
LEMMA Inductive == Spec => []IInv
  BY InitIInv, NextIInv, PTL DEF Spec

(* An intent is in one place at a time, through every handler.             *)
THEOREM OnePlaceOnly == Spec => []InOnePlace
<1>1. IInv => InOnePlace
  BY DEF IInv
<1> QED
  BY <1>1, Inductive, PTL

(* No order is acknowledged twice, and an acknowledged one is not queued.  *)
THEOREM NoDoubleOrder == Spec => []SubmittedAtMostOnce
<1>1. IInv => SubmittedAtMostOnce
  BY DEF IInv
<1> QED
  BY <1>1, Inductive, PTL

(* The operator's counters account for every received intent, exactly.     *)
THEOREM CountersBalance == Spec => []Accounted
  BY Inductive, IInvAccounts, PTL

(* Between handlers the published snapshot is the gate's state.            *)
THEOREM SnapshotIsCurrent == Spec => []PublishedIsCurrent
<1>1. IInv => PublishedIsCurrent
  BY DEF IInv
<1> QED
  BY <1>1, Inductive, PTL

(* When its ticks are handled, the gate's queue holds nothing that was     *)
(* overdue at the last of them (ExecCore::expire_timed_out_intents): no    *)
(* intent waits for a second beyond its time, in whatever phase of the     *)
(* interval it was queued.                                                 *)
THEOREM SweepIsPrompt == Spec => []SweptWithinASecond
<1>1. IInv => SweptWithinASecond
  BY DEF IInv, SweptInTime, SweptWithinASecond
<1> QED
  BY <1>1, Inductive, PTL
-----------------------------------------------------------------------------
(***************************************************************************)
(* The refinement: that ExecCore implements IntentLifecycle, and that only *)
(* the operator releases a supervised intent, from the same invariant.     *)
(***************************************************************************)

(* What the handlers hold, told apart.                                     *)
Releasing == batch \cup (IF at = "submit" THEN InFlight ELSE {})
Checking  == IF at = "account" THEN InFlight ELSE {}

(* The stages are disjoint sets of intents.                                *)
StageMap ==
    \A i \in Intents :
        /\ Stage(i) \in {"acked", "waiting", "released", "checking", "new", "closed"}
        /\ Stage(i) = "acked" <=> i \in Acked
        /\ Stage(i) = "waiting" <=> i \in pending
        /\ Stage(i) = "released" <=> i \in Releasing
        /\ Stage(i) = "checking" <=> i \in Checking
        /\ Stage(i) = "new" <=> rank[i] = 0

(* The stage of an intent is the place it is in.                           *)
LEMMA StageIs == TypeOK /\ InOnePlace => StageMap
<1> SUFFICES ASSUME TypeOK, InOnePlace, NEW i \in Intents
             PROVE  /\ Stage(i) \in {"acked", "waiting", "released", "checking", "new", "closed"}
                    /\ Stage(i) = "acked" <=> i \in Acked
                    /\ Stage(i) = "waiting" <=> i \in pending
                    /\ Stage(i) = "released" <=> i \in Releasing
                    /\ Stage(i) = "checking" <=> i \in Checking
                    /\ Stage(i) = "new" <=> rank[i] = 0
  BY DEF StageMap
<1>1. at = "select" => InFlight = {}
  BY DEF InFlight
<1>2. at \in {"select", "account", "submit"}
  BY DEF TypeOK
<1>3. i \in pending \cup batch \cup InFlight \cup Acked => rank[i] # 0
  BY DEF InOnePlace, TypeOK
<1>4. at # "submit" => batch = {}
  BY DEF TypeOK
<1> QED
  BY <1>1, <1>2, <1>3, <1>4 DEF Stage, InOnePlace, Releasing, Checking

(* And so after the step.                                                  *)
LEMMA StageIsNext == (TypeOK /\ InOnePlace)' => StageMap'
  BY StageIs, PTL

(* To show that S moves to stage s and the others stay where they are.     *)
LEMMA MoveBy ==
    ASSUME NEW S, NEW s,
           \A i \in Intents : Stage(i)' = IF i \in S THEN s ELSE Stage(i)
    PROVE  Lifecycle!Move(S, s)
  BY DEF Lifecycle!Move

(* The intents at a stage of the life cycle.                               *)
LEMMA AtIs ==
    ASSUME NEW s
    PROVE  Lifecycle!At(s) = {i \in Intents : Stage(i) = s}
  BY DEF Lifecycle!At

(* Nothing is checked or released while the task is at its select.         *)
LEMMA NoneInHand ==
    ASSUME TypeOK, InOnePlace, at = "select"
    PROVE  Lifecycle!At("checking") \cup Lifecycle!At("released") = {}
<1>1. Releasing = {} /\ Checking = {}
  BY DEF TypeOK, Releasing, Checking
<1>2. \A i \in Intents : Stage(i) \notin {"checking", "released"}
  BY <1>1, StageIs DEF StageMap
<1> QED
  BY <1>2, AtIs

-----------------------------------------------------------------------------
(* The initial states are those of the life cycle.                         *)
LEMMA InitRefines == Init => Lifecycle!Init
<1> SUFFICES ASSUME Init PROVE Lifecycle!Init
  OBVIOUS
<1>1. TypeOK /\ InOnePlace
  BY InitTypeOK, InitInOnePlace
<1>2. \A i \in Intents : Stage(i) = "new"
  BY <1>1, StageIs DEF Init, StageMap
<1> QED
  BY <1>2 DEF Lifecycle!Init

(* Every step of the gate is a step of the life cycle or a stutter.        *)
LEMMA NextRefines ==
    TypeOK /\ InOnePlace /\ TypeOK' /\ InOnePlace' /\ [Next]_vars
    => [Lifecycle!Next]_([i \in Intents |-> Stage(i)])
<1> SUFFICES ASSUME TypeOK, InOnePlace, TypeOK', InOnePlace', [Next]_vars
             PROVE  [Lifecycle!Next]_([i \in Intents |-> Stage(i)])
  OBVIOUS
<1> USE ExecCoreAssumption
<1>a. StageMap /\ StageMap'
  BY StageIs, StageIsNext
<1>b. ASSUME NEW S, S \subseteq Intents, NEW s,
             \A i \in Intents \ S :
                /\ i \in Acked' <=> i \in Acked
                /\ i \in pending' <=> i \in pending
                /\ i \in Releasing' <=> i \in Releasing
                /\ i \in Checking' <=> i \in Checking
                /\ rank'[i] = 0 <=> rank[i] = 0,
             \A i \in S : Stage(i)' = s
      PROVE  Lifecycle!Move(S, s)
  <2>1. ASSUME NEW i \in Intents, i \notin S PROVE Stage(i)' = Stage(i)
    BY <1>a, <1>b, <2>1 DEF StageMap
  <2>2. \A i \in Intents : Stage(i)' = IF i \in S THEN s ELSE Stage(i)
    BY <1>b, <2>1
  <2> QED
    BY <2>2, MoveBy
<1>1. ASSUME UNCHANGED <<at, current, batch, pending, rank, orders>>
      PROVE  UNCHANGED [i \in Intents |-> Stage(i)]
  BY <1>1 DEF Stage, Acked, InFlight
<1>2. CASE ReceiveIntent
  <2>0. PICK i \in Intents : i = Head(intentCh)
    BY <1>2 DEF ReceiveIntent, TypeOK
  <2>1. i \in Intents /\ rank[i] = 0
    <3>1. i = intentCh[1] /\ 1 \in 1..Len(intentCh)
      BY <1>2, <2>0 DEF ReceiveIntent, TypeOK
    <3> QED
      BY <3>1 DEF InOnePlace
  <2>2. /\ Checking' = {i} /\ Releasing' = {} /\ Checking = {} /\ Releasing = {}
        /\ Acked' = Acked /\ pending' = pending
        /\ \A j \in Intents \ {i} : rank'[j] = rank[j]
    BY <1>2, <2>0 DEF ReceiveIntent, Checking, Releasing, InFlight, Acked, TypeOK
  <2>3. Stage(i)' = "checking"
    BY <1>a, <2>1, <2>2 DEF StageMap
  <2>4. Lifecycle!Move({i}, "checking")
    BY <1>b, <2>1, <2>2, <2>3
  <2>5. i \in Lifecycle!At("new")
    BY <1>a, <2>1, AtIs DEF StageMap
  <2>6. Lifecycle!Check(i)
    BY <1>2, <2>4, <2>5, NoneInHand DEF ReceiveIntent, Lifecycle!Check
  <2> QED
    BY <2>1, <2>6 DEF Lifecycle!Next
<1>3. ASSUME NEW n \in NetLiqs, ProcessIntent(n)
      PROVE  Lifecycle!Next
  <2> DEFINE m == Order[current].module
  <2>1. /\ current \in Intents /\ UNCHANGED rank /\ at = "account"
        /\ \/ Refused /\ at' = "select"
           \/ Kept
           \/ Passed /\ EvaluateSupervision(m, HasAutoTrust(m)) = "AutoExecute"
    BY <1>3, ProcessIntentOutcomes DEF OthersStay, Kept, Passed
  <2>x. PICK x \in Intents : x = current
    BY <2>1
  <2>2. /\ Checking = {current} /\ Releasing = {} /\ Acked' = Acked
        /\ rank[current] # 0 /\ current \notin Acked \cup pending
        /\ Checking' = {}
    <3>1. InFlight = {current} /\ batch = {} /\ orders' = orders /\ at' # "account"
      BY <2>1 DEF Refused, Kept, Passed, TypeOK
    <3> QED
      BY <2>1, <3>1 DEF Checking, Releasing, Acked, InOnePlace, TypeOK
  <2>3. current \in Lifecycle!At("checking")
    BY <1>a, <2>x, <2>1, <2>2, AtIs DEF StageMap
  <2>4. CASE Refused /\ at' = "select"
    <3>1. Releasing' = {} /\ pending' = pending
      BY <2>4 DEF Refused, Releasing, TypeOK
    <3>2. Stage(x)' = "closed"
      BY <1>a, <2>x, <2>1, <2>2, <3>1 DEF StageMap
    <3>3. Lifecycle!Move({x}, "closed")
      BY <1>b, <2>x, <2>1, <2>2, <3>1, <3>2
    <3> QED
      BY <2>x, <2>3, <3>3 DEF Lifecycle!Refuse, Lifecycle!Next
  <2>5. CASE Kept
    <3>1. Releasing' = {} /\ pending' = pending \cup {current}
      BY <2>2, <2>5 DEF Kept, Releasing
    <3>2. Stage(x)' = "waiting"
      BY <1>a, <2>x, <2>1, <3>1 DEF StageMap
    <3>3. Lifecycle!Move({x}, "waiting")
      BY <1>b, <2>x, <2>1, <2>2, <3>1, <3>2
    <3> QED
      BY <2>x, <2>3, <3>3 DEF Lifecycle!Wait, Lifecycle!Next
  <2>6. CASE Passed /\ EvaluateSupervision(m, HasAutoTrust(m)) = "AutoExecute"
    <3>1. Releasing' = {current} /\ pending' = pending
      BY <2>2, <2>6 DEF Passed, Releasing, TypeOK
    <3>2. Stage(x)' = "released"
      BY <1>a, <2>x, <2>1, <3>1 DEF StageMap
    <3>3. Lifecycle!Move({x}, "released")
      BY <1>b, <2>x, <2>1, <2>2, <3>1, <3>2
    <3>4. current \notin Supervised
      BY <2>6 DEF EvaluateSupervision, HasAutoTrust, Supervised
    <3> QED
      BY <2>x, <2>3, <3>3, <3>4 DEF Lifecycle!ReleaseUnasked, Lifecycle!Next
  <2> QED
    BY <2>1, <2>4, <2>5, <2>6
<1>4. ASSUME NEW acked \in BOOLEAN, SubmitToBroker(acked)
      PROVE  Lifecycle!Next
  <2>1. /\ Answered(acked) /\ UNCHANGED rank /\ current \in Intents
        /\ at = "submit" /\ pending' = pending
    BY <1>4, SubmitOutcome DEF OthersStay, Answered
  <2>x. PICK x \in Intents : x = current
    BY <2>1
  <2>2. at' \in {"submit", "select"}
    BY <1>4 DEF SubmitToBroker, FinishWith
  <2>3. Releasing = Held /\ Releasing' = Held' /\ Checking = {} /\ Checking' = {}
    <3>1. at' = "select" => InFlight' = {}
      BY DEF InFlight
    <3> QED
      BY <2>1, <2>2, <3>1 DEF Releasing, Checking, Held
  <2>4. Releasing' = Releasing \ {current} /\ current \in Releasing
    BY <2>1, <2>3 DEF Answered, Held
  <2>5. rank[current] # 0 /\ current \notin pending \cup Acked
    BY <2>1 DEF Answered, InOnePlace
  <2>6. current \in Lifecycle!At("released")
    BY <1>a, <2>x, <2>1, <2>4, AtIs DEF StageMap
  <2>7. CASE acked
    <3>1. Acked' = Acked \cup {current}
      <4>1. orders \in [Intents -> Nat] /\ current \in Intents
            /\ orders' = [orders EXCEPT ![current] = orders[current] + 1]
        BY <2>1, <2>7 DEF Answered, TypeOK
      <4>2. orders'[current] > 0
        BY <4>1
      <4>3. \A j \in Intents : j # current => orders'[j] = orders[j]
        BY <4>1
      <4> QED
        BY <4>1, <4>2, <4>3 DEF Acked
    <3>2. Stage(x)' = "acked"
      BY <1>a, <2>x, <2>1, <3>1 DEF StageMap
    <3>3. Lifecycle!Move({x}, "acked")
      BY <1>b, <2>x, <2>1, <2>3, <2>4, <3>1, <3>2
    <3> QED
      BY <2>x, <2>6, <3>3 DEF Lifecycle!Acknowledge, Lifecycle!Next
  <2>8. CASE ~acked
    <3>1. Acked' = Acked
      BY <2>1, <2>8 DEF Answered, Acked
    <3>2. Stage(x)' = "closed"
      BY <1>a, <2>x, <2>1, <2>3, <2>4, <2>5, <3>1 DEF StageMap
    <3>3. Lifecycle!Move({x}, "closed")
      BY <1>b, <2>x, <2>1, <2>3, <2>4, <3>1, <3>2
    <3> QED
      BY <2>x, <2>6, <3>3 DEF Lifecycle!Refuse, Lifecycle!Next
  <2> QED
    BY <2>7, <2>8
<1>5. ASSUME NEW S, Released(S), OthersStay PROVE Lifecycle!Next
  <2>1. /\ S \subseteq Intents /\ S \subseteq pending /\ at = "select"
        /\ Releasing = {} /\ Releasing' = S /\ Checking = {} /\ Checking' = {}
        /\ Acked' = Acked /\ pending' = pending \ S /\ rank' = rank
    <3>1. /\ S \subseteq pending /\ at = "select" /\ batch = {} /\ InFlight = {}
          /\ pending' = pending \ S /\ Acked' = Acked /\ rank' = rank
      BY <1>5 DEF Released, FromSelect, OthersStay, Acked
    <3>2. at' = "submit" /\ current' \in S /\ InFlight' = {current'} /\ batch' = S \ {current'}
      BY <1>5 DEF Released
    <3>3. Releasing = {} /\ Checking = {}
      BY <3>1 DEF Releasing, Checking
    <3>4. Releasing' = S /\ Checking' = {}
      BY <3>2 DEF Releasing, Checking
    <3> QED
      BY <3>1, <3>3, <3>4 DEF TypeOK
  <2>2. \A i \in S : Stage(i)' = "released" /\ Stage(i) = "waiting"
    BY <1>a, <2>1 DEF StageMap
  <2>3. Lifecycle!Move(S, "released")
    BY <1>b, <2>1, <2>2
  <2>4. S \subseteq Lifecycle!At("waiting")
    BY <2>1, <2>2, AtIs
  <2>5. Lifecycle!ReleaseOnCommand(S)
    BY <2>1, <2>3, <2>4, NoneInHand DEF Lifecycle!ReleaseOnCommand
  <2> QED
    BY <2>4, <2>5 DEF Lifecycle!Next
<1>6. ASSUME NEW S, NEW c, Dropped(S, c), OthersStay PROVE Lifecycle!Next
  <2>1. /\ S \subseteq Intents /\ S \subseteq pending /\ at = "select"
        /\ Releasing = {} /\ Releasing' = {} /\ Checking = {} /\ Checking' = {}
        /\ Acked' = Acked /\ pending' = pending \ S /\ rank' = rank
    <3>1. /\ S \subseteq pending /\ at = "select" /\ batch = {} /\ InFlight = {}
          /\ pending' = pending \ S /\ Acked' = Acked /\ rank' = rank
      BY <1>6 DEF Dropped, FromSelect, OthersStay, Acked
    <3>2. at' = "select" /\ batch' = {} /\ InFlight' = {}
      BY <1>6, <3>1 DEF Dropped, FromSelect, InFlight
    <3>3. Releasing = {} /\ Checking = {}
      BY <3>1 DEF Releasing, Checking
    <3>4. Releasing' = {} /\ Checking' = {}
      BY <3>2 DEF Releasing, Checking
    <3> QED
      BY <3>1, <3>3, <3>4 DEF TypeOK
  <2>2. \A i \in S : /\ i \notin Acked' \cup pending' \cup Releasing' \cup Checking'
                     /\ rank'[i] # 0
    BY <2>1 DEF InOnePlace
  <2>3. \A i \in S : Stage(i)' = "closed" /\ Stage(i) = "waiting"
    BY <1>a, <2>1, <2>2 DEF StageMap
  <2>4. Lifecycle!Move(S, "closed")
    BY <1>b, <2>1, <2>3
  <2>5. S \subseteq Lifecycle!At("waiting")
    BY <2>1, <2>3, AtIs
  <2>6. Lifecycle!Discard(S)
    BY <2>1, <2>4, <2>5, NoneInHand DEF Lifecycle!Discard
  <2> QED
    BY <2>5, <2>6 DEF Lifecycle!Next
<1>7. CASE HandleSupervisionCommand
  BY <1>5, <1>6, <1>7, CommandOutcomes
<1>8. CASE ExpireTimedOutIntents
  BY <1>6, <1>8, ExpiryOutcome
<1>9. ASSUME \/ \E i \in Intents : ModuleSend(i)
             \/ \E c \in Commands : OperatorSend(c)
             \/ Clock
             \/ UNCHANGED vars
      PROVE  UNCHANGED [i \in Intents |-> Stage(i)]
  BY <1>1, <1>9 DEF ModuleSend, OperatorSend, Clock, coreVars, vars
<1> QED
  BY <1>2, <1>3, <1>4, <1>7, <1>8, <1>9 DEF Next

(* The gate implements the life cycle it promises of each intent.          *)
THEOREM GateImplementsLifecycle == Spec => ImplementsLifecycle
<1>1. IInv => TypeOK /\ InOnePlace
  BY DEF IInv
<1> QED
  BY <1>1, InitRefines, NextRefines, Inductive, PTL
     DEF Spec, ImplementsLifecycle, Lifecycle!Spec
-----------------------------------------------------------------------------
(* What enters the hands of a handler to be submitted.                     *)
LEMMA NextReleases ==
    TypeOK /\ InOnePlace /\ TypeOK' /\ InOnePlace' /\ [Next]_vars
    => \A i \in Supervised :
          Stage(i) # "released" /\ Stage(i)' = "released"
            => /\ commandCh # <<>>
               /\ Head(commandCh) \in {Approve(i), ApproveAll}
               /\ commandCh' = Tail(commandCh)
<1> SUFFICES ASSUME TypeOK, InOnePlace, TypeOK', InOnePlace', [Next]_vars,
                    NEW i \in Supervised,
                    Stage(i) # "released", Stage(i)' = "released"
             PROVE  /\ commandCh # <<>>
                    /\ Head(commandCh) \in {Approve(i), ApproveAll}
                    /\ commandCh' = Tail(commandCh)
  OBVIOUS
<1>a. i \in Intents
  BY DEF Supervised
<1>b. i \notin Releasing /\ i \in Releasing'
  BY <1>a, StageIs, StageIsNext DEF StageMap
<1>1. ASSUME UNCHANGED <<at, current, batch>> PROVE FALSE
  BY <1>1, <1>b DEF Releasing, InFlight
<1>2. ASSUME ReceiveIntent PROVE FALSE
  BY <1>2, <1>b DEF ReceiveIntent, Releasing, TypeOK
<1>3. ASSUME NEW n \in NetLiqs, ProcessIntent(n) PROVE FALSE
  <2> DEFINE m == Order[current].module
  <2>1. \/ Refused /\ at' = "select"
        \/ Kept
        \/ Passed /\ EvaluateSupervision(m, HasAutoTrust(m)) = "AutoExecute"
    BY <1>3, ProcessIntentOutcomes
  <2>2. CASE Passed /\ EvaluateSupervision(m, HasAutoTrust(m)) = "AutoExecute"
    <3>1. current \notin Supervised
      BY <2>2 DEF EvaluateSupervision, HasAutoTrust, Supervised
    <3>2. i \in batch \/ i = current
      BY <1>b, <2>2 DEF Passed, Releasing
    <3>3. batch = {}
      BY <2>2 DEF Passed, TypeOK
    <3> QED
      BY <3>1, <3>2, <3>3
  <2> QED
    BY <1>b, <2>1, <2>2 DEF Refused, Kept, Releasing
<1>4. ASSUME NEW acked \in BOOLEAN, SubmitToBroker(acked) PROVE FALSE
  <2>1. Answered(acked)
    BY <1>4, SubmitOutcome
  <2> QED
    BY <1>b, <2>1 DEF Answered, Releasing
<1>5. ASSUME NEW S, NEW c, Dropped(S, c) PROVE FALSE
  BY <1>b, <1>5 DEF Dropped, FromSelect, Releasing
<1>6. ASSUME HandleSupervisionCommand
      PROVE  /\ commandCh # <<>>
             /\ Head(commandCh) \in {Approve(i), ApproveAll}
             /\ commandCh' = Tail(commandCh)
  <2> DEFINE c == Head(commandCh)
  <2>1. c.op \in {"Approve", "ApproveAll"} /\ Released(Named(c))
    BY <1>5, <1>6, CommandOutcomes
  <2>2. i \in Named(c)
    BY <1>b, <2>1 DEF Released, Releasing
  <2>3. c \in Commands /\ commandCh # <<>> /\ commandCh' = Tail(commandCh)
    BY <1>6 DEF HandleSupervisionCommand, TypeOK
  <2>4. c = ApproveAll \/ \E j \in Intents : c = Approve(j)
    BY <2>1, <2>3 DEF Commands, Approve, Reject, ApproveAll, RejectAll
  <2>5. ASSUME NEW j \in Intents, c = Approve(j) PROVE j = i
    BY <2>2, <2>5, ExecCoreAssumption DEF Named, Approve
  <2> QED
    BY <2>3, <2>4, <2>5
<1>7. ASSUME ExpireTimedOutIntents PROVE FALSE
  BY <1>5, <1>7, ExpiryOutcome
<1>8. ASSUME \/ \E j \in Intents : ModuleSend(j)
             \/ \E c \in Commands : OperatorSend(c)
             \/ Clock
             \/ UNCHANGED vars
      PROVE  FALSE
  BY <1>1, <1>8 DEF ModuleSend, OperatorSend, Clock, coreVars, vars
<1> QED
  BY <1>2, <1>3, <1>4, <1>6, <1>7, <1>8 DEF Next

(* A supervised intent is released by nothing but the operator's command   *)
(* naming it.                                                              *)
THEOREM OperatorReleases == Spec => OnlyOperatorReleases
<1>1. IInv => TypeOK /\ InOnePlace
  BY DEF IInv
<1>2. IInv /\ IInv' /\ [Next]_vars
      => [\A i \in Supervised :
            Stage(i) # "released" /\ Stage(i)' = "released"
              => /\ commandCh # <<>>
                 /\ Head(commandCh) \in {Approve(i), ApproveAll}
                 /\ commandCh' = Tail(commandCh)]_vars
  BY NextReleases DEF IInv
<1> QED
  BY <1>2, Inductive, PTL DEF Spec, OnlyOperatorReleases

(***************************************************************************)
(* The desk: the gate, the terminal and the broker.                        *)
(***************************************************************************)

-----------------------------------------------------------------------------
(* The inductive invariant.                                                *)

(* An approval on its way was given with its intent on the banner.         *)
ApprovalsWereAsked ==
    \A k \in 1..Len(commandCh) :
        \A i \in Intents : commandCh[k] = Approve(i) => i \in asked

(* The k-th command takes i out of the queue before any command up to it   *)
(* can release it.                                                         *)
DoomedBy(i, k) ==
    /\ commandCh[k] \in {Reject(i), RejectAll}
    /\ \A l \in 1..k : commandCh[l] \notin {Approve(i), ApproveAll}

(* A refused intent has been received, no handler holds it, no order of it *)
(* was acknowledged, and if it still waits its rejection comes first.      *)
RefusedStayOut ==
    \A i \in refused :
        /\ rank[i] > 0
        /\ i \notin Held \cup Acked
        /\ i \in pending => \E k \in 1..Len(commandCh) : DoomedBy(i, k)

(* What left for the broker was let through by the gate, and not refused.  *)
SentWereReleased ==
    /\ \A i \in sent :
          /\ rank[i] > 0
          /\ i \notin pending \cup batch
          /\ at = "account" => i # current
    /\ sent \cap refused = {}

(* The orders of the map have left, and are acknowledged but for one whose *)
(* answer the gate has still to take.                                      *)
AckedAreKnown ==
    /\ Acked \subseteq orderMap /\ orderMap \subseteq sent
    /\ reply = "ok" => current \in orderMap
    /\ \A i \in orderMap \ Acked : reply = "ok" /\ i = current

RetriesLeft == session = "connecting" => attempt <= MaxRetries

DeskInv ==
    /\ IInv /\ LinkTypeOK /\ RetriesLeft
    /\ ApprovalsWereAsked /\ RefusedStayOut
    /\ SentWereReleased /\ AckedAreKnown

(* The elements of a channel after a message was put at its end.           *)
LEMMA AppendIs ==
    ASSUME NEW S, NEW s \in Seq(S), NEW e \in S
    PROVE  /\ Len(Append(s, e)) = Len(s) + 1
           /\ \A k \in 1..Len(s) : Append(s, e)[k] = s[k]
           /\ \A k \in 1..Len(Append(s, e)) :
                 \/ k \in 1..Len(s) /\ Append(s, e)[k] = s[k]
                 \/ k = Len(s) + 1 /\ Append(s, e)[k] = e
  OBVIOUS

-----------------------------------------------------------------------------
(* Every step of the desk is a step of the gate or leaves it alone.        *)

(* A key press sends one of the operator's commands or nothing.            *)
Sends(c) ==
    /\ c \in Commands
    /\ commandCh' = IF Room THEN Append(commandCh, c) ELSE commandCh

(* What the four approval keys do to channel and history.                  *)
LEMMA KeyIsCommand ==
    ASSUME TypeOK, ConsoleTypeOK,
           KeyApprove \/ KeyReject \/ KeyApproveAll \/ KeyRejectAll
    PROVE  /\ UNCHANGED <<unsent, intentCh, timer, orders, tier, coreVars, screen>>
           /\ screen # {} /\ Selected \in screen
           /\ \/ /\ Sends(Approve(Selected))
                 /\ asked' = asked \cup {Selected} /\ refused' = refused
              \/ Sends(ApproveAll) /\ asked' = asked /\ refused' = refused
              \/ /\ asked' = asked
                 /\ \/ Sends(Reject(Selected)) /\ refused' = refused \cup InTime({Selected})
                    \/ Sends(RejectAll) /\ refused' = refused \cup InTime(screen)
<1>1. screen # {} /\ screen \subseteq Intents
  BY DEF KeyApprove, KeyReject, KeyApproveAll, KeyRejectAll, ConsoleTypeOK
<1>2. Selected \in screen
  BY <1>1, OldestIsMember DEF Selected, TypeOK
<1>3. Banner = {Selected}
  BY <1>1 DEF Banner
<1>4. /\ Approve(Selected) \in Commands /\ Reject(Selected) \in Commands
      /\ ApproveAll \in Commands /\ RejectAll \in Commands
  BY <1>1, <1>2 DEF Commands
<1>5. UNCHANGED <<unsent, intentCh, timer, orders, tier, coreVars, screen>>
  BY DEF KeyApprove, KeyReject, KeyApproveAll, KeyRejectAll, Keyboard
<1> QED
  BY <1>1, <1>2, <1>3, <1>4, <1>5
     DEF KeyApprove, KeyReject, KeyApproveAll, KeyRejectAll, TrySend, Sends

(* A submission on its way to the broker and back leaves the gate alone.   *)
Underway ==
    \/ SendOrder
    \/ \E ok \in BOOLEAN : Return(ok)
    \/ \E i \in Intents : BrokerTakes(i)

(* The gate takes the answer that the submitting thread returned.          *)
LEMMA AnswerIsGateStep ==
    ASSUME SubmitOrder
    PROVE  \E acked \in BOOLEAN :
              /\ acked <=> reply = "ok"
              /\ SubmitToBroker(acked) /\ UNCHANGED consoleVars
<1>1. (reply = "ok") \in BOOLEAN
  OBVIOUS
<1> QED
  BY <1>1 DEF SubmitOrder, GateSubmits

(* Every step of the desk is a step of the gate or leaves it alone.        *)
LEMMA DeskStepIsGateStep ==
    ASSUME TypeOK, ConsoleTypeOK, [LinkNext]_deskVars
    PROVE  [Next]_vars
<1>1. ASSUME NEW c, Sends(c),
             UNCHANGED <<unsent, intentCh, timer, orders, tier, coreVars>>
      PROVE  [Next]_vars
  <2>1. CASE Room
    <3>1. OperatorSend(c) /\ c \in Commands
      BY <1>1, <2>1 DEF Sends, Room, OperatorSend
    <3> QED
      BY <3>1 DEF Next
  <2>2. CASE ~Room
    BY <1>1, <2>2 DEF Sends, vars, coreVars
  <2> QED
    BY <2>1, <2>2
<1>2. ASSUME KeyApprove \/ KeyReject \/ KeyApproveAll \/ KeyRejectAll
      PROVE  [Next]_vars
  BY <1>1, <1>2, KeyIsCommand
<1>3. ASSUME StateChanged \/ Connecting \/ Restart \/ Underway \/ UNCHANGED deskVars
      PROVE  UNCHANGED vars
  BY <1>3 DEF StateChanged, Connecting, Restart, Underway, SendOrder, Return,
              BrokerTakes, deskVars, allVars
<1>4. ASSUME Gate PROVE [Next]_vars
  BY <1>4 DEF Gate, Next
<1>5. CASE SubmitOrder
  BY <1>5, AnswerIsGateStep DEF Next
<1> QED
  BY <1>2, <1>3, <1>4, <1>5
     DEF Underway, LinkNext, ConnectFails, AccountsFail, Connect, Running, Terminal

-----------------------------------------------------------------------------
(* What a step of the gate can do to an intent that was received and that  *)
(* no handler holds.                                                       *)

(* The command at the head of the channel is taken, and it is none of S.   *)
TakesOtherThan(S) ==
    /\ commandCh # <<>> /\ Head(commandCh) \notin S
    /\ commandCh' = Tail(commandCh)

(* It is released only by a command that names it, it waits only if it did *)
(* and neither was released nor rejected, and the broker acknowledges      *)
(* nothing of it.                                                          *)
LEMMA OutStaysOut ==
    ASSUME TypeOK, InOnePlace, [Next]_vars,
           NEW i \in Intents, rank[i] > 0, i \notin Held \cup Acked
    PROVE  /\ rank'[i] > 0
           /\ i \notin Acked'
           /\ i \in pending' => i \in pending
           /\ i \in Held' => /\ i \in pending /\ commandCh # <<>>
                            /\ Head(commandCh) \in {Approve(i), ApproveAll}
           /\ i \in pending' =>
                 \/ commandCh' = commandCh
                 \/ \E c \in Commands : commandCh' = Append(commandCh, c)
                 \/ TakesOtherThan({Approve(i), ApproveAll, Reject(i), RejectAll})
<1> USE ExecCoreAssumption
<1> DEFINE Same == /\ rank'[i] > 0 /\ i \notin Acked' /\ i \notin Held'
                   /\ i \in pending' => i \in pending
<1>1. ASSUME NEW j \in Intents, ModuleSend(j) PROVE Same /\ commandCh' = commandCh
  BY <1>1 DEF ModuleSend, coreVars, Held, InFlight, Acked
<1>2. ASSUME NEW c \in Commands, OperatorSend(c)
      PROVE  Same /\ commandCh' = Append(commandCh, c)
  BY <1>2 DEF OperatorSend, coreVars, Held, InFlight, Acked
<1>3. ASSUME Clock PROVE Same /\ commandCh' = commandCh
  BY <1>3 DEF Clock, Held, InFlight, Acked
<1>4. ASSUME ReceiveIntent PROVE Same /\ commandCh' = commandCh
  <2>1. 1 \in 1..Len(intentCh) /\ Head(intentCh) = intentCh[1]
    BY <1>4 DEF ReceiveIntent, TypeOK
  <2>2. rank[Head(intentCh)] = 0
    <3>1. \A k \in 1..Len(intentCh) : rank[intentCh[k]] = 0
      BY DEF InOnePlace
    <3> QED
      BY <2>1, <3>1
  <2>3. i # Head(intentCh)
    BY <2>2
  <2>4. rank'[i] = rank[i]
    <3> HIDE DEF Same
    <3>1. rank' = [rank EXCEPT ![Head(intentCh)] = metrics.received + 1]
      BY <1>4 DEF ReceiveIntent
    <3>2. rank \in [Intents -> Nat]
      BY DEF TypeOK
    <3> QED
      BY <2>3, <3>1, <3>2
  <2> QED
    BY <1>4, <2>3, <2>4 DEF ReceiveIntent, Held, InFlight, Acked
<1>5. ASSUME NEW n \in NetLiqs, ProcessIntent(n) PROVE Same /\ commandCh' = commandCh
  <2>1. commandCh' = commandCh
    BY <1>5 DEF ProcessIntent
  <2>2. OthersStay /\ (Refused \/ Kept \/ Passed)
    BY <1>5, ProcessIntentOutcomes
  <2> QED
    BY <2>1, <2>2 DEF OthersStay, Refused, Kept, Passed, Held, Acked
<1>6. ASSUME NEW acked \in BOOLEAN, SubmitToBroker(acked) PROVE Same /\ commandCh' = commandCh
  <2>1. commandCh' = commandCh
    BY <1>6 DEF SubmitToBroker
  <2>2. OthersStay /\ Answered(acked)
    BY <1>6, SubmitOutcome
  <2>3. i # current
    BY <2>2 DEF Answered, Held
  <2>4. orders'[i] = orders[i]
    BY <2>2, <2>3 DEF Answered, TypeOK
  <2> QED
    BY <2>1, <2>2, <2>4 DEF OthersStay, Answered, Held, Acked
<1>7. ASSUME NEW S, NEW c, OthersStay, Dropped(S, c) PROVE Same /\ pending' = pending \ S
  BY <1>7 DEF OthersStay, Dropped, FromSelect, Held, Acked
<1>8. CASE HandleSupervisionCommand
  <2> DEFINE c == Head(commandCh)
  <2>1. commandCh # <<>> /\ c \in Commands /\ commandCh' = Tail(commandCh)
    BY <1>8 DEF HandleSupervisionCommand, TypeOK
  <2>2. /\ OthersStay
        /\ \/ c.op \in {"Approve", "ApproveAll"} /\ Released(Named(c))
           \/ Dropped(Named(c), "rejected")
    BY <1>8, CommandOutcomes
  <2>3. c \in {Approve(i), ApproveAll, Reject(i), RejectAll} /\ i \in pending => i \in Named(c)
    BY DEF Named, Approve, ApproveAll, Reject, RejectAll
  <2>4. i \in Named(c) => c \in {Approve(i), ApproveAll, Reject(i), RejectAll}
    BY <2>1 DEF Commands, Named, Approve, ApproveAll, Reject, RejectAll
  <2>5. CASE c.op \in {"Approve", "ApproveAll"} /\ Released(Named(c))
    <3>1. c \notin {Reject(i), RejectAll}
      BY <2>5 DEF Reject, RejectAll
    <3>2. Held' = Named(c) /\ Named(c) \subseteq pending
          /\ pending' = pending \ Named(c) /\ orders' = orders
      BY <2>5 DEF Released, Held
    <3>3. i \notin Acked'
      BY <3>2 DEF Acked
    <3> QED
      BY <2>1, <2>2, <2>3, <2>4, <3>1, <3>2, <3>3 DEF OthersStay, TakesOtherThan
  <2>6. CASE Dropped(Named(c), "rejected")
    BY <1>7, <2>1, <2>2, <2>3, <2>6 DEF TakesOtherThan
  <2> QED
    BY <2>2, <2>5, <2>6
<1>9. CASE ExpireTimedOutIntents
  <2>1. commandCh' = commandCh
    BY <1>9 DEF ExpireTimedOutIntents
  <2> QED
    BY <1>7, <1>9, <2>1, ExpiryOutcome
<1>10. CASE UNCHANGED vars
  BY <1>10 DEF vars, Held, InFlight, Acked
<1> QED
  BY <1>1, <1>2, <1>3, <1>4, <1>5, <1>6, <1>8, <1>9, <1>10 DEF Next

(* What was received and is past the queue and the check stays past them.  *)
Past(i) ==
    /\ rank[i] > 0
    /\ i \notin pending \cup batch
    /\ at = "account" => i # current

(* An intent that is past the queue stays past it.                         *)
LEMMA PastStaysPast ==
    ASSUME TypeOK, InOnePlace, [Next]_vars, NEW i \in Intents, Past(i)
    PROVE  Past(i)'
<1> USE DEF Past
<1>1. ASSUME UNCHANGED <<at, current, batch, pending, rank>> PROVE Past(i)'
  BY <1>1
<1>2. CASE ReceiveIntent
  <2>1. 1 \in 1..Len(intentCh) /\ Head(intentCh) = intentCh[1]
    BY <1>2 DEF ReceiveIntent, TypeOK
  <2>2. \A k \in 1..Len(intentCh) : rank[intentCh[k]] = 0
    BY DEF InOnePlace
  <2>3. i # Head(intentCh)
    BY <2>1, <2>2
  <2>4. rank' = [rank EXCEPT ![Head(intentCh)] = metrics.received + 1]
    BY <1>2 DEF ReceiveIntent
  <2>5. rank'[i] = rank[i]
    BY <2>3, <2>4 DEF TypeOK
  <2> QED
    BY <1>2, <2>3, <2>5 DEF ReceiveIntent
<1>3. ASSUME NEW n \in NetLiqs, ProcessIntent(n) PROVE Past(i)'
  <2>1. /\ OthersStay /\ at = "account"
        /\ \/ Refused /\ at' = "select"
           \/ Kept
           \/ Passed
    BY <1>3, ProcessIntentOutcomes DEF Kept, Passed
  <2> QED
    BY <2>1 DEF OthersStay, Refused, Kept, Passed
<1>4. ASSUME NEW acked \in BOOLEAN, SubmitToBroker(acked) PROVE Past(i)'
  <2>1. OthersStay /\ Answered(acked)
    BY <1>4, SubmitOutcome
  <2>2. at' # "account"
    BY <1>4 DEF SubmitToBroker, FinishWith
  <2> QED
    BY <2>1, <2>2 DEF OthersStay, Answered
<1>5. CASE HandleSupervisionCommand
  <2>1. OthersStay /\ at' # "account" /\ pending' \subseteq pending
        /\ batch' \subseteq pending
    BY <1>5, CommandOutcomes DEF Released, Dropped, FromSelect
  <2> QED
    BY <2>1 DEF OthersStay
<1>6. CASE ExpireTimedOutIntents
  BY <1>6, ExpiryOutcome DEF OthersStay, Dropped, FromSelect
<1>7. CASE \/ \E j \in Intents : ModuleSend(j)
           \/ \E c \in Commands : OperatorSend(c)
           \/ Clock
           \/ UNCHANGED vars
  BY <1>1, <1>7 DEF ModuleSend, OperatorSend, Clock, coreVars, vars
<1> QED
  BY <1>2, <1>3, <1>4, <1>5, <1>6, <1>7 DEF Next

-----------------------------------------------------------------------------
(* The invariant, conjunct by conjunct.                                    *)

(* The desk starts with nothing queued and nothing on the banner. *)
LEMMA InitDeskInv == LinkInit => DeskInv
<1> SUFFICES ASSUME LinkInit PROVE DeskInv
  OBVIOUS
<1>1. IInv /\ TypeOK
  BY InitIInv DEF LinkInit, ConsoleInit, IInv
<1>2. LinkTypeOK /\ RetriesLeft
  BY <1>1, BrokerLinkAssumption DEF LinkInit, ConsoleInit, LinkTypeOK, ConsoleTypeOK, RetriesLeft
<1>3. Len(commandCh) = 0 /\ Acked = {}
  BY DEF LinkInit, ConsoleInit, Init, Acked
<1>4. ApprovalsWereAsked /\ RefusedStayOut /\ SentWereReleased /\ AckedAreKnown
  BY <1>3 DEF LinkInit, ConsoleInit, ApprovalsWereAsked, RefusedStayOut,
              SentWereReleased, AckedAreKnown
<1> QED
  BY <1>1, <1>2, <1>4 DEF DeskInv

(* The kinds of step: a key, a new screen, a handler or the timer, an      *)
(* order underway, its answer taken, and the session on its own.           *)
Pressed ==
    /\ UNCHANGED linkVars
    /\ KeyApprove \/ KeyReject \/ KeyApproveAll \/ KeyRejectAll

SessionOnly ==
    /\ UNCHANGED <<allVars, orderVars>>
    /\ ConnectFails \/ AccountsFail \/ Connect \/ Restart \/ UNCHANGED linkVars

(* The steps of the desk, by what they touch.                              *)
LEMMA DeskCases ==
    ASSUME [LinkNext]_deskVars
    PROVE  \/ Pressed
           \/ (StateChanged \/ Gate) /\ UNCHANGED linkVars
           \/ Underway
           \/ SubmitOrder
           \/ SessionOnly
<1>1. CASE ConnectFails \/ AccountsFail \/ Connect \/ Restart
  BY <1>1 DEF SessionOnly, ConnectFails, AccountsFail, Connect, Connecting, Restart
<1>2. CASE UNCHANGED deskVars
  BY <1>2 DEF SessionOnly, deskVars, linkVars
<1>3. CASE Running
  BY <1>3 DEF Running, Terminal, Pressed, Underway
<1> QED
  BY <1>1, <1>2, <1>3 DEF LinkNext

(* The queue and the hands of the gate change in its own steps only.       *)
LEMMA OutsideTheGate ==
    ASSUME TypeOK, ConsoleTypeOK,
           Pressed \/ StateChanged \/ Underway \/ SessionOnly
    PROVE  UNCHANGED <<unsent, intentCh, timer, orders, tier, coreVars>>
<1>1. CASE Pressed
  BY <1>1, KeyIsCommand DEF Pressed
<1> QED
  BY <1>1 DEF StateChanged, Underway, SendOrder, Return, BrokerTakes, SessionOnly,
              allVars, vars, coreVars

(* Every step keeps the types.                                             *)
LEMMA NextLinkTypeOK ==
    ASSUME DeskInv, TypeOK', [LinkNext]_deskVars
    PROVE  LinkTypeOK' /\ RetriesLeft'
<1> USE BrokerLinkAssumption
<1>0. TypeOK /\ ConsoleTypeOK /\ LinkTypeOK /\ RetriesLeft
  BY DEF DeskInv, LinkTypeOK, ConsoleTypeOK
<1>1. ConsoleTypeOK'
  <2>1. CASE Pressed
    <3>1. screen' = screen /\ Selected \in screen
          /\ asked' \in {asked, asked \cup {Selected}}
          /\ refused' \in {refused, refused \cup InTime({Selected}), refused \cup InTime(screen)}
      BY <1>0, <2>1, KeyIsCommand DEF Pressed
    <3>2. \A S : InTime(S) \subseteq Intents
      BY <1>0 DEF InTime, TypeOK
    <3> QED
      BY <1>0, <3>1, <3>2 DEF ConsoleTypeOK
  <2>2. CASE StateChanged
    BY <1>0, <2>2 DEF StateChanged, ConsoleTypeOK, TypeOK
  <2>3. CASE Gate \/ Underway \/ SessionOnly \/ SubmitOrder
    BY <1>0, <2>3 DEF Gate, Underway, SendOrder, Return, BrokerTakes, SessionOnly,
                      SubmitOrder, GateSubmits, allVars, consoleVars, ConsoleTypeOK
  <2> QED
    BY <2>1, <2>2, <2>3, DeskCases
<1>2. ASSUME UNCHANGED linkVars, at = "submit" => at' = "submit"
      PROVE  LinkTypeOK' /\ RetriesLeft'
  BY <1>0, <1>1, <1>2 DEF LinkTypeOK, RetriesLeft, linkVars, orderVars
<1>3. CASE Pressed \/ (StateChanged /\ UNCHANGED linkVars)
  <2>1. at' = at
    BY <1>0, <1>3, OutsideTheGate DEF coreVars
  <2> QED
    BY <1>2, <1>3, <2>1 DEF Pressed
<1>4. CASE Gate /\ UNCHANGED linkVars
  <2>1. at = "submit" => at' = "submit"
    BY <1>4 DEF Gate, ModuleSend, Clock, ReceiveIntent, ProcessIntent,
                HandleSupervisionCommand, ExpireTimedOutIntents, coreVars
  <2> QED
    BY <1>2, <1>4, <2>1
<1>5. CASE Underway
  <2>0. at' = at /\ UNCHANGED <<session, attempt>>
    BY <1>5 DEF Underway, SendOrder, Return, BrokerTakes, allVars, vars
  <2>1. CASE SendOrder
    <3>1. current \in Intents
      BY <1>0, <2>1, ExecCoreAssumption DEF SendOrder, Submitting, TypeOK
    <3> QED
      BY <1>0, <1>1, <2>0, <2>1, <3>1 DEF SendOrder, LinkTypeOK, RetriesLeft
  <2>2. ASSUME NEW ok \in BOOLEAN, Return(ok) PROVE LinkTypeOK' /\ RetriesLeft'
    <3>1. /\ current \in Intents /\ at = "submit" /\ UNCHANGED <<sent, atBroker>>
          /\ reply' \in {"ok", "error"} /\ orderMap' \subseteq orderMap \cup {current}
      BY <1>0, <2>2, ExecCoreAssumption DEF Return, Submitting, Remember, TypeOK
    <3> QED
      BY <1>0, <1>1, <2>0, <3>1 DEF LinkTypeOK, RetriesLeft
  <2>3. ASSUME NEW i \in Intents, BrokerTakes(i) PROVE LinkTypeOK' /\ RetriesLeft'
    BY <1>0, <1>1, <2>0, <2>3 DEF BrokerTakes, LinkTypeOK, RetriesLeft
  <2> QED
    BY <1>5, <2>1, <2>2, <2>3 DEF Underway
<1>6. CASE SubmitOrder
  BY <1>0, <1>1, <1>6 DEF SubmitOrder, LinkTypeOK, RetriesLeft
<1>7. CASE SessionOnly
  BY <1>0, <1>1, <1>7
     DEF SessionOnly, ConnectFails, AccountsFail, Connect, Connecting, Restart,
         LinkTypeOK, RetriesLeft, linkVars, orderVars, allVars, vars
<1>8. \/ Pressed
      \/ StateChanged /\ UNCHANGED linkVars
      \/ Gate /\ UNCHANGED linkVars
      \/ Underway \/ SubmitOrder \/ SessionOnly
  BY DeskCases
<1> QED
  BY <1>3, <1>4, <1>5, <1>6, <1>7, <1>8

(* Every step keeps approvals backed by the banner.                        *)
LEMMA NextApprovalsWereAsked ==
    ASSUME DeskInv, [LinkNext]_deskVars
    PROVE  ApprovalsWereAsked'
<1>0. TypeOK /\ ConsoleTypeOK /\ ApprovalsWereAsked
  BY DEF DeskInv, LinkTypeOK, ConsoleTypeOK
<1>1. commandCh \in Seq(Commands)
  BY <1>0 DEF TypeOK
<1>2. ASSUME commandCh' = commandCh, asked \subseteq asked' PROVE ApprovalsWereAsked'
  BY <1>0, <1>2 DEF ApprovalsWereAsked
<1>3. ASSUME commandCh # <<>>, commandCh' = Tail(commandCh), asked' = asked
      PROVE  ApprovalsWereAsked'
  <2>1. \A k \in 1..Len(commandCh') : k+1 \in 1..Len(commandCh) /\ commandCh'[k] = commandCh[k+1]
    BY <1>1, <1>3
  <2> QED
    BY <1>0, <1>3, <2>1 DEF ApprovalsWereAsked
<1>4. ASSUME NEW c, Sends(c), asked \subseteq asked',
             \A i \in Intents : c = Approve(i) => i \in asked'
      PROVE  ApprovalsWereAsked'
  <2>1. CASE commandCh' = Append(commandCh, c)
    <3>1. \A k \in 1..Len(commandCh') :
             \/ commandCh'[k] = c
             \/ k \in 1..Len(commandCh) /\ commandCh'[k] = commandCh[k]
      BY <1>1, <1>4, <2>1, AppendIs DEF Sends
    <3> QED
      BY <1>0, <1>4, <3>1 DEF ApprovalsWereAsked
  <2> QED
    BY <1>2, <1>4, <2>1 DEF Sends
<1>5. CASE Pressed
  <2>1. \A i, j : Approve(i) = Approve(j) => i = j
    BY DEF Approve
  <2>2. \A i, j : Approve(i) # Reject(j) /\ Approve(i) # ApproveAll /\ Approve(i) # RejectAll
    BY DEF Approve, Reject, ApproveAll, RejectAll
  <2> QED
    BY <1>0, <1>4, <1>5, <2>1, <2>2, KeyIsCommand DEF Pressed
<1>6. CASE StateChanged \/ Underway \/ SessionOnly
  BY <1>2, <1>6 DEF StateChanged, Underway, SendOrder, Return, BrokerTakes, SessionOnly,
                    allVars, consoleVars, vars
<1>7. CASE Gate
  BY <1>2, <1>3, <1>7
     DEF Gate, consoleVars, ModuleSend, Clock, ReceiveIntent, ProcessIntent,
         HandleSupervisionCommand, ExpireTimedOutIntents, coreVars
<1>8. CASE SubmitOrder
  BY <1>2, <1>8 DEF SubmitOrder, GateSubmits, SubmitToBroker, consoleVars
<1> QED
  BY <1>5, <1>6, <1>7, <1>8, DeskCases

(* A refusal that came in time stays ahead of what could release it.       *)
LEMMA NextRefusedStayOut ==
    ASSUME DeskInv, [LinkNext]_deskVars
    PROVE  RefusedStayOut'
<1>0. /\ TypeOK /\ ConsoleTypeOK /\ InOnePlace /\ [Next]_vars
      /\ ApprovalsWereAsked /\ RefusedStayOut
  BY DeskStepIsGateStep DEF DeskInv, LinkTypeOK, ConsoleTypeOK, IInv
<1>a. commandCh \in Seq(Commands)
  BY <1>0 DEF TypeOK
<1>1. ASSUME NEW i \in refused
      PROVE  /\ rank'[i] > 0
             /\ i \notin Held' \cup Acked'
             /\ i \in pending' => \E k \in 1..Len(commandCh') : DoomedBy(i, k)'
  <2>1. /\ i \in Intents /\ rank[i] > 0 /\ i \notin Held \cup Acked
        /\ i \in pending => \E k \in 1..Len(commandCh) : DoomedBy(i, k)
    BY <1>0 DEF RefusedStayOut, ConsoleTypeOK
  <2>2. /\ rank'[i] > 0 /\ i \notin Acked'
        /\ i \in pending' => i \in pending
        /\ i \in Held' => /\ i \in pending /\ commandCh # <<>>
                          /\ Head(commandCh) \in {Approve(i), ApproveAll}
        /\ i \in pending' =>
              \/ commandCh' = commandCh
              \/ \E c \in Commands : commandCh' = Append(commandCh, c)
              \/ TakesOtherThan({Approve(i), ApproveAll, Reject(i), RejectAll})
    BY <1>0, <2>1, OutStaysOut
  <2>3. i \notin Held'
    <3> SUFFICES ASSUME i \in Held' PROVE FALSE
      OBVIOUS
    <3>1. PICK k \in 1..Len(commandCh) : DoomedBy(i, k)
      BY <2>1, <2>2
    <3>2. 1 \in 1..k /\ commandCh[1] = Head(commandCh)
      BY <1>a, <2>2, <3>1
    <3> QED
      BY <2>2, <3>1, <3>2 DEF DoomedBy
  <2>4. ASSUME i \in pending'
        PROVE  \E k \in 1..Len(commandCh') : DoomedBy(i, k)'
    <3>1. PICK k \in 1..Len(commandCh) : DoomedBy(i, k)
      BY <2>1, <2>2, <2>4
    <3>2. CASE commandCh' = commandCh
      BY <3>1, <3>2 DEF DoomedBy
    <3>3. ASSUME NEW c \in Commands, commandCh' = Append(commandCh, c)
          PROVE  DoomedBy(i, k)' /\ k \in 1..Len(commandCh')
      <4>1. /\ \A l \in 1..Len(commandCh) : commandCh'[l] = commandCh[l]
            /\ 1..k \subseteq 1..Len(commandCh)
            /\ k \in 1..Len(commandCh')
        BY <1>a, <3>3, AppendIs
      <4> QED
        BY <3>1, <4>1 DEF DoomedBy
    <3>4. CASE TakesOtherThan({Approve(i), ApproveAll, Reject(i), RejectAll})
      <4>1. commandCh # <<>> /\ commandCh' = Tail(commandCh)
            /\ commandCh[1] \notin {Reject(i), RejectAll}
        BY <1>a, <3>4 DEF TakesOtherThan
      <4>2. k # 1
        BY <3>1, <4>1 DEF DoomedBy
      <4>3. k - 1 \in 1..Len(commandCh') /\ commandCh'[k - 1] = commandCh[k]
        BY <1>a, <3>1, <4>1, <4>2
      <4>4. \A l \in 1..k - 1 : commandCh'[l] = commandCh[l + 1] /\ l + 1 \in 1..k
        BY <1>a, <3>1, <4>1, <4>2
      <4>5. DoomedBy(i, k - 1)'
        BY <3>1, <4>3, <4>4 DEF DoomedBy
      <4> QED
        BY <4>3, <4>5
    <3> QED
      BY <2>2, <2>4, <3>2, <3>3, <3>4
  <2> QED
    BY <2>2, <2>3, <2>4
<1>2. ASSUME NEW i \in refused' \ refused
      PROVE  /\ rank'[i] > 0
             /\ i \notin Held' \cup Acked'
             /\ \E k \in 1..Len(commandCh') : DoomedBy(i, k)'
  <2>1. Pressed
    BY <1>2, DeskCases
       DEF StateChanged, Gate, Underway, SendOrder, Return, BrokerTakes, SubmitOrder,
           GateSubmits, SessionOnly, allVars, consoleVars
  <2>2. PICK c \in Commands :
           /\ Sends(c) /\ c \in {Reject(i), RejectAll}
           /\ \E S : i \in InTime(S)
    BY <1>0, <1>2, <2>1, KeyIsCommand DEF Pressed, Sends, InTime
  <2>3. /\ i \in pending /\ i \notin asked /\ Room
        /\ \A k \in DOMAIN commandCh : commandCh[k] # ApproveAll
    BY <2>2 DEF InTime
  <2>4. i \in Intents /\ UNCHANGED <<rank, batch, at, current, orders, pending>>
    BY <1>0, <2>1, <2>3, OutsideTheGate DEF TypeOK, coreVars
  <2>5. rank[i] > 0 /\ i \notin Held \cup Acked
    BY <1>0, <2>3 DEF InOnePlace, Held
  <2>6. rank'[i] > 0 /\ i \notin Held' \cup Acked'
    BY <2>4, <2>5 DEF Held, InFlight, Acked
  <2>n. PICK n \in Nat : n = Len(commandCh) + 1
    BY <1>a
  <2>7. /\ n \in 1..Len(commandCh') /\ commandCh'[n] = c
        /\ \A l \in 1..n : \/ l \in 1..Len(commandCh) /\ commandCh'[l] = commandCh[l]
                           \/ commandCh'[l] = c
    <3>1. commandCh' = Append(commandCh, c)
      BY <2>2, <2>3 DEF Sends
    <3>2. Len(commandCh') = n /\ n >= 1
      BY <1>a, <2>n, <3>1
    <3> QED
      BY <1>a, <2>n, <3>1, <3>2, AppendIs
  <2>8. \A l \in 1..Len(commandCh) : commandCh[l] \notin {Approve(i), ApproveAll}
    <3>1. DOMAIN commandCh = 1..Len(commandCh)
      BY <1>a
    <3> QED
      BY <1>0, <2>3, <2>4, <3>1 DEF ApprovalsWereAsked
  <2>9. c \notin {Approve(i), ApproveAll}
    BY <2>2 DEF Approve, Reject, ApproveAll, RejectAll
  <2>10. DoomedBy(i, n)'
    BY <2>2, <2>7, <2>8, <2>9 DEF DoomedBy
  <2> QED
    BY <2>6, <2>7, <2>10
<1> QED
  BY <1>1, <1>2 DEF RefusedStayOut

(* Only what the gate released ever leaves for the broker.                 *)
LEMMA NextSentWereReleased ==
    ASSUME DeskInv, RefusedStayOut', [LinkNext]_deskVars
    PROVE  SentWereReleased'
<1>0. /\ TypeOK /\ ConsoleTypeOK /\ InOnePlace /\ [Next]_vars
      /\ RefusedStayOut /\ SentWereReleased /\ sent \subseteq Intents
  BY DeskStepIsGateStep DEF DeskInv, LinkTypeOK, ConsoleTypeOK, IInv
<1>1. ASSUME NEW i \in sent PROVE Past(i)'
  BY <1>0, PastStaysPast DEF SentWereReleased, Past
<1>2. CASE sent' = sent
  <2>1. ASSUME NEW i \in sent, i \in refused' \ refused PROVE FALSE
    <3>1. Pressed
      BY <1>2, <2>1, DeskCases
         DEF StateChanged, Gate, Underway, SendOrder, Return, BrokerTakes, SubmitOrder,
             GateSubmits, SessionOnly, allVars, consoleVars
    <3>2. i \in pending
      BY <1>0, <2>1, <3>1, KeyIsCommand DEF Pressed, InTime
    <3> QED
      BY <1>0, <3>2 DEF SentWereReleased
  <2> QED
    BY <1>0, <1>1, <1>2, <2>1 DEF SentWereReleased, Past
<1>3. CASE SendOrder
  <2>1. /\ at = "submit" /\ sent' = sent \cup {current} /\ refused' = refused
        /\ UNCHANGED <<rank, pending, batch, at, current>>
    BY <1>3 DEF SendOrder, Submitting, allVars, vars, consoleVars
  <2>2. current \in InFlight
    BY <2>1 DEF InFlight
  <2>3. rank[current] > 0 /\ current \notin pending \cup batch
    BY <1>0, <2>2 DEF InOnePlace
  <2>4. current \notin refused
    BY <1>0, <2>2 DEF RefusedStayOut, Held
  <2> QED
    BY <1>0, <2>1, <2>3, <2>4 DEF SentWereReleased
<1>4. SendOrder \/ sent' = sent
  BY DeskCases DEF Pressed, StateChanged, Gate, SubmitOrder, SessionOnly, Underway,
                   Return, BrokerTakes, linkVars, orderVars
<1> QED
  BY <1>2, <1>3, <1>4

(* Acknowledgement and order map stay one answer apart.                    *)
LEMMA NextAckedAreKnown ==
    ASSUME DeskInv, [LinkNext]_deskVars
    PROVE  AckedAreKnown'
<1>0. /\ TypeOK /\ ConsoleTypeOK /\ AckedAreKnown /\ sent \subseteq Intents
      /\ reply \in {"none", "ok", "error"} /\ reply # "none" => at = "submit"
  BY DEF DeskInv, LinkTypeOK, ConsoleTypeOK
<1>1. ASSUME UNCHANGED <<orders, orderMap, reply>>, sent \subseteq sent',
             reply = "ok" => current' = current
      PROVE  AckedAreKnown'
  BY <1>0, <1>1 DEF AckedAreKnown, Acked
<1>2. CASE SubmitOrder
  <2>1. PICK acked \in BOOLEAN : (acked <=> reply = "ok") /\ SubmitToBroker(acked)
    BY <1>2, AnswerIsGateStep
  <2>2. /\ at = "submit" /\ reply' = "none" /\ UNCHANGED <<sent, orderMap>>
        /\ orders' = IF acked THEN [orders EXCEPT ![current] = @ + 1] ELSE orders
    BY <1>2, <2>1 DEF SubmitOrder, SubmitToBroker
  <2>3. orders \in [Intents -> Nat] /\ current \in Intents
    BY <1>0, <2>2, ExecCoreAssumption DEF TypeOK
  <2>4. CASE acked
    <3>1. orders'[current] > 0 /\ \A i \in Intents \ {current} : orders'[i] = orders[i]
      BY <2>2, <2>3, <2>4
    <3>2. Acked' = Acked \cup {current}
      BY <2>3, <3>1 DEF Acked
    <3> QED
      BY <1>0, <2>1, <2>2, <2>4, <3>2 DEF AckedAreKnown
  <2>5. CASE ~acked
    BY <1>0, <2>1, <2>2, <2>5 DEF AckedAreKnown, Acked
  <2> QED
    BY <2>4, <2>5
<1>3. CASE Pressed \/ (StateChanged /\ UNCHANGED linkVars) \/ Underway \/ SessionOnly
  <2>1. orders' = orders /\ current' = current
    BY <1>0, <1>3, OutsideTheGate DEF coreVars
  <2>2. Acked' = Acked
    BY <2>1 DEF Acked
  <2>3. ASSUME NEW ok \in BOOLEAN, Return(ok) PROVE AckedAreKnown'
    <3>1. /\ reply = "none" /\ reply' = (IF ok THEN "ok" ELSE "error") /\ sent' = sent
          /\ orderMap' = (IF ok THEN orderMap \cup {current} ELSE orderMap)
          /\ ok => current \in sent
      BY <2>3 DEF Return, Submitting, Remember
    <3> QED
      BY <1>0, <2>1, <2>2, <3>1 DEF AckedAreKnown
  <2>4. CASE \/ Pressed
             \/ StateChanged /\ UNCHANGED linkVars
             \/ SendOrder
             \/ \E i \in Intents : BrokerTakes(i)
             \/ SessionOnly
    BY <1>1, <2>1, <2>4 DEF Pressed, SendOrder, BrokerTakes, SessionOnly, linkVars, orderVars
  <2> QED
    BY <1>3, <2>3, <2>4 DEF Underway
<1>4. CASE Gate /\ UNCHANGED linkVars
  <2>1. orders' = orders
    BY <1>4 DEF Gate, ModuleSend, Clock, ReceiveIntent, ProcessIntent,
                HandleSupervisionCommand, ExpireTimedOutIntents
  <2>2. at = "submit" => current' = current
    BY <1>4 DEF Gate, ModuleSend, Clock, ReceiveIntent, ProcessIntent,
                HandleSupervisionCommand, ExpireTimedOutIntents, coreVars
  <2> QED
    BY <1>0, <1>1, <1>4, <2>1, <2>2 DEF linkVars, orderVars
<1>5. \/ Pressed
      \/ StateChanged /\ UNCHANGED linkVars
      \/ Gate /\ UNCHANGED linkVars
      \/ Underway \/ SubmitOrder \/ SessionOnly
  BY DeskCases
<1> QED
  BY <1>2, <1>3, <1>4, <1>5

(* Every step keeps the invariant.                                         *)
LEMMA NextDeskInv == DeskInv /\ [LinkNext]_deskVars => DeskInv'
<1> SUFFICES ASSUME DeskInv, [LinkNext]_deskVars PROVE DeskInv'
  OBVIOUS
<1>1. IInv'
  BY DeskStepIsGateStep, NextIInv DEF DeskInv, LinkTypeOK, ConsoleTypeOK
<1>2. TypeOK'
  BY <1>1 DEF IInv
<1>3. RefusedStayOut'
  BY NextRefusedStayOut
<1> QED
  BY <1>1, <1>2, <1>3, NextLinkTypeOK, NextApprovalsWereAsked,
     NextSentWereReleased, NextAckedAreKnown
     DEF DeskInv

(* The invariant holds throughout.                                         *)
LEMMA DeskInductive == LinkSpec => []DeskInv
  BY InitDeskInv, NextDeskInv, PTL DEF LinkSpec

-----------------------------------------------------------------------------
(* The gate under the keyboard and its broker is the gate of ExecCore:     *)
(* what is proved of Spec (the life cycle of the intents, the counters, no *)
(* order twice) holds of the whole desk.                                   *)
THEOREM DeskIsGate == LinkSpec => Spec
<1>1. LinkInit => Init
  BY DEF LinkInit, ConsoleInit
<1>2. DeskInv /\ [LinkNext]_deskVars => [Next]_vars
  BY DeskStepIsGateStep DEF DeskInv, LinkTypeOK, ConsoleTypeOK
<1> QED
  BY <1>1, <1>2, DeskInductive, PTL DEF LinkSpec, Spec

(* The variables of gate, terminal and link have their types; the channels *)
(* and the queue stay within their bounds under the keyboard too, and the  *)
(* connection is tried no more than MaxRetries + 1 times.                  *)
THEOREM DeskTypeCorrect == LinkSpec => []LinkTypeOK
<1>1. DeskInv => LinkTypeOK
  BY DEF DeskInv
<1> QED
  BY <1>1, DeskInductive, PTL

(* A rejection that entered the channel in time is never followed by an    *)
(* acknowledged order of its intent.                                       *)
THEOREM RefusalHolds == LinkSpec => []RefusalIsFinal
<1>1. ASSUME DeskInv PROVE RefusalIsFinal
  <2> SUFFICES ASSUME NEW i \in refused PROVE orders[i] = 0
    BY DEF RefusalIsFinal
  <2>1. i \in Intents /\ i \notin Acked /\ orders \in [Intents -> Nat]
    BY <1>1 DEF DeskInv, RefusedStayOut, LinkTypeOK, ConsoleTypeOK, TypeOK
  <2> QED
    BY <2>1 DEF Acked
<1> QED
  BY <1>1, DeskInductive, PTL

(* What leaves for the broker was released by the gate and never refused   *)
(* by the operator, and what can be cancelled (IbkrExecution::order_map)   *)
(* is acknowledged or about to be: whatever the broker makes of it, and    *)
(* whenever its answer comes.                                              *)
THEOREM BrokerAgrees == LinkSpec => []BrokerMatchesGate
<1>1. ASSUME DeskInv PROVE BrokerMatchesGate
  <2>1. /\ TypeOK /\ InOnePlace /\ AckedAreKnown /\ SentWereReleased
        /\ sent \subseteq Intents /\ atBroker \subseteq sent
        /\ reply # "none" => at = "submit"
    BY <1>1 DEF DeskInv, LinkTypeOK, ConsoleTypeOK, IInv
  <2>2. StageMap
    BY <2>1, StageIs
  <2>3. ASSUME NEW i \in sent PROVE Stage(i) \in {"released", "acked", "closed"}
    <3>1. i \in Intents /\ rank[i] # 0 /\ i \notin pending /\ i \notin Checking
      BY <2>1 DEF SentWereReleased, Checking, InFlight, TypeOK
    <3> QED
      BY <2>2, <3>1 DEF StageMap
  <2>4. sent \cap (refused \cup batch) = {}
    BY <2>1 DEF SentWereReleased
  <2>5. ASSUME NEW i \in orderMap PROVE i \in sent \cap (Acked \cup InFlight)
    BY <2>1 DEF AckedAreKnown, InFlight
  <2>6. reply # "ok" => orderMap = Acked
    BY <2>1 DEF AckedAreKnown
  <2>7. ASSUME NEW i \in atBroker \ orderMap PROVE i \in InFlight \/ Stage(i) = "closed"
    <3>1. i \in Intents /\ i \notin Acked /\ i \notin batch
      BY <2>1, <2>4 DEF AckedAreKnown
    <3>2. Stage(i) # "acked" /\ (Stage(i) = "released" => i \in Releasing)
      BY <2>2, <3>1 DEF StageMap
    <3>3. i \in Releasing => i \in InFlight
      BY <3>1 DEF Releasing
    <3> QED
      BY <2>1, <2>3, <3>2, <3>3
  <2> QED
    BY <2>1, <2>3, <2>4, <2>5, <2>6, <2>7 DEF BrokerMatchesGate, Cancellable, AckedAreKnown
<1> QED
  BY <1>1, DeskInductive, PTL

(* A single approval releases the intent that was on the banner: what was  *)
(* never shown under an approving key is released by an approve-all only.  *)
THEOREM ApprovalIsExact == LinkSpec => SingleApprovalIsExact
<1> DEFINE Exact == \A i \in Supervised \ asked :
                       Stage(i) = "waiting" /\ Stage(i)' = "released"
                         => Head(commandCh) = ApproveAll
<1>1. ASSUME DeskInv, DeskInv', [LinkNext]_deskVars PROVE [Exact]_allVars
  <2> SUFFICES ASSUME NEW i \in Supervised, i \notin asked,
                      Stage(i) = "waiting", Stage(i)' = "released"
               PROVE  Head(commandCh) = ApproveAll
    OBVIOUS
  <2>1. /\ TypeOK /\ InOnePlace /\ TypeOK' /\ InOnePlace' /\ ApprovalsWereAsked
        /\ [Next]_vars
    BY <1>1, DeskStepIsGateStep DEF DeskInv, LinkTypeOK, ConsoleTypeOK, IInv
  <2>2. commandCh # <<>> /\ Head(commandCh) \in {Approve(i), ApproveAll}
    BY <2>1, NextReleases
  <2>3. 1 \in 1..Len(commandCh) /\ commandCh[1] = Head(commandCh) /\ i \in Intents
    BY <2>1, <2>2 DEF TypeOK, Supervised
  <2>4. Head(commandCh) # Approve(i)
    BY <2>1, <2>3 DEF ApprovalsWereAsked
  <2> QED
    BY <2>2, <2>4
<1>2. DeskInv /\ DeskInv' /\ [LinkNext]_deskVars => [Exact]_allVars
  BY <1>1
<1> QED
  BY <1>2, DeskInductive, PTL DEF LinkSpec, SingleApprovalIsExact
=============================================================================
