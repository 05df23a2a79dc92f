----------------------------- MODULE TrustLedger -----------------------------
(***************************************************************************)
(* The trust ledger (talon-types trust.rs) and what the supervision gate   *)
(* concludes from it: a DualControl module may act on its own in a regime  *)
(* in which the operator has approved it often, in diverse conditions, and *)
(* never rejected it.                                                      *)
(*                                                                         *)
(* Nothing in the program records into a ledger yet; the operations are    *)
(* those of the type's public interface, called in any order.              *)
(***************************************************************************)
EXTENDS Supervision, Integers, FiniteSets, Sequences

CONSTANTS
    Keys,           \* the (module, regime) pairs; action_class is Entry
    Occasions,      \* when an approval can happen: weekday, VIX and time bucket
    NeedApprovals,  \* 100
    NeedDays,       \* 4
    NeedVix,        \* 2
    NeedTimes,      \* 2
    MaxDecisions    \* bound of the model: decisions the operator takes

ASSUME TrustAssumption ==
    /\ \A k \in Keys : k.module \in ModuleId
    /\ NeedApprovals \in Nat \ {0}
    /\ NeedDays \in Nat /\ NeedVix \in Nat /\ NeedTimes \in Nat
    /\ MaxDecisions \in Nat

VARIABLES
    entries,   \* TrustLedger.entries, with TrustEntry::new() where there is none
    log        \* history: the decisions recorded, in order

trustVars == <<entries, log>>

NewEntry == [approvals |-> 0, rejections |-> 0, days |-> {}, vix |-> {}, times |-> {}]

Approval(k, o) == [key |-> k, approved |-> TRUE, day |-> o.day, vix |-> o.vix, time |-> o.time]
Rejection(k)   == [key |-> k, approved |-> FALSE]

-----------------------------------------------------------------------------
(* qualifies_for_auto_trust.                                               *)
Qualifies(e) ==
    /\ e.approvals >= NeedApprovals
    /\ e.rejections = 0
    /\ Cardinality(e.days) >= NeedDays
    /\ Cardinality(e.vix) >= NeedVix
    /\ Cardinality(e.times) >= NeedTimes

HasAutoTrust(k) == Qualifies(entries[k])

-----------------------------------------------------------------------------
TrustInit ==
    /\ entries = [k \in Keys |-> NewEntry]
    /\ log = <<>>

RecordApproval_EveryRegime(k, o) ==
    /\ Len(log) < MaxDecisions
    /\ entries' = [j \in Keys |->
          IF j.module # k.module THEN entries[j]
          ELSE [entries[j] EXCEPT !.approvals = @ + 1, !.days = @ \cup {o.day},
                                  !.vix = @ \cup {o.vix}, !.times = @ \cup {o.time}]]
    /\ log' = Append(log, Approval(k, o))

RecordApproval(k, o) ==
    /\ Len(log) < MaxDecisions
    /\ entries' = [entries EXCEPT
          ![k].approvals = @ + 1,
          ![k].days      = @ \cup {o.day},
          ![k].vix       = @ \cup {o.vix},
          ![k].times     = @ \cup {o.time}]
    /\ log' = Append(log, Approval(k, o))

RecordRejection(k) ==
    /\ Len(log) < MaxDecisions
    /\ entries' = [entries EXCEPT ![k] = [NewEntry EXCEPT !.rejections = entries[k].rejections + 1]]
    /\ log' = Append(log, Rejection(k))

TrustNext ==
    \E k \in Keys :
        \/ \E o \in Occasions : RecordApproval(k, o)
        \/ RecordRejection(k)

TrustSpec == TrustInit /\ [][TrustNext]_trustVars

-----------------------------------------------------------------------------
(* The variables have their types, and the decisions stay within the bound. *)
TrustTypeOK ==
    /\ DOMAIN entries = Keys
    /\ \A k \in Keys :
          /\ entries[k].approvals \in Nat /\ entries[k].rejections \in Nat
          /\ entries[k].days  \subseteq {o.day : o \in Occasions}
          /\ entries[k].vix   \subseteq {o.vix : o \in Occasions}
          /\ entries[k].times \subseteq {o.time : o \in Occasions}
    /\ Len(log) <= MaxDecisions

(* Where in the log the approvals of k since its last rejection are.       *)
Streak(k) ==
    {n \in DOMAIN log :
        /\ log[n].key = k
        /\ \A m \in n..Len(log) : log[m].key = k => log[m].approved}

(* The streak was long and diverse enough.                                 *)
Earned(k) ==
    /\ Cardinality(Streak(k)) >= NeedApprovals
    /\ Cardinality({log[n].day : n \in Streak(k)}) >= NeedDays
    /\ Cardinality({log[n].vix : n \in Streak(k)}) >= NeedVix
    /\ Cardinality({log[n].time : n \in Streak(k)}) >= NeedTimes

(* What specs/TALON_ARCHITECTURE_v3_2_0.md:811 says of a rejection, "Counter *)
(* resets to zero.  Trust re-earned from scratch": a new streak that is    *)
(* long and diverse enough earns the trust back.  The code counts the      *)
(* rejection for ever.                                                     *)
TrustCanBeReEarned == \A k \in Keys : Earned(k) => HasAutoTrust(k)
=============================================================================
