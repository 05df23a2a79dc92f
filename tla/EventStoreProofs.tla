--------------------------- MODULE EventStoreProofs ---------------------------
(***************************************************************************)
(* What TLAPS proves of the event store: its types, that the replay keeps  *)
(* the order of the calls, that no accepted row is forgotten, and how many *)
(* events a power failure can cost.                                        *)
(***************************************************************************)
EXTENDS EventStore, SequenceTheorems, FiniteSetTheorems, TLAPS

-----------------------------------------------------------------------------
(* The inductive invariant.                                                *)

(* Shutdown is the last command the channel ever holds.                    *)
ShutdownIsLast ==
    \A n \in 1..Len(queue) :
        queue[n] = "Shutdown" => n = Len(queue) /\ handle = "closing"

(* a was accepted before b.                                                *)
Before(a, b) ==
    \E i, j \in 1..Len(accepted) : i < j /\ accepted[i] = a /\ accepted[j] = b

WasAccepted(a) == \E i \in 1..Len(accepted) : accepted[i] = a

AcceptedOnce ==
    \A i, j \in 1..Len(accepted) : accepted[i] = accepted[j] => i = j

(* Log and channel hold accepted rows in the order of their acceptance,    *)
(* and what is in the log was accepted before what is in the channel.      *)
InOrder ==
    /\ \A n \in 1..Len(Log) : WasAccepted(Log[n])
    /\ \A n \in 1..Len(queue) : queue[n] \in Rows => WasAccepted(queue[n])
    /\ \A n, k \in 1..Len(Log) : n < k => Before(Log[n], Log[k])
    /\ \A n, k \in 1..Len(queue) :
          n < k /\ queue[n] \in Rows /\ queue[k] \in Rows => Before(queue[n], queue[k])
    /\ \A n \in 1..Len(Log), k \in 1..Len(queue) :
          queue[k] \in Rows => Before(Log[n], queue[k])

(* The events written since the last checkpoint were all counted.          *)
RiskIsCounted == stale \/ Cardinality(AtRisk) <= pages % CheckpointEvery

StoreInv ==
    /\ TypeOK /\ ShutdownIsLast
    /\ AcceptedOnce /\ InOrder
    /\ NothingForgotten /\ RiskIsCounted

-----------------------------------------------------------------------------
(* Sequences.                                                              *)

(* One more element at the end of a sequence. *)
LEMMA AppendIs ==
    ASSUME NEW S, NEW s \in Seq(S), NEW e \in S
    PROVE  /\ Append(s, e) \in Seq(S)
           /\ Len(Append(s, e)) = Len(s) + 1
           /\ Append(s, e)[Len(s) + 1] = e
           /\ \A k \in 1..Len(s) : Append(s, e)[k] = s[k]
           /\ \A k \in 1..Len(Append(s, e)) :
                 \/ k \in 1..Len(s) /\ Append(s, e)[k] = s[k]
                 \/ k = Len(s) + 1 /\ Append(s, e)[k] = e
           /\ \A x : x \in ToSet(Append(s, e)) <=> x \in ToSet(s) \/ x = e
<1>1. /\ Append(s, e) \in Seq(S) /\ Len(Append(s, e)) = Len(s) + 1
      /\ Append(s, e)[Len(s) + 1] = e
      /\ \A k \in 1..Len(s) : Append(s, e)[k] = s[k]
      /\ \A k \in 1..Len(Append(s, e)) :
            \/ k \in 1..Len(s) /\ Append(s, e)[k] = s[k]
            \/ k = Len(s) + 1 /\ Append(s, e)[k] = e
      /\ DOMAIN s = 1..Len(s) /\ DOMAIN Append(s, e) = 1..Len(Append(s, e))
      /\ Len(s) \in Nat
  OBVIOUS
<1>2. Len(s) + 1 \in DOMAIN Append(s, e) /\ DOMAIN s \subseteq DOMAIN Append(s, e)
  BY <1>1
<1> QED
  BY <1>1, <1>2 DEF ToSet

(* The channel after its first command was taken.                          *)
LEMMA TailIs ==
    ASSUME NEW S, NEW s \in Seq(S), s # <<>>
    PROVE  /\ Tail(s) \in Seq(S) /\ Head(s) \in S
           /\ 1 \in 1..Len(s) /\ Head(s) = s[1]
           /\ Len(Tail(s)) = Len(s) - 1
           /\ \A k \in 1..Len(Tail(s)) : k + 1 \in 1..Len(s) /\ Tail(s)[k] = s[k + 1]
           /\ \A x : x \in ToSet(s) <=> x \in ToSet(Tail(s)) \/ x = Head(s)
<1>1. /\ Tail(s) \in Seq(S) /\ Head(s) \in S
      /\ 1 \in 1..Len(s) /\ Head(s) = s[1]
      /\ Len(Tail(s)) = Len(s) - 1
      /\ \A k \in 1..Len(Tail(s)) : k + 1 \in 1..Len(s) /\ Tail(s)[k] = s[k + 1]
      /\ \A k \in 1..Len(s) : k = 1 \/ (k - 1 \in 1..Len(Tail(s)) /\ Tail(s)[k - 1] = s[k])
      /\ DOMAIN s = 1..Len(s) /\ DOMAIN Tail(s) = 1..Len(Tail(s))
  OBVIOUS
<1>2. ASSUME NEW x \in ToSet(s) PROVE x \in ToSet(Tail(s)) \/ x = Head(s)
  <2>1. PICK k \in 1..Len(s) : x = s[k]
    BY <1>1, <1>2 DEF ToSet
  <2> QED
    BY <1>1, <2>1 DEF ToSet
<1>3. ASSUME NEW x \in ToSet(Tail(s)) PROVE x \in ToSet(s)
  <2>1. PICK k \in 1..Len(Tail(s)) : x = Tail(s)[k]
    BY <1>1, <1>3 DEF ToSet
  <2> QED
    BY <1>1, <2>1 DEF ToSet
<1>4. Head(s) \in ToSet(s)
  BY <1>1 DEF ToSet
<1> QED
  BY <1>1, <1>2, <1>3, <1>4

-----------------------------------------------------------------------------
(* The log.                                                                *)

(* How a step of the writer moves the log.                                 *)
LEMMA CheckpointKeepsTheLog ==
    ASSUME TypeOK, NEW w \in Seq(Rows), RunCheckpoint(w)
    PROVE  /\ Log' = db \o w
           /\ db' \in Seq(Rows) /\ wal' \in Seq(Rows)
           /\ inherited' \in Nat /\ stale' \in BOOLEAN
<1>1. db \in Seq(Rows) /\ wal \in Seq(Rows)
  BY DEF TypeOK
<1>2. db \o w \in Seq(Rows) /\ (db \o w) \o <<>> = db \o w
  <2>1. db \o w \in Seq(Rows)
    BY <1>1, ConcatProperties
  <2> QED
    BY <2>1, ConcatEmptySeq
<1>3. Log' = db' \o wal'
  BY DEF Log
<1>4. inherited' \in Nat /\ stale' \in BOOLEAN
  <2>1. inherited' \in {0, inherited}
    BY DEF RunCheckpoint
  <2>2. stale' = TRUE \/ stale' = FALSE
    BY DEF RunCheckpoint
  <2>3. inherited \in Nat
    BY DEF TypeOK
  <2>4. stale' \in BOOLEAN
    BY <2>2
  <2>5. inherited' \in Nat
    BY <2>1, <2>3
  <2> QED
    BY <2>4, <2>5
<1>5. CASE db' = db \o w /\ wal' = <<>>
  BY <1>1, <1>2, <1>3, <1>4, <1>5
<1>6. CASE db' = db /\ wal' = w
  BY <1>1, <1>2, <1>3, <1>4, <1>6
<1> QED
  BY <1>5, <1>6 DEF RunCheckpoint

(* A row inserted at the end of the WAL is at the end of the log.          *)
LEMMA LogGrows ==
    ASSUME TypeOK, NEW r \in Rows
    PROVE  /\ Append(wal, r) \in Seq(Rows)
           /\ db \o Append(wal, r) = Append(Log, r)
<1>1. db \in Seq(Rows) /\ wal \in Seq(Rows) /\ <<r>> \in Seq(Rows)
  BY DEF TypeOK
<1>2. db \o wal \in Seq(Rows)
  BY <1>1, ConcatProperties
<1>3. Append(wal, r) = wal \o <<r>> /\ Append(db \o wal, r) = (db \o wal) \o <<r>>
  BY <1>1, <1>2, AppendIsConcat
<1>4. db \o (wal \o <<r>>) = (db \o wal) \o <<r>>
  BY <1>1, ConcatAssociative
<1> QED
  BY <1>1, <1>3, <1>4 DEF Log

(* A crash leaves a prefix of the log.                                     *)
LEMMA LogIsCut ==
    ASSUME TypeOK, NEW kept \in 0..Len(wal)
    PROVE  LET cut == SubSeq(wal, 1, kept)
           IN  /\ cut \in Seq(Rows) /\ Len(cut) = kept
               /\ db \o cut \in Seq(Rows)
               /\ \A n \in 1..kept : cut[n] = wal[n]
               /\ Len(db \o cut) <= Len(Log)
               /\ \A n \in 1..Len(db \o cut) : (db \o cut)[n] = Log[n]
               /\ \A x \in ToSet(Log) :
                     x \in ToSet(db \o cut) \/ x \in ToSet(SubSeq(wal, kept + 1, Len(wal)))
<1> DEFINE cut == SubSeq(wal, 1, kept)
           rest == SubSeq(wal, kept + 1, Len(wal))
<1>1. db \in Seq(Rows) /\ wal \in Seq(Rows) /\ Len(db) \in Nat /\ Len(wal) \in Nat
  BY DEF TypeOK
<1>2. /\ cut \in Seq(Rows) /\ Len(cut) = kept
      /\ \A n \in 1..kept : cut[n] = wal[n]
  BY <1>1
<1>3. /\ rest \in Seq(Rows) /\ Len(rest) = Len(wal) - kept
      /\ \A n \in 1..Len(rest) : rest[n] = wal[kept + n]
  BY <1>1
<1> HIDE DEF cut, rest
<1>a. PICK a \in Nat, b \in Nat : a = Len(db) /\ b = Len(wal) /\ kept \in 0..b
  BY <1>1
<1>4. /\ Len(db \o cut) = a + kept /\ db \o cut \in Seq(Rows)
      /\ \A n \in 1..a + kept : (db \o cut)[n] = IF n <= a THEN db[n] ELSE cut[n - a]
  BY <1>1, <1>2, <1>a, ConcatProperties
<1>5. /\ Len(Log) = a + b /\ Log \in Seq(Rows)
      /\ \A n \in 1..a + b : Log[n] = IF n <= a THEN db[n] ELSE wal[n - a]
  BY <1>1, <1>a, ConcatProperties DEF Log
<1>6. /\ Len(db \o cut) <= Len(Log)
      /\ \A n \in 1..Len(db \o cut) : (db \o cut)[n] = Log[n]
  <2>1. a + kept <= a + b /\ \A n \in 1..a + kept : n \in 1..a + b
    BY <1>a
  <2>2. \A n \in 1..a + kept : n <= a \/ n - a \in 1..kept
    BY <1>a
  <2> QED
    BY <1>2, <1>4, <1>5, <2>1, <2>2
<1>7. ASSUME NEW x \in ToSet(Log) PROVE x \in ToSet(db \o cut) \/ x \in ToSet(rest)
  <2>1. PICK n \in 1..a + b : x = Log[n]
    BY <1>5, <1>7 DEF ToSet
  <2>2. CASE n <= a + kept
    <3>1. n \in 1..a + kept /\ DOMAIN (db \o cut) = 1..a + kept
      BY <1>a, <1>4, <2>2
    <3>2. (db \o cut)[n] = x
      BY <1>4, <1>6, <2>1, <3>1
    <3> QED
      BY <3>1, <3>2 DEF ToSet
  <2>3. CASE n > a + kept
    <3>0. n - a - kept \in 1..b - kept /\ n = a + kept + (n - a - kept)
      BY <1>a, <2>1, <2>3
    <3>1. PICK m \in 1..b - kept : n = a + kept + m
      BY <3>0
    <3>2. n - a = kept + m /\ ~(n <= a)
      BY <1>a, <2>1, <2>3, <3>1
    <3>3. rest[m] = wal[kept + m] /\ DOMAIN rest = 1..b - kept
      BY <1>3, <1>a
    <3>4. rest[m] = x
      BY <1>5, <2>1, <3>2, <3>3
    <3> QED
      BY <3>3, <3>4 DEF ToSet
  <2> QED
    BY <1>a, <2>2, <2>3
<1> QED
  BY <1>2, <1>4, <1>6, <1>7 DEF cut, rest

(* Log, channel and history are sequences of rows and commands.            *)
LEMMA LogType == TypeOK => Log \in Seq(Rows) /\ queue \in Seq(Commands) /\ accepted \in Seq(Rows)
<1> SUFFICES ASSUME TypeOK PROVE Log \in Seq(Rows) /\ queue \in Seq(Commands) /\ accepted \in Seq(Rows)
  OBVIOUS
<1>1. /\ db \in Seq(Rows) /\ wal \in Seq(Rows)
      /\ accepted \in Seq(Rows) /\ queue \in Seq(Commands)
  BY DEF TypeOK
<1> QED
  BY <1>1, ConcatProperties DEF Log

(* The writer puts a row at the end of the log or notes that it failed.    *)
LEMMA WriteOutcome ==
    ASSUME TypeOK, NEW r \in Rows, Write(r)
    PROVE  /\ \/ Log' = Append(Log, r) /\ refused' = refused
              \/ Log' = Log /\ refused' = refused \cup {r}
           /\ db' \in Seq(Rows) /\ wal' \in Seq(Rows)
           /\ pages' \in Nat /\ inherited' \in Nat /\ stale' \in BOOLEAN
<1>1. PICK inserted \in BOOLEAN :
         LET w == IF inserted THEN Append(wal, r) ELSE wal
             n == IF IsEvent(r) THEN pages + 1 ELSE pages
         IN  /\ pages' = n
             /\ refused' = IF inserted THEN refused ELSE refused \cup {r}
             /\ IF IsEvent(r) /\ Due(n) THEN RunCheckpoint(w)
                ELSE wal' = w /\ UNCHANGED <<db, inherited, stale>>
  BY DEF Write
<1>2. PICK w : w = IF inserted THEN Append(wal, r) ELSE wal
  OBVIOUS
<1>3. /\ wal \in Seq(Rows) /\ db \in Seq(Rows) /\ w \in Seq(Rows)
      /\ db \o w = IF inserted THEN Append(Log, r) ELSE Log
  BY <1>2, LogGrows DEF TypeOK, Log
<1>4. pages' \in Nat
  BY <1>1 DEF TypeOK
<1>5. RunCheckpoint(w) \/ (wal' = w /\ UNCHANGED <<db, inherited, stale>>)
  BY <1>1, <1>2
<1>6. /\ Log' = db \o w
      /\ db' \in Seq(Rows) /\ wal' \in Seq(Rows)
      /\ inherited' \in Nat /\ stale' \in BOOLEAN
  <2>1. CASE RunCheckpoint(w)
    BY <1>3, <2>1, CheckpointKeepsTheLog
  <2>2. CASE wal' = w /\ UNCHANGED <<db, inherited, stale>>
    BY <1>3, <2>2 DEF Log, TypeOK
  <2> QED
    BY <1>5, <2>1, <2>2
<1>7. refused' = IF inserted THEN refused ELSE refused \cup {r}
  BY <1>1
<1> QED
  BY <1>3, <1>4, <1>6, <1>7

(* The steps, as far as rows and commands move.                            *)
Puts(c) ==
    /\ handle = "open" /\ queue' = Append(queue, c)
    /\ UNCHANGED <<files, refused, lost, pages, inherited, stale>>

Takes ==
    /\ queue # <<>> /\ queue' = Tail(queue)
    /\ UNCHANGED <<accepted, lost>>
    /\ handle' = IF Head(queue) = "Shutdown" THEN "none" ELSE handle
    /\ IF Head(queue) \in Rows
       THEN \/ Log' = Append(Log, Head(queue)) /\ refused' = refused
            \/ Log' = Log /\ refused' = refused \cup {Head(queue)}
       ELSE Log' = Log /\ refused' = refused

Crashes ==
    /\ queue' = <<>> /\ handle' = "none"
    /\ UNCHANGED <<accepted, refused>>
    /\ Log' \in Seq(Rows) /\ Len(Log') <= Len(Log)
    /\ \A n \in 1..Len(Log') : Log'[n] = Log[n]
    /\ \A x \in ToSet(Log) \cup (ToSet(queue) \cap Rows) : x \in ToSet(Log') \cup lost'
    /\ lost \subseteq lost'

(* The steps of the store, by what they do to channel and log.             *)
LEMMA StoreCases ==
    ASSUME TypeOK, [Next]_vars
    PROVE  \/ \E r \in Rows :
                 /\ Puts(r) /\ handle' = handle
                 /\ r \notin ToSet(accepted) /\ accepted' = Append(accepted, r)
           \/ Puts("Checkpoint") /\ handle' = handle /\ accepted' = accepted
           \/ Puts("Shutdown") /\ handle' = "closing" /\ accepted' = accepted
           \/ Takes
           \/ Crashes
           \/ /\ handle = "none" /\ handle' = "open"
              /\ UNCHANGED <<queue, files, accepted, refused, lost>>
           \/ UNCHANGED vars
<1>1. ASSUME NEW r \in Rows, AppendRow(r)
      PROVE  /\ Puts(r) /\ handle' = handle
             /\ r \notin ToSet(accepted) /\ accepted' = Append(accepted, r)
  BY <1>1 DEF AppendRow, Puts
<1>2. CASE RequestCheckpoint
  BY <1>2 DEF RequestCheckpoint, Puts
<1>3. CASE Shutdown
  BY <1>3 DEF Shutdown, Puts
<1>4. Commands = Rows \cup {"Checkpoint", "Shutdown"} /\ {"Checkpoint", "Shutdown"} \cap Rows = {}
  BY StoreAssumption DEF Commands, Rows
<1>5. ASSUME WriterRow PROVE Takes
  <2>1. Head(queue) \in Rows /\ Write(Head(queue)) /\ Head(queue) # "Shutdown"
    BY <1>4, <1>5 DEF WriterRow
  <2>2. \/ Log' = Append(Log, Head(queue)) /\ refused' = refused
        \/ Log' = Log /\ refused' = refused \cup {Head(queue)}
    BY <2>1, WriteOutcome
  <2> QED
    BY <1>5, <2>1, <2>2 DEF WriterRow, Takes
<1>6. ASSUME WriterCheckpoint \/ WriterShutdown PROVE Takes
  <2>1. Head(queue) \in {"Checkpoint", "Shutdown"} /\ RunCheckpoint(wal) /\ wal \in Seq(Rows)
    BY <1>6 DEF WriterCheckpoint, WriterShutdown, TypeOK
  <2>2. Log' = Log
    BY <2>1, CheckpointKeepsTheLog DEF Log
  <2> QED
    BY <1>4, <1>6, <2>1, <2>2 DEF WriterCheckpoint, WriterShutdown, Takes
<1>7. ASSUME ProcessEnds PROVE Crashes
  <2>1. Log' = Log
    BY <1>7 DEF ProcessEnds, files, Log
  <2>2. Len(Log) \in Nat /\ Log \in Seq(Rows)
    BY LogType
  <2> QED
    BY <1>7, <2>1, <2>2 DEF ProcessEnds, Crashes
<1>8. ASSUME PowerFails PROVE Crashes
  <2>1. PICK kept \in 0..Len(wal) :
        /\ handle' = "none"
        /\ queue' = <<>>
        /\ wal' = SubSeq(wal, 1, kept)
        /\ lost' = lost \cup ((ToSet(queue) \cup ToSet(SubSeq(wal, kept + 1, Len(wal)))) \cap Rows)
        /\ UNCHANGED <<db, pages, accepted, refused, inherited, stale>>
    BY <1>8 DEF PowerFails
  <2>2. Log' = db \o SubSeq(wal, 1, kept)
    BY <2>1 DEF Log
  <2>3. /\ Log' \in Seq(Rows) /\ Len(Log') <= Len(Log)
        /\ \A n \in 1..Len(Log') : Log'[n] = Log[n]
        /\ \A x \in ToSet(Log) : x \in ToSet(Log') \/ x \in ToSet(SubSeq(wal, kept + 1, Len(wal)))
    BY <2>2, LogIsCut
  <2>4. ToSet(Log) \subseteq Rows
    <3>1. Log \in Seq(Rows)
      BY LogType
    <3> QED
      BY <3>1 DEF ToSet
  <2> QED
    BY <2>1, <2>3, <2>4 DEF Crashes
<1>9. CASE Open
  BY <1>9 DEF Open
<1> QED
  BY <1>1, <1>2, <1>3, <1>5, <1>6, <1>7, <1>8, <1>9 DEF Next, Writer

-----------------------------------------------------------------------------
(* The invariant is inductive, one conjunct after the other.               *)

(* Nothing follows a shutdown in the channel, through any step. *)
LEMMA ShutdownStep ==
    ASSUME TypeOK, ShutdownIsLast, [Next]_vars
    PROVE  ShutdownIsLast' /\ (handle' = "none" => queue' = <<>>)
<1>0. /\ queue \in Seq(Commands) /\ Len(queue) \in Nat
      /\ {"Checkpoint", "Shutdown"} \cap Rows = {} /\ Rows \subseteq Commands
      /\ "Checkpoint" \in Commands /\ "Shutdown" \in Commands
      /\ handle = "none" => queue = <<>>
  BY StoreAssumption DEF TypeOK, Commands, Rows
<1>1. ASSUME NEW c \in Commands, Puts(c), handle' = handle, c # "Shutdown"
      PROVE  ShutdownIsLast' /\ (handle' = "none" => queue' = <<>>)
  <2>1. /\ queue' = Append(queue, c)
        /\ \A k \in 1..Len(queue') :
              \/ k \in 1..Len(queue) /\ queue'[k] = queue[k]
              \/ k = Len(queue) + 1 /\ queue'[k] = c
    BY <1>0, <1>1, AppendIs DEF Puts
  <2>2. \A k \in 1..Len(queue) : queue[k] # "Shutdown"
    BY <1>1 DEF ShutdownIsLast, Puts
  <2>3. handle' # "none"
    BY <1>1 DEF Puts
  <2> QED
    BY <1>1, <2>1, <2>2, <2>3 DEF ShutdownIsLast
<1>2. ASSUME Puts("Shutdown"), handle' = "closing"
      PROVE  ShutdownIsLast' /\ (handle' = "none" => queue' = <<>>)
  <2>1. /\ queue' = Append(queue, "Shutdown") /\ Len(queue') = Len(queue) + 1
        /\ \A k \in 1..Len(queue') :
              \/ k \in 1..Len(queue) /\ queue'[k] = queue[k]
              \/ k = Len(queue) + 1 /\ queue'[k] = "Shutdown"
    BY <1>0, <1>2, AppendIs DEF Puts
  <2>2. \A k \in 1..Len(queue) : queue[k] # "Shutdown"
    BY <1>2 DEF ShutdownIsLast, Puts
  <2> QED
    BY <1>2, <2>1, <2>2 DEF ShutdownIsLast
<1>3. ASSUME Takes PROVE ShutdownIsLast' /\ (handle' = "none" => queue' = <<>>)
  <2>1. PICK q, t \in Seq(Commands) : q \in Seq(Commands) /\ q = queue /\ t = queue'
    BY <1>0, <1>3, TailIs DEF Takes
  <2>2. /\ q # <<>> /\ t = Tail(q) /\ 1 \in 1..Len(q) /\ Head(q) = q[1]
        /\ Len(t) = Len(q) - 1 /\ Len(q) \in Nat /\ Len(t) \in Nat
        /\ \A k \in 1..Len(t) : k + 1 \in 1..Len(q) /\ t[k] = q[k + 1]
    BY <1>3, <2>1, TailIs DEF Takes
  <2>3. ASSUME NEW n \in 1..Len(t), t[n] = "Shutdown" PROVE n = Len(t) /\ handle' = "closing"
    <3>1. q[n + 1] = "Shutdown" /\ n + 1 \in 1..Len(q)
      BY <2>2, <2>3
    <3>2. n + 1 = Len(q) /\ handle = "closing"
      BY <2>1, <3>1 DEF ShutdownIsLast
    <3>3. Head(q) # "Shutdown"
      <4>1. SUFFICES ASSUME q[1] = "Shutdown" PROVE FALSE
        BY <2>2
      <4>2. 1 = Len(q)
        BY <2>1, <2>2, <4>1 DEF ShutdownIsLast
      <4> QED
        BY <2>2, <3>2, <4>2
    <3>4. handle' = IF Head(queue) = "Shutdown" THEN "none" ELSE handle
      BY <1>3 DEF Takes
    <3>5. n = Len(t)
      <4>1. Len(t) = Len(q) - 1 /\ Len(q) \in Nat
        BY <2>2
      <4>2. n \in Nat /\ n + 1 = Len(q)
        BY <2>3, <3>2
      <4> QED
        BY <4>1, <4>2
    <3> QED
      BY <2>1, <3>2, <3>3, <3>4, <3>5
  <2>4. ASSUME handle' = "none" PROVE t = <<>>
    <3>1. Head(q) = "Shutdown"
      BY <1>0, <1>3, <2>1, <2>2, <2>4 DEF Takes
    <3>2. 1 = Len(q)
      BY <2>1, <2>2, <3>1 DEF ShutdownIsLast
    <3> QED
      BY <2>1, <2>2, <3>2
  <2> QED
    BY <2>1, <2>3, <2>4 DEF ShutdownIsLast
<1>4. ASSUME Crashes PROVE ShutdownIsLast' /\ (handle' = "none" => queue' = <<>>)
  BY <1>4 DEF Crashes, ShutdownIsLast
<1>5. ASSUME handle = "none", handle' = "open", queue' = queue
      PROVE  ShutdownIsLast' /\ (handle' = "none" => queue' = <<>>)
  BY <1>0, <1>5 DEF ShutdownIsLast
<1>6. ASSUME UNCHANGED vars
      PROVE  ShutdownIsLast' /\ (handle' = "none" => queue' = <<>>)
  BY <1>0, <1>6 DEF ShutdownIsLast, vars
<1>7. \A r \in Rows : r # "Shutdown" /\ r \in Commands
  BY <1>0
<1> QED
  BY <1>0, <1>1, <1>2, <1>3, <1>4, <1>5, <1>6, <1>7, StoreCases

(* Every step keeps the types.                                             *)
LEMMA TypeStep ==
    ASSUME TypeOK, ShutdownIsLast, [Next]_vars
    PROVE  TypeOK'
<1>0. /\ handle \in {"open", "closing", "none"} /\ queue \in Seq(Commands)
      /\ wal \in Seq(Rows) /\ db \in Seq(Rows) /\ accepted \in Seq(Rows)
      /\ pages \in Nat /\ refused \subseteq Rows /\ lost \subseteq Rows
      /\ inherited \in Nat /\ stale \in BOOLEAN
      /\ Rows \subseteq Commands /\ "Checkpoint" \in Commands /\ "Shutdown" \in Commands
  BY DEF TypeOK, Commands
<1>1. handle' = "none" => queue' = <<>>
  BY ShutdownStep
<1> DEFINE Types ==
      /\ handle' \in {"open", "closing", "none"} /\ queue' \in Seq(Commands)
      /\ wal' \in Seq(Rows) /\ db' \in Seq(Rows) /\ accepted' \in Seq(Rows)
      /\ pages' \in Nat /\ refused' \subseteq Rows /\ lost' \subseteq Rows
      /\ inherited' \in Nat /\ stale' \in BOOLEAN
<1>2. \A c \in Commands : Append(queue, c) \in Seq(Commands)
  BY <1>0, AppendIs
<1>3. queue # <<>> => Tail(queue) \in Seq(Commands) /\ Head(queue) \in Commands
  BY <1>0, TailIs
<1>4. ASSUME NEW r \in Rows, AppendRow(r) PROVE Types
  BY <1>0, <1>2, <1>4, AppendIs DEF AppendRow, files
<1>5. ASSUME RequestCheckpoint PROVE Types
  BY <1>0, <1>2, <1>5 DEF RequestCheckpoint, files
<1>6. ASSUME Shutdown PROVE Types
  BY <1>0, <1>2, <1>6 DEF Shutdown, files
<1>7. ASSUME WriterRow PROVE Types
  <2>1. Head(queue) \in Rows /\ Write(Head(queue))
    BY <1>7 DEF WriterRow
  <2>2. /\ refused' = refused \/ refused' = refused \cup {Head(queue)}
        /\ db' \in Seq(Rows) /\ wal' \in Seq(Rows)
        /\ pages' \in Nat /\ inherited' \in Nat /\ stale' \in BOOLEAN
    BY <2>1, WriteOutcome
  <2>3. refused' \subseteq Rows
    BY <1>0, <2>1, <2>2
  <2> QED
    BY <1>0, <1>3, <1>7, <2>2, <2>3 DEF WriterRow
<1>8. ASSUME WriterCheckpoint PROVE Types
  <2>1. db' \in Seq(Rows) /\ wal' \in Seq(Rows) /\ inherited' \in Nat /\ stale' \in BOOLEAN
    BY <1>0, <1>8, CheckpointKeepsTheLog DEF WriterCheckpoint
  <2> QED
    BY <1>0, <1>3, <1>8, <2>1 DEF WriterCheckpoint
<1>9. ASSUME WriterShutdown PROVE Types
  <2>1. db' \in Seq(Rows) /\ wal' \in Seq(Rows) /\ inherited' \in Nat /\ stale' \in BOOLEAN
    BY <1>0, <1>9, CheckpointKeepsTheLog DEF WriterShutdown
  <2> QED
    BY <1>0, <1>3, <1>9, <2>1 DEF WriterShutdown
<1>10. ASSUME ProcessEnds PROVE Types
  BY <1>0, <1>10 DEF ProcessEnds, files
<1>11. ASSUME PowerFails PROVE Types
  <2>1. PICK kept \in 0..Len(wal) :
        /\ handle' = "none"
        /\ queue' = <<>>
        /\ wal' = SubSeq(wal, 1, kept)
        /\ lost' = lost \cup ((ToSet(queue) \cup ToSet(SubSeq(wal, kept + 1, Len(wal)))) \cap Rows)
        /\ UNCHANGED <<db, pages, accepted, refused, inherited, stale>>
    BY <1>11 DEF PowerFails
  <2>2. wal' \in Seq(Rows)
    BY <2>1, LogIsCut
  <2>3. lost' \subseteq Rows
    BY <1>0, <2>1
  <2> QED
    BY <1>0, <2>1, <2>2, <2>3
<1>12. ASSUME Open PROVE Types
  BY <1>0, <1>12 DEF Open, files
<1>13. ASSUME UNCHANGED vars PROVE Types
  BY <1>0, <1>13 DEF vars, files
<1>14. Types
  BY <1>4, <1>5, <1>6, <1>7, <1>8, <1>9, <1>10, <1>11, <1>12, <1>13 DEF Next, Writer
<1> QED
  BY <1>1, <1>14 DEF TypeOK

(* A row that is accepted comes after all that were.                       *)
LEMMA AcceptedGrows ==
    ASSUME TypeOK, NEW r \in Rows, accepted' = Append(accepted, r)
    PROVE  /\ \A x : WasAccepted(x) => WasAccepted(x)' /\ Before(x, r)'
           /\ \A x, y : Before(x, y) => Before(x, y)'
           /\ WasAccepted(r)'
<1>1. PICK a, b \in Seq(Rows) : a = accepted /\ b = accepted' /\ b = Append(a, r)
  BY AppendIs DEF TypeOK
<1>2. /\ Len(a) \in Nat /\ Len(b) = Len(a) + 1 /\ b[Len(a) + 1] = r
      /\ \A k \in 1..Len(a) : b[k] = a[k]
  BY <1>1, AppendIs
<1>3. Len(b) \in 1..Len(b) /\ b[Len(b)] = r /\ \A k \in 1..Len(a) : k \in 1..Len(b) /\ k < Len(b)
  BY <1>2
<1>4. ASSUME NEW x, WasAccepted(x) PROVE WasAccepted(x)' /\ Before(x, r)'
  <2>1. PICK i \in 1..Len(a) : a[i] = x
    BY <1>1, <1>4 DEF WasAccepted
  <2>2. i \in 1..Len(b) /\ b[i] = x /\ i < Len(b)
    BY <1>2, <1>3, <2>1
  <2> QED
    BY <1>1, <1>3, <2>2 DEF WasAccepted, Before
<1>5. ASSUME NEW x, NEW y, Before(x, y) PROVE Before(x, y)'
  <2>1. PICK i, j \in 1..Len(a) : i < j /\ a[i] = x /\ a[j] = y
    BY <1>1, <1>5 DEF Before
  <2>2. i \in 1..Len(b) /\ b[i] = x /\ j \in 1..Len(b) /\ b[j] = y
    BY <1>2, <1>3, <2>1
  <2> QED
    BY <1>1, <2>1, <2>2 DEF Before
<1>6. WasAccepted(r)'
  BY <1>1, <1>3 DEF WasAccepted
<1> QED
  BY <1>4, <1>5, <1>6

(* No row is accepted twice.                                               *)
LEMMA AcceptedStep ==
    ASSUME TypeOK, AcceptedOnce, [Next]_vars
    PROVE  AcceptedOnce'
<1>1. ASSUME NEW r \in Rows, r \notin ToSet(accepted), accepted' = Append(accepted, r)
      PROVE  AcceptedOnce'
  <2>1. PICK a, b \in Seq(Rows) : a = accepted /\ b = accepted' /\ b = Append(a, r)
    BY <1>1, AppendIs DEF TypeOK
  <2>2. \A k \in 1..Len(b) : (k \in 1..Len(a) /\ b[k] = a[k]) \/ (k = Len(a) + 1 /\ b[k] = r)
    BY <2>1, AppendIs
  <2>3. \A k \in 1..Len(a) : a[k] # r
    BY <1>1, <2>1 DEF ToSet
  <2>4. \A i, j \in 1..Len(a) : a[i] = a[j] => i = j
    BY <2>1 DEF AcceptedOnce
  <2>5. \A i, j \in 1..Len(b) : b[i] = b[j] => i = j
    BY <2>2, <2>3, <2>4
  <2> QED
    BY <2>1, <2>5 DEF AcceptedOnce
<1>2. ASSUME accepted' = accepted PROVE AcceptedOnce'
  BY <1>2 DEF AcceptedOnce
<1> QED
  BY <1>1, <1>2, StoreCases DEF Takes, Crashes, vars

(* Log and channel stay in the order of acceptance.                        *)
LEMMA OrderStep ==
    ASSUME TypeOK, InOrder, [Next]_vars
    PROVE  InOrder'
<1>0. /\ queue \in Seq(Commands) /\ Log \in Seq(Rows)
      /\ {"Checkpoint", "Shutdown"} \cap Rows = {} /\ Rows \subseteq Commands
      /\ "Checkpoint" \in Commands /\ "Shutdown" \in Commands
  BY StoreAssumption, LogType DEF Commands, Rows
<1>1. ASSUME accepted' = accepted
      PROVE  /\ \A x : WasAccepted(x)' <=> WasAccepted(x)
             /\ \A x, y : Before(x, y)' <=> Before(x, y)
  BY <1>1 DEF WasAccepted, Before
<1>2. ASSUME UNCHANGED <<accepted, files, queue>> PROVE InOrder'
  <2>1. Log' = Log /\ queue' = queue /\ accepted' = accepted
    BY <1>2 DEF files, Log
  <2> QED
    BY <2>1, <1>1 DEF InOrder
<1>3. ASSUME NEW r \in Rows, Puts(r), accepted' = Append(accepted, r) PROVE InOrder'
  <2>1. PICK L \in Seq(Rows), p, q \in Seq(Commands) :
           L = Log /\ p = queue /\ q = queue' /\ q = Append(p, r)
    BY <1>0, <1>3, AppendIs DEF Puts
  <2>2. Log' = L
    BY <1>3, <2>1 DEF Puts, files, Log
  <2>3. \A k \in 1..Len(q) : (k \in 1..Len(p) /\ q[k] = p[k]) \/ (k = Len(p) + 1 /\ q[k] = r)
    BY <1>0, <2>1, AppendIs
  <2>4. /\ \A x : WasAccepted(x) => WasAccepted(x)' /\ Before(x, r)'
        /\ \A x, y : Before(x, y) => Before(x, y)'
        /\ WasAccepted(r)'
    BY <1>3, AcceptedGrows
  <2>5. /\ \A n \in 1..Len(L) : WasAccepted(L[n])
        /\ \A n \in 1..Len(p) : p[n] \in Rows => WasAccepted(p[n])
        /\ \A n, k \in 1..Len(L) : n < k => Before(L[n], L[k])
        /\ \A n, k \in 1..Len(p) : n < k /\ p[n] \in Rows /\ p[k] \in Rows => Before(p[n], p[k])
        /\ \A n \in 1..Len(L), k \in 1..Len(p) : p[k] \in Rows => Before(L[n], p[k])
    BY <2>1 DEF InOrder
  <2>6. /\ \A n \in 1..Len(L) : WasAccepted(L[n])'
        /\ \A n, k \in 1..Len(L) : n < k => Before(L[n], L[k])'
    BY <2>4, <2>5
  <2>7. \A n \in 1..Len(q) : q[n] \in Rows => WasAccepted(q[n])'
    BY <2>3, <2>4, <2>5
  <2>8. \A n \in 1..Len(L), k \in 1..Len(q) : q[k] \in Rows => Before(L[n], q[k])'
    BY <2>3, <2>4, <2>5
  <2>9. ASSUME NEW n \in 1..Len(q), NEW k \in 1..Len(q), n < k, q[n] \in Rows, q[k] \in Rows
        PROVE  Before(q[n], q[k])'
    <3>1. n \in 1..Len(p) /\ q[n] = p[n] /\ Len(p) \in Nat
      BY <2>1, <2>3, <2>9
    <3>2. CASE k \in 1..Len(p) /\ q[k] = p[k]
      BY <2>4, <2>5, <2>9, <3>1, <3>2
    <3>3. CASE q[k] = r
      BY <2>4, <2>5, <2>9, <3>1, <3>3
    <3> QED
      BY <2>3, <3>2, <3>3
  <2> QED
    BY <2>1, <2>2, <2>6, <2>7, <2>8, <2>9 DEF InOrder
<1>4. ASSUME NEW c \in {"Checkpoint", "Shutdown"}, Puts(c), accepted' = accepted PROVE InOrder'
  <2>1. PICK L \in Seq(Rows), p, q \in Seq(Commands) :
           L = Log /\ p = queue /\ q = queue' /\ q = Append(p, c)
    BY <1>0, <1>4, AppendIs DEF Puts
  <2>2. Log' = L
    BY <1>4, <2>1 DEF Puts, files, Log
  <2>3. \A k \in 1..Len(q) : (k \in 1..Len(p) /\ q[k] = p[k]) \/ (k = Len(p) + 1 /\ q[k] = c)
    BY <1>0, <2>1, AppendIs
  <2>4. \A k \in 1..Len(q) : q[k] \in Rows => k \in 1..Len(p) /\ q[k] = p[k]
    BY <1>0, <2>3
  <2>5. /\ \A n \in 1..Len(L) : WasAccepted(L[n])
        /\ \A n \in 1..Len(p) : p[n] \in Rows => WasAccepted(p[n])
        /\ \A n, k \in 1..Len(L) : n < k => Before(L[n], L[k])
        /\ \A n, k \in 1..Len(p) : n < k /\ p[n] \in Rows /\ p[k] \in Rows => Before(p[n], p[k])
        /\ \A n \in 1..Len(L), k \in 1..Len(p) : p[k] \in Rows => Before(L[n], p[k])
    BY <2>1 DEF InOrder
  <2>6. /\ \A n \in 1..Len(L) : WasAccepted(L[n])'
        /\ \A n \in 1..Len(q) : q[n] \in Rows => WasAccepted(q[n])'
        /\ \A n, k \in 1..Len(L) : n < k => Before(L[n], L[k])'
    BY <1>1, <1>4, <2>4, <2>5
  <2>7. /\ \A n, k \in 1..Len(q) : n < k /\ q[n] \in Rows /\ q[k] \in Rows => Before(q[n], q[k])'
        /\ \A n \in 1..Len(L), k \in 1..Len(q) : q[k] \in Rows => Before(L[n], q[k])'
    BY <1>1, <1>4, <2>4, <2>5
  <2> QED
    BY <2>1, <2>2, <2>6, <2>7 DEF InOrder
<1>5. ASSUME Takes PROVE InOrder'
  <2>0. accepted' = accepted
    BY <1>5 DEF Takes
  <2>1. PICK L \in Seq(Rows), p, q \in Seq(Commands) :
           L = Log /\ p = queue /\ q = queue' /\ p # <<>> /\ q = Tail(p)
    BY <1>0, <1>5, TailIs DEF Takes
  <2>2. /\ 1 \in 1..Len(p) /\ Head(p) = p[1] /\ Len(p) \in Nat
        /\ \A k \in 1..Len(q) : k + 1 \in 1..Len(p) /\ q[k] = p[k + 1]
    BY <2>1, TailIs
  <2>3. Log' = L \/ (Head(p) \in Rows /\ Log' = Append(L, Head(p)))
    BY <1>5, <2>1 DEF Takes
  <2>4. PICK M \in Seq(Rows) : M = Log'
    BY <2>3, AppendIs
  <2>5. \A n \in 1..Len(M) :
           \/ n \in 1..Len(L) /\ M[n] = L[n]
           \/ n = Len(L) + 1 /\ M[n] = p[1] /\ p[1] \in Rows
    <3>1. CASE M = L
      BY <3>1
    <3>2. CASE Head(p) \in Rows /\ M = Append(L, Head(p))
      BY <2>2, <3>2, AppendIs
    <3> QED
      BY <2>3, <2>4, <3>1, <3>2
  <2>6. /\ \A n \in 1..Len(L) : WasAccepted(L[n])
        /\ \A n \in 1..Len(p) : p[n] \in Rows => WasAccepted(p[n])
        /\ \A n, k \in 1..Len(L) : n < k => Before(L[n], L[k])
        /\ \A n, k \in 1..Len(p) : n < k /\ p[n] \in Rows /\ p[k] \in Rows => Before(p[n], p[k])
        /\ \A n \in 1..Len(L), k \in 1..Len(p) : p[k] \in Rows => Before(L[n], p[k])
    BY <2>1 DEF InOrder
  <2>7. /\ \A n \in 1..Len(M) : WasAccepted(M[n])
        /\ \A n \in 1..Len(q) : q[n] \in Rows => WasAccepted(q[n])
    BY <2>2, <2>5, <2>6
  <2>8. ASSUME NEW n \in 1..Len(M), NEW k \in 1..Len(M), n < k PROVE Before(M[n], M[k])
    <3>1. n \in 1..Len(L) /\ M[n] = L[n] /\ Len(L) \in Nat
      BY <2>1, <2>5, <2>8
    <3>2. CASE k \in 1..Len(L) /\ M[k] = L[k]
      BY <2>6, <2>8, <3>1, <3>2
    <3>3. CASE M[k] = p[1] /\ p[1] \in Rows
      BY <2>2, <2>6, <3>1, <3>3
    <3> QED
      BY <2>5, <3>2, <3>3
  <2>9. ASSUME NEW n \in 1..Len(q), NEW k \in 1..Len(q), n < k, q[n] \in Rows, q[k] \in Rows
        PROVE  Before(q[n], q[k])
    <3>1. n + 1 < k + 1
      BY <2>9
    <3> QED
      BY <2>2, <2>6, <2>9, <3>1
  <2>10. ASSUME NEW n \in 1..Len(M), NEW k \in 1..Len(q), q[k] \in Rows
         PROVE  Before(M[n], q[k])
    <3>1. k + 1 \in 1..Len(p) /\ q[k] = p[k + 1] /\ 1 < k + 1
      BY <2>2, <2>10
    <3>2. CASE n \in 1..Len(L) /\ M[n] = L[n]
      BY <2>6, <2>10, <3>1, <3>2
    <3>3. CASE M[n] = p[1] /\ p[1] \in Rows
      BY <2>2, <2>6, <2>10, <3>1, <3>3
    <3> QED
      BY <2>5, <3>2, <3>3
  <2>11. /\ \A n \in 1..Len(M) : WasAccepted(M[n])'
         /\ \A n \in 1..Len(q) : q[n] \in Rows => WasAccepted(q[n])'
         /\ \A n, k \in 1..Len(M) : n < k => Before(M[n], M[k])'
    BY <1>1, <2>0, <2>7, <2>8
  <2>12. /\ \A n, k \in 1..Len(q) : n < k /\ q[n] \in Rows /\ q[k] \in Rows => Before(q[n], q[k])'
         /\ \A n \in 1..Len(M), k \in 1..Len(q) : q[k] \in Rows => Before(M[n], q[k])'
    BY <1>1, <2>0, <2>9, <2>10
  <2> QED
    BY <2>1, <2>4, <2>11, <2>12 DEF InOrder
<1>6. ASSUME Crashes PROVE InOrder'
  <2>1. /\ queue' = <<>> /\ accepted' = accepted
        /\ Len(Log') <= Len(Log) /\ \A n \in 1..Len(Log') : Log'[n] = Log[n]
    BY <1>6 DEF Crashes
  <2>2. PICK L, M : L = Log /\ M = Log'
    OBVIOUS
  <2>3. \A n \in 1..Len(M) : n \in 1..Len(L) /\ M[n] = L[n]
    <3>1. Len(L) \in Nat /\ Len(M) \in Nat
      BY <1>0, <1>6, <2>2 DEF Crashes
    <3> QED
      BY <2>1, <2>2, <3>1
  <2>4. /\ \A n \in 1..Len(L) : WasAccepted(L[n])
        /\ \A n, k \in 1..Len(L) : n < k => Before(L[n], L[k])
    BY <2>2 DEF InOrder
  <2>5. /\ \A n \in 1..Len(M) : WasAccepted(M[n])'
        /\ \A n, k \in 1..Len(M) : n < k => Before(M[n], M[k])'
    BY <1>1, <2>1, <2>3, <2>4
  <2>6. Len(queue') = 0
    BY <2>1
  <2> QED
    BY <2>2, <2>5, <2>6 DEF InOrder
<1> QED
  BY <1>2, <1>3, <1>4, <1>5, <1>6, StoreCases DEF vars, files

(* No step makes an accepted row disappear unaccounted.                    *)
LEMMA ForgottenStep ==
    ASSUME TypeOK, NothingForgotten, [Next]_vars
    PROVE  NothingForgotten'
<1>0. /\ queue \in Seq(Commands) /\ Log \in Seq(Rows) /\ accepted \in Seq(Rows)
      /\ Rows \subseteq Commands
      /\ "Checkpoint" \in Commands /\ "Shutdown" \in Commands
  BY LogType DEF Commands
<1>1. \A n \in DOMAIN accepted : accepted[n] \in ToSet(Log) \cup refused \cup lost \cup ToSet(queue)
  BY DEF NothingForgotten, Settled
<1>2. \A n \in DOMAIN accepted : accepted[n] \in Rows
  BY <1>0
<1>3. ASSUME NEW r \in Rows, Puts(r), accepted' = Append(accepted, r) PROVE NothingForgotten'
  <2>1. Log' = Log /\ refused' = refused /\ lost' = lost /\ queue' = Append(queue, r)
    BY <1>3 DEF Puts, files, Log
  <2>2. \A x : x \in ToSet(queue') <=> x \in ToSet(queue) \/ x = r
    BY <1>0, <2>1, AppendIs
  <2>3. /\ \A n \in 1..Len(accepted') :
              \/ n \in 1..Len(accepted) /\ accepted'[n] = accepted[n]
              \/ n = Len(accepted) + 1 /\ accepted'[n] = r
        /\ accepted' \in Seq(Rows)
    BY <1>0, <1>3, AppendIs
  <2>4. DOMAIN accepted' = 1..Len(accepted') /\ DOMAIN accepted = 1..Len(accepted)
    BY <1>0, <2>3
  <2> QED
    BY <1>1, <2>1, <2>2, <2>3, <2>4 DEF NothingForgotten, Settled
<1>4. ASSUME NEW c \in {"Checkpoint", "Shutdown"}, Puts(c), accepted' = accepted
      PROVE  NothingForgotten'
  <2>1. Log' = Log /\ refused' = refused /\ lost' = lost /\ queue' = Append(queue, c)
    BY <1>4 DEF Puts, files, Log
  <2>2. \A x : x \in ToSet(queue) => x \in ToSet(queue')
    BY <1>0, <2>1, AppendIs
  <2> QED
    BY <1>1, <1>4, <2>1, <2>2 DEF NothingForgotten, Settled
<1>5. ASSUME Takes PROVE NothingForgotten'
  <2>1. /\ accepted' = accepted /\ lost' = lost
        /\ queue' = Tail(queue) /\ queue # <<>>
    BY <1>5 DEF Takes
  <2>2. \A x : x \in ToSet(queue) <=> x \in ToSet(queue') \/ x = Head(queue)
    BY <1>0, <2>1, TailIs
  <2>3. \A x : x \in ToSet(Log) => x \in ToSet(Log')
    <3>1. ASSUME NEW r \in Rows, Log' = Append(Log, r)
          PROVE  \A x : x \in ToSet(Log) => x \in ToSet(Log')
      BY <1>0, <3>1, AppendIs
    <3> QED
      BY <1>5, <3>1 DEF Takes
  <2>4. refused \subseteq refused'
    BY <1>5 DEF Takes
  <2>5. Head(queue) \in Rows => Head(queue) \in ToSet(Log') \/ Head(queue) \in refused'
    <3>1. ASSUME NEW r \in Rows, Log' = Append(Log, r)
          PROVE  r \in ToSet(Log')
      BY <1>0, <3>1, AppendIs
    <3> QED
      BY <1>5, <3>1 DEF Takes
  <2> QED
    BY <1>1, <1>2, <2>1, <2>2, <2>3, <2>4, <2>5 DEF NothingForgotten, Settled
<1>6. ASSUME Crashes PROVE NothingForgotten'
  <2>1. /\ accepted' = accepted /\ refused' = refused /\ lost \subseteq lost'
        /\ \A x \in ToSet(Log) \cup (ToSet(queue) \cap Rows) : x \in ToSet(Log') \cup lost'
    BY <1>6 DEF Crashes
  <2> QED
    BY <1>1, <1>2, <2>1 DEF NothingForgotten, Settled
<1>7. ASSUME UNCHANGED <<queue, files, accepted, refused, lost>> PROVE NothingForgotten'
  <2>1. Log' = Log
    BY <1>7 DEF files, Log
  <2> QED
    BY <1>1, <1>7, <2>1 DEF NothingForgotten, Settled
<1> QED
  BY <1>3, <1>4, <1>5, <1>6, <1>7, StoreCases DEF vars, files

(* Counting modulo c.                                                      *)
LEMMA Remainder ==
    ASSUME NEW c \in Nat \ {0}, NEW q \in Nat, NEW r \in Nat, r < c
    PROVE  (c * q + r) % c = r
  OBVIOUS

(* The remainder of the next number is one more, or zero.                  *)
LEMMA NextRemainder ==
    ASSUME NEW c \in Nat \ {0}, NEW n \in Nat
    PROVE  (n + 1) % c = 0 \/ (n + 1) % c = (n % c) + 1
<1>1. PICK q \in Int : q = n \div c
  OBVIOUS
<1>2. PICK r \in Nat : r = n % c /\ r < c
  OBVIOUS
<1>3. n = c * q + r
  BY <1>1, <1>2
<1>4. q \in Nat
  BY <1>1
<1>5. CASE r + 1 < c
  <2>1. (c * q + (r + 1)) % c = r + 1
    BY <1>2, <1>4, <1>5, Remainder
  <2> QED
    BY <1>2, <1>3, <1>4, <2>1
<1>6. CASE r + 1 = c
  <2>1. (c * (q + 1) + 0) % c = 0
    BY <1>4, Remainder
  <2>2. n + 1 = c * (q + 1) + 0
    BY <1>2, <1>3, <1>4, <1>6
  <2> QED
    BY <2>1, <2>2
<1> QED
  BY <1>2, <1>5, <1>6

(* The counter of a writer that has not yet reached the next checkpoint.   *)
LEMMA NextPage ==
    ASSUME NEW n \in Nat, ~Due(n + 1)
    PROVE  (n + 1) % CheckpointEvery = (n % CheckpointEvery) + 1
  BY NextRemainder, StoreAssumption DEF Due

(* The remainder at which the writer checkpoints.                          *)
LEMMA PagesLeft == TypeOK => pages % CheckpointEvery \in 0..CheckpointEvery - 1
<1> SUFFICES ASSUME TypeOK PROVE pages % CheckpointEvery \in 0..CheckpointEvery - 1
  OBVIOUS
<1>1. PICK c \in Nat \ {0}, n \in Nat : c = CheckpointEvery /\ n = pages
  BY StoreAssumption DEF TypeOK
<1>2. n % c \in 0..c - 1
  OBVIOUS
<1> QED
  BY <1>1, <1>2

(* The events at risk can be counted.                                      *)
LEMMA RiskIsFinite ==
    ASSUME NEW i \in Nat, NEW w \in Seq(Rows)
    PROVE  LET S == {n \in i + 1..Len(w) : IsEvent(w[n])}
           IN  IsFiniteSet(S) /\ Cardinality(S) \in Nat
<1> DEFINE S == {n \in i + 1..Len(w) : IsEvent(w[n])}
<1>1. IsFiniteSet(i + 1..Len(w))
  BY FS_Interval
<1>2. S \subseteq i + 1..Len(w)
  OBVIOUS
<1> QED
  BY <1>1, <1>2, FS_Subset, FS_CardinalityType

(* A checkpoint leaves nothing at risk, or is known to have failed.        *)
LEMMA CheckpointClearsRisk ==
    ASSUME TypeOK, NEW w \in Seq(Rows), RunCheckpoint(w), pages' \in Nat
    PROVE  RiskIsCounted'
<1>1. CASE wal' = <<>> /\ inherited' = 0
  <2>1. AtRisk' = {}
    BY <1>1 DEF AtRisk
  <2>2. Cardinality({}) = 0
    BY FS_EmptySet
  <2>3. pages' % CheckpointEvery \in Nat
    <3>1. PICK c \in Nat \ {0}, n \in Nat : c = CheckpointEvery /\ n = pages'
      BY StoreAssumption
    <3>2. n % c \in Nat
      OBVIOUS
    <3> QED
      BY <3>1, <3>2
  <2>4. 0 <= pages' % CheckpointEvery
    BY <2>3
  <2> QED
    BY <2>1, <2>2, <2>4 DEF RiskIsCounted
<1>2. CASE stale' = TRUE
  BY <1>2 DEF RiskIsCounted
<1> QED
  BY <1>1, <1>2 DEF RunCheckpoint

(* The counter keeps up with the events at risk.                           *)
LEMMA RiskStep ==
    ASSUME TypeOK, RiskIsCounted, [Next]_vars, TypeOK'
    PROVE  RiskIsCounted'
<1>0. /\ wal \in Seq(Rows) /\ wal' \in Seq(Rows) /\ inherited \in Nat /\ inherited' \in Nat
      /\ pages \in Nat /\ pages' \in Nat
      /\ IsFiniteSet(AtRisk) /\ Cardinality(AtRisk) \in Nat
  <2>1. wal \in Seq(Rows) /\ wal' \in Seq(Rows) /\ inherited \in Nat /\ inherited' \in Nat
    BY DEF TypeOK
  <2>2. IsFiniteSet(AtRisk) /\ Cardinality(AtRisk) \in Nat
    BY <2>1, RiskIsFinite DEF AtRisk
  <2> QED
    BY <2>1, <2>2 DEF TypeOK
<1>1. ASSUME UNCHANGED <<wal, pages, inherited, stale>> PROVE RiskIsCounted'
  BY <1>1 DEF RiskIsCounted, AtRisk
<1>2. ASSUME AtRisk' \subseteq AtRisk, pages' = pages, stale' = stale PROVE RiskIsCounted'
  <2>1. Cardinality(AtRisk') <= Cardinality(AtRisk) /\ Cardinality(AtRisk') \in Nat
    BY <1>0, <1>2, FS_Subset, FS_CardinalityType
  <2>2. PICK c \in Nat, d \in Nat, m \in Nat : c = Cardinality(AtRisk') /\ d = Cardinality(AtRisk)
                               /\ m = pages % CheckpointEvery
    BY <1>0, <2>1, PagesLeft
  <2>3. d <= m => c <= m
    BY <2>1, <2>2
  <2> QED
    BY <1>2, <2>2, <2>3 DEF RiskIsCounted
<1>3. CASE WriterRow
  <2>1. PICK r \in Rows : r = Head(queue) /\ Write(r)
    BY <1>3 DEF WriterRow
  <2>2. PICK inserted \in BOOLEAN :
         LET w == IF inserted THEN Append(wal, r) ELSE wal
             n == IF IsEvent(r) THEN pages + 1 ELSE pages
         IN  /\ pages' = n
             /\ refused' = IF inserted THEN refused ELSE refused \cup {r}
             /\ IF IsEvent(r) /\ Due(n) THEN RunCheckpoint(w)
                ELSE wal' = w /\ UNCHANGED <<db, inherited, stale>>
    BY <2>1 DEF Write
  <2>3. PICK w \in Seq(Rows) : w = IF inserted THEN Append(wal, r) ELSE wal
    BY <1>0, <2>1, AppendIs
  <2>4. \A n \in 1..Len(w) : (n \in 1..Len(wal) /\ w[n] = wal[n]) \/ (n = Len(wal) + 1 /\ w[n] = r)
    BY <1>0, <2>1, <2>3, AppendIs
  <2>5. CASE IsEvent(r) /\ Due(pages + 1)
    <3>1. RunCheckpoint(w)
      BY <2>2, <2>3, <2>5
    <3> QED
      BY <1>0, <3>1, CheckpointClearsRisk
  <2>6. CASE ~IsEvent(r)
    <3>1. wal' = w /\ inherited' = inherited /\ stale' = stale /\ pages' = pages
      BY <2>2, <2>3, <2>6
    <3>2. AtRisk' \subseteq AtRisk
      BY <1>0, <2>4, <2>6, <3>1 DEF AtRisk
    <3> QED
      BY <1>2, <3>1, <3>2
  <2>7. CASE IsEvent(r) /\ ~Due(pages + 1)
    <3>1. wal' = w /\ inherited' = inherited /\ stale' = stale /\ pages' = pages + 1
      BY <2>2, <2>3, <2>7
    <3>2. AtRisk' \subseteq AtRisk \cup {Len(wal) + 1}
      BY <1>0, <2>4, <3>1 DEF AtRisk
    <3>3. /\ IsFiniteSet(AtRisk \cup {Len(wal) + 1})
          /\ Cardinality(AtRisk \cup {Len(wal) + 1}) <= Cardinality(AtRisk) + 1
      <4>1. /\ IsFiniteSet(AtRisk \cup {Len(wal) + 1})
            /\ \/ Cardinality(AtRisk \cup {Len(wal) + 1}) = Cardinality(AtRisk)
               \/ Cardinality(AtRisk \cup {Len(wal) + 1}) = Cardinality(AtRisk) + 1
        BY <1>0, FS_AddElement
      <4>2. PICK d \in Nat : d = Cardinality(AtRisk)
        BY <1>0
      <4>3. d <= d + 1 /\ d + 1 <= d + 1
        BY <4>2
      <4> QED
        BY <4>1, <4>2, <4>3
    <3>4. /\ Cardinality(AtRisk') <= Cardinality(AtRisk \cup {Len(wal) + 1})
          /\ Cardinality(AtRisk \cup {Len(wal) + 1}) \in Nat /\ Cardinality(AtRisk') \in Nat
      BY <3>2, <3>3, FS_Subset, FS_CardinalityType
    <3>5. pages' % CheckpointEvery = (pages % CheckpointEvery) + 1
      BY <1>0, <2>7, <3>1, NextPage
    <3>6. PICK c \in Nat, d \in Nat, e \in Nat, m \in Nat :
             /\ c = Cardinality(AtRisk') /\ d = Cardinality(AtRisk)
             /\ e = Cardinality(AtRisk \cup {Len(wal) + 1})
             /\ m = pages % CheckpointEvery
      BY <1>0, <3>4, PagesLeft
    <3>7. d <= m => c <= m + 1
      BY <3>3, <3>4, <3>6
    <3> QED
      BY <3>1, <3>5, <3>6, <3>7 DEF RiskIsCounted
  <2> QED
    BY <2>5, <2>6, <2>7
<1>4. CASE WriterCheckpoint \/ WriterShutdown
  BY <1>0, <1>4, CheckpointClearsRisk DEF WriterCheckpoint, WriterShutdown
<1>5. CASE PowerFails
  <2>1. PICK kept \in 0..Len(wal) :
        /\ wal' = SubSeq(wal, 1, kept)
        /\ UNCHANGED <<db, pages, accepted, refused, inherited, stale>>
    BY <1>5 DEF PowerFails
  <2>2. Len(wal') = kept /\ \A n \in 1..kept : wal'[n] = wal[n]
    BY <2>1, LogIsCut
  <2>3. kept \in Nat /\ kept <= Len(wal) /\ Len(wal) \in Nat
    BY <1>0, <2>1
  <2>4. ASSUME NEW n \in AtRisk' PROVE n \in AtRisk
    <3>1. n \in inherited + 1..kept /\ IsEvent(wal'[n])
      BY <2>1, <2>2, <2>4 DEF AtRisk
    <3>2. n \in 1..kept /\ n \in inherited + 1..Len(wal)
      BY <1>0, <2>3, <3>1
    <3> QED
      BY <2>2, <3>1, <3>2 DEF AtRisk
  <2> QED
    BY <1>2, <2>1, <2>4
<1>6. CASE Open
  <2>1. wal' = wal /\ inherited' = Len(wal) /\ pages' = 0 /\ Len(wal) \in Nat
    BY <1>0, <1>6 DEF Open, files
  <2>2. AtRisk' = {}
    BY <2>1 DEF AtRisk
  <2>3. Cardinality({}) = 0
    BY FS_EmptySet
  <2>4. 0 % CheckpointEvery = 0
    <3>1. PICK c \in Nat \ {0} : c = CheckpointEvery
      BY StoreAssumption
    <3>2. 0 % c = 0
      OBVIOUS
    <3> QED
      BY <3>1, <3>2
  <2> QED
    BY <2>1, <2>2, <2>3, <2>4 DEF RiskIsCounted
<1>7. ASSUME NEW r \in Rows, AppendRow(r) PROVE RiskIsCounted'
  BY <1>1, <1>7 DEF AppendRow, files
<1>8. CASE RequestCheckpoint
  BY <1>1, <1>8 DEF RequestCheckpoint, files
<1>9. CASE Shutdown
  BY <1>1, <1>9 DEF Shutdown, files
<1>10. CASE ProcessEnds
  BY <1>1, <1>10 DEF ProcessEnds, files
<1>11. CASE UNCHANGED vars
  BY <1>1, <1>11 DEF vars, files
<1> QED
  BY <1>3, <1>4, <1>5, <1>6, <1>7, <1>8, <1>9, <1>10, <1>11 DEF Next, Writer

(* A new store satisfies the invariant.                                    *)
LEMMA InitStoreInv == Init => StoreInv
<1> SUFFICES ASSUME Init PROVE StoreInv
  OBVIOUS
<1>1. /\ handle = "open" /\ queue = <<>> /\ wal = <<>> /\ db = <<>> /\ pages = 0
      /\ accepted = <<>> /\ refused = {} /\ lost = {} /\ inherited = 0 /\ stale = FALSE
  BY DEF Init
<1>2. TypeOK
  <2>1. /\ wal \in Seq(Rows) /\ db \in Seq(Rows) /\ accepted \in Seq(Rows)
        /\ queue \in Seq(Commands) /\ pages \in Nat /\ inherited \in Nat
        /\ refused \subseteq Rows /\ lost \subseteq Rows
    BY <1>1
  <2> QED
    BY <1>1, <2>1 DEF TypeOK
<1>3. Log = <<>>
  BY <1>1 DEF Log
<1>4. ShutdownIsLast /\ AcceptedOnce /\ InOrder /\ NothingForgotten
  BY <1>1, <1>3 DEF ShutdownIsLast, AcceptedOnce, InOrder, NothingForgotten
<1>5. AtRisk = {}
  BY <1>1 DEF AtRisk
<1>6. Cardinality({}) = 0
  BY FS_EmptySet
<1>7. pages % CheckpointEvery = 0
  <2>1. PICK c \in Nat \ {0} : c = CheckpointEvery
    BY StoreAssumption
  <2>2. 0 % c = 0
    OBVIOUS
  <2> QED
    BY <1>1, <2>1, <2>2
<1> QED
  BY <1>2, <1>4, <1>5, <1>6, <1>7 DEF StoreInv, RiskIsCounted

(* Every step keeps the invariant.                                         *)
LEMMA NextStoreInv == StoreInv /\ [Next]_vars => StoreInv'
<1> SUFFICES ASSUME StoreInv, [Next]_vars PROVE StoreInv'
  OBVIOUS
<1> USE DEF StoreInv
<1>1. TypeOK' /\ ShutdownIsLast'
  BY TypeStep, ShutdownStep
<1>2. AcceptedOnce' /\ InOrder'
  BY AcceptedStep, OrderStep
<1>3. NothingForgotten' /\ RiskIsCounted'
  BY <1>1, ForgottenStep, RiskStep
<1> QED
  BY <1>1, <1>2, <1>3

(* The invariant holds throughout.                                         *)
LEMMA StoreInvHolds == Spec => []StoreInv
  BY InitStoreInv, NextStoreInv, PTL DEF Spec

-----------------------------------------------------------------------------
(* The variables have their types, and a store that is not open has an     *)
(* empty channel: shutdown returns only once everything was taken.         *)
THEOREM StoreTypeCorrect == Spec => []TypeOK
<1>1. StoreInv => TypeOK
  BY DEF StoreInv
<1> QED
  BY <1>1, StoreInvHolds, PTL

(* However often the process is killed or the machine loses power, an      *)
(* accepted row is in the log, was refused, was taken by a crash or is     *)
(* still in the channel.                                                   *)
THEOREM NoRowForgotten == Spec => []NothingForgotten
<1>1. StoreInv => NothingForgotten
  BY DEF StoreInv
<1> QED
  BY <1>1, StoreInvHolds, PTL

(* What replay_events reads is a subsequence of what was accepted: no row  *)
(* twice, none out of order, none that nobody appended.                    *)
THEOREM ReplayIsInOrder == Spec => []ReplayKeepsTheOrder
<1>1. ASSUME StoreInv PROVE ReplayKeepsTheOrder
  <2>1. PICK L, a \in Seq(Rows) : L = Log /\ a = accepted
    BY <1>1, LogType DEF StoreInv
  <2>2. DOMAIN L = 1..Len(L) /\ DOMAIN a = 1..Len(a)
    BY <2>1
  <2>3. \A n \in 1..Len(L) : \E i \in 1..Len(a) : a[i] = L[n]
    BY <1>1, <2>1 DEF StoreInv, InOrder, WasAccepted
  <2>4. PICK order : order = [n \in DOMAIN L |-> CHOOSE i \in DOMAIN a : a[i] = L[n]]
    OBVIOUS
  <2>5. \A n \in DOMAIN L : order[n] \in DOMAIN a /\ a[order[n]] = L[n]
    BY <2>2, <2>3, <2>4
  <2>6. order \in [DOMAIN L -> DOMAIN a]
    BY <2>4, <2>5
  <2>7. ASSUME NEW n \in DOMAIN L, NEW k \in DOMAIN L, n < k PROVE order[n] < order[k]
    <3>1. PICK i, j \in 1..Len(a) : i < j /\ a[i] = L[n] /\ a[j] = L[k]
      BY <1>1, <2>1, <2>2, <2>7 DEF StoreInv, InOrder, Before
    <3>2. \A x, y \in 1..Len(a) : a[x] = a[y] => x = y
      BY <1>1, <2>1 DEF StoreInv, AcceptedOnce
    <3>3. order[n] = i /\ order[k] = j
      BY <2>2, <2>5, <3>1, <3>2
    <3> QED
      BY <3>1, <3>3
  <2> QED
    BY <2>1, <2>5, <2>6, <2>7 DEF ReplayKeepsTheOrder
<1>2. StoreInv => ReplayKeepsTheOrder
  BY <1>1
<1> QED
  BY <1>2, StoreInvHolds, PTL

(* A power failure takes fewer than CheckpointEvery of the events written  *)
(* since the store was opened, unless a checkpoint is known to have failed *)
(* since the last that succeeded.                                          *)
THEOREM PowerLossIsBounded == Spec => []FewEventsAtRisk
<1>1. ASSUME StoreInv PROVE FewEventsAtRisk
  <2>1. /\ IsFiniteSet(AtRisk) /\ Cardinality(AtRisk) \in Nat
        /\ pages % CheckpointEvery \in 0..CheckpointEvery - 1
    BY <1>1, RiskIsFinite, PagesLeft DEF StoreInv, TypeOK, AtRisk
  <2>2. PICK c \in Nat \ {0}, d \in Nat, m \in Nat :
           c = CheckpointEvery /\ d = Cardinality(AtRisk) /\ m = pages % CheckpointEvery
    BY <2>1, StoreAssumption
  <2>3. m < c /\ (d <= m => d < c)
    BY <2>1, <2>2
  <2> QED
    BY <1>1, <2>2, <2>3 DEF StoreInv, RiskIsCounted, FewEventsAtRisk
<1>2. StoreInv => FewEventsAtRisk
  BY <1>1
<1> QED
  BY <1>2, StoreInvHolds, PTL
=============================================================================
