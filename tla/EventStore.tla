------------------------------ MODULE EventStore ------------------------------
(***************************************************************************)
(* The event store (talon-db store.rs): callers hand rows to a channel, a  *)
(* thread of its own writes them to SQLite, and replay reads them back     *)
(* after a restart.  append returns before anything is written, a failed   *)
(* insert is only logged, and the process or the machine can stop between  *)
(* any two steps.                                                          *)
(*                                                                         *)
(* SQLite (external) runs in WAL mode with synchronous=NORMAL: a commit    *)
(* survives the end of the process, and survives a power failure once it   *)
(* is checkpointed; a power failure takes a suffix of the WAL.             *)
(***************************************************************************)
EXTENDS Integers, FiniteSets, Sequences, SequencesExt

CONSTANTS
    Events,           \* the events that can be appended, each once
    Snapshots,        \* the portfolio snapshots that can be saved, each once
    CheckpointEvery   \* events between two automatic checkpoints (1000)

ASSUME StoreAssumption ==
    /\ IsFiniteSet(Events) /\ IsFiniteSet(Snapshots)
    /\ Events \cap Snapshots = {}
    /\ {"Checkpoint", "Shutdown"} \cap (Events \cup Snapshots) = {}
    /\ CheckpointEvery \in Nat \ {0}

Rows == Events \cup Snapshots

VARIABLES
    handle,     \* the EventStore value: "open", "closing" in shutdown, "none"
    queue,      \* the channel: rows and the two other commands
    wal, db,    \* the rows committed to the WAL, and those checkpointed
    pages,      \* page_count
    accepted,   \* history: the rows whose append or save returned Ok
    refused,    \* history: the rows whose insert failed
    lost,       \* history: the accepted rows that a crash took
    inherited,  \* history: the length of the WAL when the store was opened
    stale       \* history: a checkpoint failed and none succeeded since

files == <<wal, db>>
vars == <<handle, queue, wal, db, pages, accepted, refused, lost, inherited, stale>>

Commands == Rows \cup {"Checkpoint", "Shutdown"}

(* What replay_events and load_latest_portfolio_snapshot read: both tables *)
(* in the order of their ids.                                              *)
Log == db \o wal
ReplayEvents == SelectSeq(Log, LAMBDA r : r \in Events)

-----------------------------------------------------------------------------
Init ==
    /\ handle = "open"
    /\ queue = <<>>
    /\ wal = <<>> /\ db = <<>>
    /\ pages = 0
    /\ accepted = <<>>
    /\ refused = {} /\ lost = {}
    /\ inherited = 0
    /\ stale = FALSE

(* append and save_portfolio_snapshot: the channel is unbounded.           *)
AppendRow(r) ==
    /\ handle = "open"
    /\ r \notin ToSet(accepted)
    /\ queue' = Append(queue, r)
    /\ accepted' = Append(accepted, r)
    /\ UNCHANGED <<handle, files, pages, refused, lost, inherited, stale>>

RequestCheckpoint ==
    /\ handle = "open"
    /\ "Checkpoint" \notin ToSet(queue)        \* bound of the model
    /\ queue' = Append(queue, "Checkpoint")
    /\ UNCHANGED <<handle, files, pages, accepted, refused, lost, inherited, stale>>

Shutdown_ByReference ==
    /\ handle = "open"
    /\ "Shutdown" \notin ToSet(queue)
    /\ queue' = Append(queue, "Shutdown")
    /\ UNCHANGED <<handle, files, pages, accepted, refused, lost, inherited, stale>>

(* shutdown consumes the handle, so nothing is accepted after it, and      *)
(* joins the thread.                                                       *)
Shutdown ==
    /\ handle = "open"
    /\ handle' = "closing"
    /\ queue' = Append(queue, "Shutdown")
    /\ UNCHANGED <<files, pages, accepted, refused, lost, inherited, stale>>

-----------------------------------------------------------------------------
(* writer_loop.                                                            *)

(* run_checkpoint over the rows w: it moves them all, or fails and says so *)
(* only in the log.                                                        *)
RunCheckpoint(w) ==
    \/ /\ db' = db \o w /\ wal' = <<>>
       /\ inherited' = 0 /\ stale' = FALSE
    \/ /\ wal' = w /\ stale' = TRUE
       /\ UNCHANGED <<db, inherited>>

IsEvent(r) == r \in Events

Due_Never(n) == FALSE
Due(n) == n % CheckpointEvery = 0

(* The row is inserted, or not: the writer goes on either way, and counts  *)
(* an event it could not insert.                                           *)
Write(r) ==
    \E inserted \in BOOLEAN :
        LET w == IF inserted THEN Append(wal, r) ELSE wal
            n == IF IsEvent(r) THEN pages + 1 ELSE pages
        IN  /\ pages' = n
            /\ refused' = IF inserted THEN refused ELSE refused \cup {r}
            /\ IF IsEvent(r) /\ Due(n) THEN RunCheckpoint(w)
               ELSE wal' = w /\ UNCHANGED <<db, inherited, stale>>

WriterRow_RetriesLater ==
    /\ queue # <<>> /\ Head(queue) \in Rows
    /\ \/ /\ Write(Head(queue))
          /\ queue' = Tail(queue)
       \/ /\ queue' = Append(Tail(queue), Head(queue))
          /\ UNCHANGED <<files, pages, refused, inherited, stale>>
    /\ UNCHANGED <<handle, accepted, lost>>

WriterRow ==
    /\ queue # <<>> /\ Head(queue) \in Rows
    /\ Write(Head(queue))
    /\ queue' = Tail(queue)
    /\ UNCHANGED <<handle, accepted, lost>>

WriterCheckpoint ==
    /\ queue # <<>> /\ Head(queue) = "Checkpoint"
    /\ RunCheckpoint(wal)
    /\ queue' = Tail(queue)
    /\ UNCHANGED <<handle, pages, accepted, refused, lost>>

WriterShutdown_FirstThing ==
    /\ "Shutdown" \in ToSet(queue)
    /\ RunCheckpoint(wal)
    /\ queue' = <<>>
    /\ handle' = "none"
    /\ UNCHANGED <<pages, accepted, refused, lost>>

(* The last command: the thread ends, and shutdown returns from the join.  *)
WriterShutdown ==
    /\ queue # <<>> /\ Head(queue) = "Shutdown"
    /\ RunCheckpoint(wal)
    /\ queue' = Tail(queue)
    /\ handle' = "none"
    /\ UNCHANGED <<pages, accepted, refused, lost>>

-----------------------------------------------------------------------------
(* The process ends without shutdown, killed or by an error that leaves    *)
(* main early: what the thread has not written is gone.                    *)
ProcessEnds ==
    /\ handle # "none"
    /\ handle' = "none"
    /\ queue' = <<>>
    /\ lost' = lost \cup (ToSet(queue) \cap Rows)
    /\ UNCHANGED <<files, pages, accepted, refused, inherited, stale>>

(* The machine loses power: rows not checkpointed can be gone as well, the *)
(* newest first.                                                           *)
PowerFails ==
    \E kept \in 0..Len(wal) :
        /\ handle' = "none"
        /\ queue' = <<>>
        /\ wal' = SubSeq(wal, 1, kept)
        /\ lost' = lost \cup ((ToSet(queue) \cup ToSet(SubSeq(wal, kept + 1, Len(wal)))) \cap Rows)
        /\ UNCHANGED <<db, pages, accepted, refused, inherited, stale>>

(* open: the WAL is recovered as it is.                                    *)
Open ==
    /\ handle = "none"
    /\ handle' = "open"
    /\ pages' = 0
    /\ inherited' = Len(wal)
    /\ UNCHANGED <<queue, files, accepted, refused, lost, stale>>

Writer == WriterRow \/ WriterCheckpoint \/ WriterShutdown

Next ==
    \/ \E r \in Rows : AppendRow(r)
    \/ RequestCheckpoint
    \/ Shutdown
    \/ Writer
    \/ ProcessEnds
    \/ PowerFails
    \/ Open

(* The writer is a thread that only ever waits for the channel.            *)
Spec == Init /\ [][Next]_vars /\ WF_vars(Writer)

-----------------------------------------------------------------------------
(* The variables have their types; the channel is empty without a store.   *)
TypeOK ==
    /\ handle \in {"open", "closing", "none"}
    /\ queue \in Seq(Commands)
    /\ {wal, db, accepted} \subseteq Seq(Rows)
    /\ pages \in Nat
    /\ {refused, lost} \subseteq SUBSET Rows
    /\ inherited \in Nat
    /\ stale \in BOOLEAN
    /\ handle = "none" => queue = <<>>

Settled == ToSet(Log) \cup refused \cup lost

(* What is replayed was accepted, in the order in which it was accepted    *)
(* and no row twice, after any number of crashes and restarts              *)
(* (writer_loop, replay_events).                                           *)
ReplayKeepsTheOrder ==
    \E order \in [DOMAIN Log -> DOMAIN accepted] :
        /\ \A n \in DOMAIN Log : accepted[order[n]] = Log[n]
        /\ \A n, k \in DOMAIN Log : n < k => order[n] < order[k]

(* A row that was accepted is in the log, or its insert failed, or a crash *)
(* took it; in particular a shutdown that returned left nothing behind in  *)
(* the channel (shutdown, writer_loop).                                    *)
NothingForgotten ==
    \A n \in DOMAIN accepted : accepted[n] \in Settled \cup ToSet(queue)

(* Where in the WAL the events written since the store was opened are.     *)
AtRisk == {n \in inherited + 1..Len(wal) : IsEvent(wal[n])}

(* A power failure costs less than CheckpointEvery of the events written   *)
(* since the store was opened, unless a checkpoint failed (writer_loop).   *)
FewEventsAtRisk == stale \/ Cardinality(AtRisk) < CheckpointEvery

(* Everything accepted is settled in the end, without any further call.    *)
EventuallySettled ==
    \A r \in Rows : r \in ToSet(accepted) ~> r \in Settled
=============================================================================
