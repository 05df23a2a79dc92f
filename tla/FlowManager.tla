----------------------------- MODULE FlowManager ------------------------------
(***************************************************************************)
(* The FlowManager task (talon flow_manager.rs): it owns the subscription  *)
(* of one symbol to the broker's tape and depth streams, keeps the order   *)
(* book, the tape and the volume and delta statistics, and publishes them. *)
(*                                                                         *)
(* Its select loop takes commands, prints, depth rows and a one-minute     *)
(* tick in any order; the two streams are two channels, so a print and a   *)
(* row of the same instant arrive in either order.  Each handler is one    *)
(* step: the subscribe calls only spawn a task and cannot fail.  A stream  *)
(* that ends or never starts is one that delivers nothing more.            *)
(***************************************************************************)
EXTENDS Integers, FiniteSets, Sequences, SequencesExt, Sums

CONSTANTS
    Symbols,       \* what the operator can select
    NoSymbol,      \* not a symbol
    Prices,        \* Prices[side]: the prices of its rows, in tenths of a cent
    PrintPrices,   \* the prices of prints; a negative one is not a number
    TapeCap,       \* TAPE_CAP (500)
    DeltaBuckets,  \* DELTA_BUCKETS (60)
    DomDepth,      \* DOM_DEPTH (20)
    QueueCap,      \* capacity of a stream's channel (1024)
    MaxPrints,     \* bound of the model: prints between two resets
    MaxDays        \* bound of the model: the days that pass

Sides == {"Bid", "Ask"}

ASSUME FlowAssumption ==
    /\ NoSymbol \notin Symbols
    /\ Prices \in [Sides -> SUBSET Nat]
    /\ PrintPrices \subseteq Int /\ IsFiniteSet(PrintPrices)
    /\ TapeCap \in Nat \ {0} /\ DeltaBuckets \in Nat \ {0} /\ DomDepth \in Nat
    /\ QueueCap \in Nat \ {0} /\ MaxPrints \in Nat /\ MaxDays \in Nat

VARIABLES
    active,       \* active_symbol; the two handles and receivers exist with it
    tapeQ,        \* the channel of prints
    depthQ,       \* the channel of depth rows
    acc,          \* the accumulated data, see Empty
    sessionDay,   \* session_date; 0 for None
    published,    \* AppState.flow
    today,        \* the date
    feed,         \* the broker's book of the symbol: a set of prices per side
    whole         \* history: the book was not cleared since the subscription

manager == <<active, acc, sessionDay, published>>
vars == <<active, tapeQ, depthQ, acc, sessionDay, published, today, feed, whole>>

(* Every print has the same size, two lots: half of it is one.             *)
Size == 2

(* A print's price that is not a number: Decimal::from_f64 gives None.     *)
IsNumber(p) == p >= 0

(* round_dp(2), from tenths of a cent: to the nearest, a half to the even. *)
RoundToCent(p) ==
    LET cent == p \div 10
        rest == p % 10
    IN  IF rest > 5 \/ (rest = 5 /\ cent % 2 = 1) THEN cent + 1 ELSE cent

Cents == {RoundToCent(p) : p \in {x \in PrintPrices : IsNumber(x)}}

(* The volume bought and sold in a bucket; none is as good as two zeros.   *)
NoVolume == [buy |-> 0, sell |-> 0]

Empty == [book       |-> [s \in Sides |-> <<>>],
          tape       |-> <<>>,
          profile    |-> [c \in Cents |-> NoVolume],
          buckets    |-> <<>>,
          bucket     |-> NoVolume,
          cumulative |-> 0]

Net(v) == v.buy - v.sell

(* What the price levels of the volume profile add up to.                  *)
Levels == SetToSeq(Cents)
Volume == SumOf([i \in DOMAIN Levels |-> acc.profile[Levels[i]].buy + acc.profile[Levels[i]].sell])
ProfileNet(profile) == SumOf([i \in DOMAIN Levels |-> Net(profile[Levels[i]])])

Snapshot(symbol, a) == [symbol |-> symbol, data |-> [a EXCEPT !.bucket = NoVolume]]
PublishSnapshot == published' = Snapshot(active', acc')

(* sort_by: best price first, rows of one price in the order they had.     *)
Better(side, p, q) == IF side = "Bid" THEN p > q ELSE p < q
PlaceOf(side, rows, i) ==
    Cardinality({j \in DOMAIN rows :
        Better(side, rows[j], rows[i]) \/ (rows[j] = rows[i] /\ j <= i)})
Sorted(side, rows) ==
    [n \in DOMAIN rows |-> rows[CHOOSE i \in DOMAIN rows : PlaceOf(side, rows, i) = n]]

Truncated(seq, n) == SubSeq(seq, 1, IF Len(seq) < n THEN Len(seq) ELSE n)

-----------------------------------------------------------------------------
(* process_depth: one operation on the rows of one side.                   *)

ProcessDepth_NotTruncated(book, raw) ==
    LET rows == book[raw.side]
        new == CASE raw.op = "Insert" -> Append(rows, raw.price)
                 [] raw.op = "Update" -> [rows EXCEPT ![raw.pos + 1] = raw.price]
                 [] raw.op = "Delete" -> RemoveAt(rows, raw.pos + 1)
    IN  [book EXCEPT ![raw.side] = Sorted(raw.side, new)]

ProcessDepth_FullRefusesInsert(book, raw) ==
    LET rows   == book[raw.side]
        exists == raw.pos < Len(rows)
        new == CASE raw.op = "Insert" /\ Len(rows) < DomDepth -> Append(rows, raw.price)
                 [] raw.op = "Update" /\ exists -> [rows EXCEPT ![raw.pos + 1] = raw.price]
                 [] raw.op = "Delete" /\ exists -> RemoveAt(rows, raw.pos + 1)
                 [] OTHER -> rows
    IN  [book EXCEPT ![raw.side] = Sorted(raw.side, new)]

ProcessDepth(book, raw) ==
    LET rows   == book[raw.side]
        exists == raw.pos < Len(rows)
        new == CASE raw.op = "Insert" /\ raw.pos <= Len(rows) ->
                      InsertAt(rows, raw.pos + 1, raw.price)
                 [] raw.op = "Insert" /\ raw.pos > Len(rows) -> Append(rows, raw.price)
                 [] raw.op = "Update" /\ exists -> [rows EXCEPT ![raw.pos + 1] = raw.price]
                 [] raw.op = "Delete" /\ exists -> RemoveAt(rows, raw.pos + 1)
                 [] OTHER -> rows
    IN  [book EXCEPT ![raw.side] = Truncated(Sorted(raw.side, new), DomDepth)]

(* process_tape: Lee-Ready classification against the book as it is now.   *)
SideOf(book, price) ==
    IF book["Bid"] = <<>> \/ book["Ask"] = <<>> THEN "Unknown"
    ELSE IF price >= Head(book["Ask"]) THEN "Buy"
    ELSE IF price <= Head(book["Bid"]) THEN "Sell"
    ELSE "Unknown"

Traded(v, side) ==
    CASE side = "Buy"  -> [v EXCEPT !.buy = @ + Size]
      [] side = "Sell" -> [v EXCEPT !.sell = @ + Size]
      [] OTHER -> v

(* An unclassified print is split evenly in the profile.                   *)
Profiled(v, side) ==
    IF side = "Unknown"
    THEN [buy |-> v.buy + Size \div 2, sell |-> v.sell + Size \div 2]
    ELSE Traded(v, side)

WithPrint(profile, price, side) ==
    [profile EXCEPT ![RoundToCent(price)] = Profiled(@, side)]

ProcessTape(a, raw) ==
    LET side == SideOf(a.book, raw.price)
    IN  IF ~IsNumber(raw.price) THEN a
        ELSE [a EXCEPT
                !.tape       = Truncated(<<[price |-> raw.price, of |-> raw.of, on |-> today,
                                         side |-> side]>> \o @, TapeCap),
                !.profile    = WithPrint(@, raw.price, side),
                !.bucket     = Traded(@, side),
                !.cumulative = @ + Net(Traded(NoVolume, side))]

-----------------------------------------------------------------------------
Init ==
    /\ active = NoSymbol
    /\ tapeQ = <<>>
    /\ depthQ = <<>>
    /\ acc = Empty
    /\ sessionDay = 0
    /\ published = Snapshot(NoSymbol, Empty)     \* FlowSnapshot::default()
    /\ today = 1
    /\ feed = [s \in Sides |-> {}]
    /\ whole = TRUE

(* Both receivers are dropped or replaced: what they held is lost, and the *)
(* broker begins a book anew for the new stream.                           *)
Resubscribe(s) ==
    /\ active' = s
    /\ tapeQ' = <<>>
    /\ depthQ' = <<>>
    /\ feed' = [x \in Sides |-> {}]
    /\ whole' = TRUE

SelectSymbol_KeepsReceivers(s) ==
    /\ s # active
    /\ active' = s
    /\ acc' = Empty
    /\ UNCHANGED <<tapeQ, depthQ, feed, whole, sessionDay, today>>
    /\ PublishSnapshot

(* subscribe_to; for the symbol already selected it returns at once.       *)
SelectSymbol(s) ==
    /\ s # active
    /\ Resubscribe(s)
    /\ acc' = Empty
    /\ UNCHANGED <<sessionDay, today>>
    /\ PublishSnapshot

ClearSymbol_Unpublished ==
    /\ Resubscribe(NoSymbol)
    /\ acc' = Empty
    /\ UNCHANGED <<sessionDay, published, today>>

ClearSymbol ==
    /\ Resubscribe(NoSymbol)
    /\ acc' = Empty
    /\ UNCHANGED <<sessionDay, today>>
    /\ PublishSnapshot

ResetAccumulators_KeepsTheBucket ==
    /\ acc' = [Empty EXCEPT !.bucket = acc.bucket]
    /\ whole' = FALSE
    /\ UNCHANGED <<active, tapeQ, depthQ, sessionDay, today, feed>>
    /\ PublishSnapshot

(* The book is cleared with the rest, the streams are kept.                *)
ResetAccumulators ==
    /\ acc' = Empty
    /\ whole' = FALSE
    /\ UNCHANGED <<active, tapeQ, depthQ, sessionDay, today, feed>>
    /\ PublishSnapshot

(* check_session_reset, which only a print triggers.                       *)
IsNewSession == sessionDay # 0 /\ sessionDay # today

HandlePrint ==
    /\ tapeQ # <<>>
    /\ tapeQ' = Tail(tapeQ)
    /\ acc' = ProcessTape(IF IsNewSession THEN Empty ELSE acc, Head(tapeQ))
    /\ whole' = (whole /\ ~IsNewSession)
    /\ sessionDay' = today
    /\ UNCHANGED <<active, depthQ, today, feed>>
    /\ PublishSnapshot

HandleRow ==
    /\ depthQ # <<>>
    /\ depthQ' = Tail(depthQ)
    /\ acc' = [acc EXCEPT !.book = ProcessDepth(@, Head(depthQ))]
    /\ UNCHANGED <<active, tapeQ, sessionDay, today, feed, whole>>
    /\ PublishSnapshot

(* rotate_delta_bucket, every minute while a symbol is selected.           *)
RotateDeltaBucket ==
    /\ active # NoSymbol
    /\ acc' = [acc EXCEPT !.buckets = Truncated(<<Net(acc.bucket)>> \o @, DeltaBuckets),
                          !.bucket = NoVolume]
    /\ UNCHANGED <<active, tapeQ, depthQ, sessionDay, today, feed, whole>>
    /\ PublishSnapshot

-----------------------------------------------------------------------------
(* The broker's side of the two streams (external), and the calendar.      *)

PrintArrives(p) ==
    /\ active # NoSymbol
    /\ Len(tapeQ) < QueueCap
    /\ Volume + Size * Len(tapeQ) < Size * MaxPrints
    /\ tapeQ' = Append(tapeQ, [price |-> p, of |-> active])
    /\ UNCHANGED <<manager, depthQ, today, feed, whole>>

Ladder(side, S) == Sorted(side, SetToSeq(S))
Position(side, S, p) == Cardinality({q \in S : Better(side, q, p)})

RowArrives(op, side, pos, price, S) ==
    /\ active # NoSymbol
    /\ Len(depthQ) < QueueCap
    /\ depthQ' = Append(depthQ, [op |-> op, side |-> side, pos |-> pos, price |-> price])
    /\ feed' = [feed EXCEPT ![side] = S]
    /\ UNCHANGED <<manager, tapeQ, today, whole>>

(* A row inserted into a full ladder pushes the deepest one off it.        *)
RowInserted(side, p) ==
    LET S == feed[side]
    IN  /\ p \notin S
        /\ Position(side, S, p) < DomDepth
        /\ RowArrives("Insert", side, Position(side, S, p), p,
                      ToSet(Truncated(Ladder(side, S \cup {p}), DomDepth)))

RowDeleted(side, p) ==
    /\ p \in feed[side]
    /\ RowArrives("Delete", side, Position(side, feed[side], p), p, feed[side] \ {p})

(* A row moves to a price that keeps its place in the ladder.              *)
RowUpdated(side, p, q) ==
    LET S == feed[side]
        T == (S \ {p}) \cup {q}
    IN  /\ p \in S /\ q \notin S
        /\ Position(side, T, q) = Position(side, S, p)
        /\ RowArrives("Update", side, Position(side, S, p), q, T)

NewDay ==
    /\ today < MaxDays
    /\ today' = today + 1
    /\ UNCHANGED <<manager, tapeQ, depthQ, feed, whole>>

Next ==
    \/ \E s \in Symbols : SelectSymbol(s)
    \/ ClearSymbol
    \/ ResetAccumulators
    \/ HandlePrint
    \/ HandleRow
    \/ RotateDeltaBucket
    \/ \E p \in PrintPrices : PrintArrives(p)
    \/ \E side \in Sides : \E p \in Prices[side] :
          \/ RowInserted(side, p)
          \/ RowDeleted(side, p)
          \/ \E q \in Prices[side] : RowUpdated(side, p, q)
    \/ NewDay

Spec == Init /\ [][Next]_vars

-----------------------------------------------------------------------------
(* The variables have their types, and the book, the tape, the sparkline   *)
(* and the channels stay within their capacities.                          *)
TypeOK ==
    /\ active \in Symbols \cup {NoSymbol}
    /\ Len(tapeQ) <= QueueCap /\ Len(depthQ) <= QueueCap
    /\ DOMAIN acc = DOMAIN Empty
    /\ \A s \in Sides : acc.book[s] \in Seq(Prices[s]) /\ Len(acc.book[s]) <= DomDepth
    /\ Len(acc.tape) <= TapeCap
    /\ acc.profile \in [Cents -> [buy : Nat, sell : Nat]]
    /\ acc.buckets \in Seq(Int) /\ Len(acc.buckets) <= DeltaBuckets
    /\ acc.bucket \in [buy : Nat, sell : Nat]
    /\ acc.cumulative \in Int
    /\ sessionDay \in 0..today

(* A book after each of the rows that follow it, and after all of them.    *)
Replay(book, rows) ==
    LET b[k \in 0..Len(rows)] == IF k = 0 THEN book ELSE ProcessDepth(b[k - 1], rows[k])
    IN  b
Replayed(book, rows) == Replay(book, rows)[Len(rows)]

(* The book is the broker's book but for the rows still in the channel:    *)
(* replaying those rows over it gives the broker's ladder, as long as it   *)
(* was not cleared under the running stream (process_depth).               *)
BookCatchesUp ==
    whole => Replayed(acc.book, depthQ) = [s \in Sides |-> Ladder(s, feed[s])]

(* Three records of the same prints agree: the cumulative delta is what    *)
(* the volume profile nets to, and, until the sparkline drops a minute,    *)
(* what its minutes and the running one add up to (process_tape,           *)
(* rotate_delta_bucket, reset_accumulators).                               *)
DeltasReconcile ==
    /\ acc.cumulative = ProfileNet(acc.profile)
    /\ Len(acc.buckets) < DeltaBuckets =>
          acc.cumulative = SumOf(acc.buckets) + Net(acc.bucket)

(* Everything accumulated is of the selected symbol and of one trading     *)
(* day, in every interleaving of selections with prints still in flight    *)
(* (subscribe_to, check_session_reset).                                    *)
OneSymbolOneSession ==
    \A e \in ToSet(acc.tape) : e.of = active /\ e.on = sessionDay

(* What the operator's Flow tab reads is what the manager holds: no        *)
(* handler returns with a change unpublished (run, publish_snapshot).      *)
PublishedIsCurrent == published = Snapshot(active, acc)
=============================================================================
