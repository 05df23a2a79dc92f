--------------------------- MODULE FlowManagerProofs --------------------------
(***************************************************************************)
(* What TLAPS proves of the FlowManager: its types and capacities, that    *)
(* what it holds is of one symbol and one session and is published, that   *)
(* its three records of the volume agree, and that its order book follows  *)
(* the broker's.                                                           *)
(***************************************************************************)
EXTENDS FlowManager, SumTheorems, FunctionTheorems, FiniteSetTheorems

-----------------------------------------------------------------------------
(* The inductive invariant.                                                *)

Prints == [price : PrintPrices, of : Symbols]
RawRows == [op : {"Insert", "Update", "Delete"}, side : Sides, pos : Nat, price : Nat]

(* The channels hold prints of the selected symbol and rows of its book.   *)
StreamsAreTyped ==
    /\ tapeQ \in Seq(Prints) /\ depthQ \in Seq(RawRows)
    /\ \A n \in 1..Len(tapeQ) : tapeQ[n].of = active
    /\ \A n \in 1..Len(depthQ) : depthQ[n].price \in Prices[depthQ[n].side]
    /\ active \in Symbols \cup {NoSymbol}
    /\ active = NoSymbol => tapeQ = <<>> /\ depthQ = <<>>
    /\ Len(tapeQ) <= QueueCap /\ Len(depthQ) <= QueueCap
    /\ today \in Nat /\ sessionDay \in 0..today

Volumes == [buy : Nat, sell : Nat]
TapeRows == [price : Int, of : Symbols, on : Nat, side : {"Buy", "Sell", "Unknown"}]

Accumulated(a) ==
    /\ a \in [book : [Sides -> Seq(Nat)], tape : Seq(TapeRows), profile : [Cents -> Volumes],
              buckets : Seq(Int), bucket : Volumes, cumulative : Int]
    /\ \A s \in Sides : a.book[s] \in Seq(Prices[s]) /\ Len(a.book[s]) <= DomDepth
    /\ Len(a.tape) <= TapeCap /\ Len(a.buckets) <= DeltaBuckets

(* Prints are on the tape only of the session that is dated.               *)
TapeIsCurrent ==
    \A n \in 1..Len(acc.tape) :
        acc.tape[n].of = active /\ acc.tape[n].on = sessionDay /\ sessionDay # 0

FeedIsTyped ==
    /\ feed \in [Sides -> SUBSET Nat]
    /\ \A s \in Sides : feed[s] \subseteq Prices[s] /\ IsFiniteSet(feed[s])

FlowInv ==
    /\ StreamsAreTyped /\ FeedIsTyped
    /\ Accumulated(acc) /\ TapeIsCurrent /\ today # 0
    /\ DeltasReconcile /\ PublishedIsCurrent

-----------------------------------------------------------------------------
(* Sequences.                                                              *)

(* A truncated sequence is the beginning of the sequence. *)
LEMMA Truncation ==
    ASSUME NEW S, NEW s \in Seq(S), NEW n \in Nat
    PROVE  /\ Truncated(s, n) \in Seq(S) /\ Len(Truncated(s, n)) \in 0..n
           /\ Len(Truncated(s, n)) <= Len(s)
           /\ \A k \in 1..Len(Truncated(s, n)) : k \in 1..Len(s) /\ Truncated(s, n)[k] = s[k]
           /\ Len(Truncated(s, n)) < n => Truncated(s, n) = s
<1>1. PICK m \in Nat : m = IF Len(s) < n THEN Len(s) ELSE n
  OBVIOUS
<1>2. m <= Len(s) /\ m <= n /\ Len(s) \in Nat /\ (m < n => m = Len(s))
  BY <1>1
<1>3. PICK t : t = SubSeq(s, 1, m)
  OBVIOUS
<1>4. /\ t \in Seq(S) /\ Len(t) = m
      /\ \A k \in 1..m : t[k] = s[k]
  BY <1>2, <1>3
<1>5. m = Len(s) => t = s
  BY <1>2, <1>4
<1>6. Truncated(s, n) = t
  BY <1>1, <1>3 DEF Truncated
<1>7. \A k \in 1..m : k \in 1..Len(s)
  BY <1>2
<1> QED
  BY <1>2, <1>4, <1>5, <1>6, <1>7

(* A tape with one more print in front.                                    *)
LEMMA Prepended ==
    ASSUME NEW S, NEW x \in S, NEW s \in Seq(S)
    PROVE  /\ <<x>> \o s \in Seq(S) /\ Len(<<x>> \o s) = Len(s) + 1
           /\ \A k \in 1..Len(s) + 1 :
                 \/ (<<x>> \o s)[k] = x
                 \/ \E j \in 1..Len(s) : (<<x>> \o s)[k] = s[j]
<1>1. <<x>> \in Seq(S) /\ Len(<<x>>) = 1 /\ <<x>>[1] = x /\ Len(s) \in Nat
  OBVIOUS
<1>2. /\ <<x>> \o s \in Seq(S) /\ Len(<<x>> \o s) = 1 + Len(s)
      /\ \A k \in 1..1 + Len(s) : (<<x>> \o s)[k] = IF k <= 1 THEN <<x>>[k] ELSE s[k - 1]
  BY <1>1, ConcatProperties
<1>3. ASSUME NEW k \in 1..Len(s) + 1
      PROVE  \/ (<<x>> \o s)[k] = x
             \/ \E j \in 1..Len(s) : (<<x>> \o s)[k] = s[j]
  <2>1. CASE k = 1
    BY <1>1, <1>2, <2>1
  <2>2. CASE k # 1
    <3>1. k - 1 \in 1..Len(s) /\ ~(k <= 1) /\ k \in 1..1 + Len(s)
      BY <1>1, <1>3, <2>2
    <3> QED
      BY <1>2, <3>1
  <2> QED
    BY <2>1, <2>2
<1> QED
  BY <1>1, <1>2, <1>3

(* A channel after its first message was taken.                            *)
LEMMA FirstRest ==
    ASSUME NEW S, NEW s \in Seq(S), s # <<>>
    PROVE  /\ Head(s) \in S /\ Tail(s) \in Seq(S)
           /\ 1 \in 1..Len(s) /\ Head(s) = s[1]
           /\ Len(s) \in Nat /\ Len(Tail(s)) = Len(s) - 1
           /\ \A k \in 1..Len(Tail(s)) : k + 1 \in 1..Len(s) /\ Tail(s)[k] = s[k + 1]
  OBVIOUS

(* A row inserted among the others.                                        *)
LEMMA Inserted ==
    ASSUME NEW S, NEW s \in Seq(S), NEW e \in S, NEW i \in 1..Len(s) + 1
    PROVE  InsertAt(s, i, e) \in Seq(S)
<1>1. SubSeq(s, 1, i - 1) \in Seq(S) /\ SubSeq(s, i, Len(s)) \in Seq(S) /\ <<e>> \in Seq(S)
  OBVIOUS
<1>2. SubSeq(s, 1, i - 1) \o <<e>> \in Seq(S)
  BY <1>1, ConcatProperties
<1> QED
  BY <1>1, <1>2, ConcatProperties DEF InsertAt

(* A row removed from among the others.                                    *)
LEMMA Removed ==
    ASSUME NEW S, NEW s \in Seq(S), NEW i \in 1..Len(s)
    PROVE  RemoveAt(s, i) \in Seq(S)
<1>1. SubSeq(s, 1, i - 1) \in Seq(S) /\ SubSeq(s, i + 1, Len(s)) \in Seq(S)
  OBVIOUS
<1> QED
  BY <1>1, ConcatProperties DEF RemoveAt

-----------------------------------------------------------------------------
(* Sorting: every place in the book is some row's.                         *)
LEMMA PlacesAreTaken ==
    ASSUME NEW side, NEW rows \in Seq(Nat), NEW n \in 1..Len(rows)
    PROVE  \E i \in DOMAIN rows : PlaceOf(side, rows, i) = n
<1>0. PICK N \in Nat : N = Len(rows)
  OBVIOUS
<1>1. DOMAIN rows = 1..N /\ \A i \in 1..N : rows[i] \in Nat
  <2>1. DOMAIN rows = 1..N
    BY <1>0
  <2>2. \A i \in 1..N : rows[i] \in Nat
    BY <1>0
  <2> QED
    BY <2>1, <2>2
<1> DEFINE A(i) == {j \in 1..N : Better(side, rows[j], rows[i]) \/ (rows[j] = rows[i] /\ j <= i)}
           P == [i \in 1..N |-> Cardinality(A(i))]
<1>2. IsFiniteSet(1..N) /\ Cardinality(1..N) = N
  BY <1>1, FS_Interval
<1>3. ASSUME NEW i \in 1..N
      PROVE  IsFiniteSet(A(i)) /\ Cardinality(A(i)) \in 1..N
  <2>1. A(i) \in SUBSET (1..N) /\ i \in A(i)
    BY <1>1, <1>3
  <2> HIDE DEF A
  <2>2. IsFiniteSet(A(i)) /\ Cardinality(A(i)) <= N
    BY <1>2, <2>1, FS_Subset
  <2>3. Cardinality(A(i)) \in Nat /\ Cardinality(A(i)) # 0
    BY <2>1, <2>2, FS_CardinalityType, FS_EmptySet
  <2> QED
    BY <1>1, <2>2, <2>3
<1>4. ASSUME NEW i \in 1..N, NEW k \in 1..N, Better(side, rows[i], rows[k]) \/ (rows[i] = rows[k] /\ i < k)
      PROVE  Cardinality(A(i)) # Cardinality(A(k))
  <2>1. k \in A(k) /\ k \notin A(i)
    BY <1>1, <1>4 DEF Better
  <2>2. A(i) \in SUBSET A(k)
    BY <1>1, <1>4 DEF Better
  <2> HIDE DEF A
  <2> QED
    BY <1>3, <2>1, <2>2, FS_Subset
<1>5. ASSUME NEW i \in 1..N, NEW k \in 1..N, P[i] = P[k] PROVE i = k
  <2>1. SUFFICES ASSUME i # k PROVE FALSE
    OBVIOUS
  <2>2. \/ Better(side, rows[i], rows[k]) \/ (rows[i] = rows[k] /\ i < k)
        \/ Better(side, rows[k], rows[i]) \/ (rows[k] = rows[i] /\ k < i)
    BY <1>1, <2>1 DEF Better
  <2> HIDE DEF A
  <2> QED
    BY <1>4, <1>5, <2>2
<1>6. P \in [1..N -> 1..N]
  BY <1>3
<1>7. P \in Injection(1..N, 1..N)
  BY <1>5, <1>6 DEF Injection, IsInjective
<1> HIDE DEF P
<1>8. P \in Surjection(1..N, 1..N)
  BY <1>2, <1>7, FS_Injection
<1>9. PICK i \in 1..N : P[i] = n
  BY <1>0, <1>8 DEF Surjection
<1> QED
  BY <1>1, <1>9 DEF P, PlaceOf

(* Sorting keeps the rows.                                                 *)
LEMMA SortedType ==
    ASSUME NEW side, NEW S \in SUBSET Nat, NEW rows \in Seq(S)
    PROVE  Sorted(side, rows) \in Seq(S) /\ Len(Sorted(side, rows)) = Len(rows)
<1>1. rows \in Seq(Nat) /\ DOMAIN rows = 1..Len(rows) /\ Len(rows) \in Nat
  <2>1. Len(rows) \in Nat /\ DOMAIN rows = 1..Len(rows) /\ rows \in [1..Len(rows) -> S]
    OBVIOUS
  <2>2. rows \in [1..Len(rows) -> Nat]
    BY <2>1
  <2> QED
    BY <2>1, <2>2
<1>2. PICK b : b = Sorted(side, rows)
  OBVIOUS
<1>3. ASSUME NEW n \in 1..Len(rows) PROVE b[n] \in S
  <2>1. (CHOOSE i \in DOMAIN rows : PlaceOf(side, rows, i) = n) \in DOMAIN rows
    BY <1>1, <1>3, PlacesAreTaken
  <2>2. b[n] = rows[CHOOSE i \in DOMAIN rows : PlaceOf(side, rows, i) = n]
    BY <1>1, <1>2, <1>3 DEF Sorted
  <2> QED
    BY <1>1, <2>1, <2>2
<1>4. DOMAIN b = 1..Len(rows) /\ b = [n \in 1..Len(rows) |-> b[n]]
  BY <1>1, <1>2 DEF Sorted
<1>5. b \in [1..Len(rows) -> S]
  BY <1>3, <1>4
<1> QED
  BY <1>1, <1>2, <1>5

(* One operation on the book leaves it a book.                             *)
LEMMA DepthType ==
    ASSUME NEW book \in [Sides -> Seq(Nat)], NEW raw \in RawRows, raw.price \in Prices[raw.side],
           \A s \in Sides : book[s] \in Seq(Prices[s]) /\ Len(book[s]) <= DomDepth
    PROVE  /\ ProcessDepth(book, raw) \in [Sides -> Seq(Nat)]
           /\ \A s \in Sides : /\ ProcessDepth(book, raw)[s] \in Seq(Prices[s])
                               /\ Len(ProcessDepth(book, raw)[s]) <= DomDepth
<1>1. PICK P : P = Prices[raw.side] /\ P \in SUBSET Nat
  BY FlowAssumption DEF RawRows
<1>2. PICK rows \in Seq(P) : rows = book[raw.side]
  BY <1>1 DEF RawRows
<1>3. raw.pos \in Nat /\ Len(rows) \in Nat /\ raw.price \in P /\ raw.side \in Sides
  BY <1>1 DEF RawRows
<1>4. PICK new : new = CASE raw.op = "Insert" /\ raw.pos <= Len(rows) ->
                               InsertAt(rows, raw.pos + 1, raw.price)
                          [] raw.op = "Insert" /\ raw.pos > Len(rows) -> Append(rows, raw.price)
                          [] raw.op = "Update" /\ raw.pos < Len(rows) ->
                               [rows EXCEPT ![raw.pos + 1] = raw.price]
                          [] raw.op = "Delete" /\ raw.pos < Len(rows) -> RemoveAt(rows, raw.pos + 1)
                          [] OTHER -> rows
  OBVIOUS
<1>5. new \in Seq(P)
  <2>1. CASE raw.op = "Insert" /\ raw.pos <= Len(rows)
    <3>1. raw.pos + 1 \in 1..Len(rows) + 1
      BY <1>3, <2>1
    <3>2. new = InsertAt(rows, raw.pos + 1, raw.price)
      BY <1>3, <1>4, <2>1
    <3> QED
      BY <1>3, <3>1, <3>2, Inserted
  <2>2. CASE raw.op = "Insert" /\ raw.pos > Len(rows)
    <3>1. new = Append(rows, raw.price)
      BY <1>3, <1>4, <2>2
    <3> QED
      BY <1>3, <3>1
  <2>3. CASE raw.op = "Update" /\ raw.pos < Len(rows)
    <3>1. new = [rows EXCEPT ![raw.pos + 1] = raw.price]
      BY <1>3, <1>4, <2>3
    <3>2. rows \in [1..Len(rows) -> P]
      OBVIOUS
    <3>3. new \in [1..Len(rows) -> P]
      BY <1>3, <3>1, <3>2
    <3> QED
      BY <1>3, <3>3
  <2>4. CASE raw.op = "Delete" /\ raw.pos < Len(rows)
    <3>1. raw.pos + 1 \in 1..Len(rows)
      BY <1>3, <2>4
    <3>2. new = RemoveAt(rows, raw.pos + 1)
      BY <1>3, <1>4, <2>4
    <3> QED
      BY <3>1, <3>2, Removed
  <2>5. CASE /\ ~(raw.op = "Insert" /\ raw.pos <= Len(rows))
             /\ ~(raw.op = "Insert" /\ raw.pos > Len(rows))
             /\ ~(raw.op = "Update" /\ raw.pos < Len(rows))
             /\ ~(raw.op = "Delete" /\ raw.pos < Len(rows))
    <3>1. new = rows
      BY <1>4, <2>5
    <3> QED
      BY <3>1
  <2> QED
    BY <2>1, <2>2, <2>3, <2>4, <2>5
<1>6. PICK b \in Seq(P) : b = Truncated(Sorted(raw.side, new), DomDepth) /\ Len(b) <= DomDepth
  <2>1. Sorted(raw.side, new) \in Seq(P)
    BY <1>1, <1>5, SortedType
  <2>2. DomDepth \in Nat
    BY FlowAssumption
  <2> QED
    BY <2>1, <2>2, Truncation
<1>7. ProcessDepth(book, raw) = [book EXCEPT ![raw.side] = b]
  BY <1>2, <1>4, <1>6 DEF ProcessDepth
<1>8. b \in Seq(Nat)
  BY <1>1, <1>6
<1> QED
  BY <1>1, <1>3, <1>6, <1>7, <1>8

-----------------------------------------------------------------------------
(* The volume profile.                                                     *)

(* The prints' prices round to finitely many cents. *)
LEMMA CentsAreFinite == IsFiniteSet(Cents)
<1> DEFINE D == {x \in PrintPrices : IsNumber(x)}
           f == [x \in D |-> RoundToCent(x)]
<1>1. D \in SUBSET PrintPrices
  OBVIOUS
<1>2. IsFiniteSet(D)
  BY <1>1, FlowAssumption, FS_Subset
<1>3. \A c \in Cents : \E x \in D : f[x] = c
  BY DEF Cents
<1>4. f \in [D -> Cents]
  BY DEF Cents
<1>5. f \in Surjection(D, Cents)
  BY <1>3, <1>4 DEF Surjection
<1> QED
  BY <1>2, <1>5, FS_Surjection

(* A finite set's members, each once, in some order.                       *)
LEMMA SetAsSequence ==
    ASSUME NEW S, IsFiniteSet(S)
    PROVE  /\ SetToSeq(S) \in Seq(S)
           /\ \A c \in S : \E i \in 1..Len(SetToSeq(S)) : SetToSeq(S)[i] = c
           /\ \A i, j \in 1..Len(SetToSeq(S)) : SetToSeq(S)[i] = SetToSeq(S)[j] => i = j
<1>1. PICK n \in Nat : n = Cardinality(S) /\ ExistsBijection(1..n, S)
  BY FS_CardinalityType
<1>2. PICK b \in [1..n -> S] : IsInjective(b)
  BY <1>1 DEF ExistsBijection, Bijection, Injection
<1>3. PICK l : l = SetToSeq(S)
  OBVIOUS
<1>4. l = CHOOSE f \in [1..n -> S] : IsInjective(f)
  BY <1>1, <1>3 DEF SetToSeq
<1>5. l \in [1..n -> S] /\ IsInjective(l)
  BY <1>2, <1>4
<1>6. l \in Injection(1..n, S) /\ IsFiniteSet(1..n) /\ Cardinality(1..n) = n
  BY <1>5, FS_Interval DEF Injection
<1>7. l \in Surjection(1..n, S)
  BY <1>1, <1>6, FS_Injection
<1>8. l \in Seq(S) /\ Len(l) = n
  BY <1>5
<1>9. \A c \in S : \E i \in 1..n : l[i] = c
  BY <1>7 DEF Surjection
<1>10. \A i, j \in 1..n : l[i] = l[j] => i = j
  BY <1>5 DEF IsInjective
<1> QED
  BY <1>3, <1>8, <1>9, <1>10

(* Every cent has one place among the levels.                              *)
LEMMA LevelsAre ==
    /\ Levels \in Seq(Cents)
    /\ \A c \in Cents : \E i \in 1..Len(Levels) : Levels[i] = c
    /\ \A i, j \in 1..Len(Levels) : Levels[i] = Levels[j] => i = j
  BY CentsAreFinite, SetAsSequence DEF Levels

(* Adding to one price level moves the net of the profile by as much.      *)
LEMMA ProfileNetMoves ==
    ASSUME NEW profile \in [Cents -> Volumes], NEW c \in Cents, NEW v \in Volumes, NEW d \in Int,
           Net(v) = Net(profile[c]) + d
    PROVE  /\ ProfileNet(profile) \in Int
           /\ ProfileNet([profile EXCEPT ![c] = v]) = ProfileNet(profile) + d
<1>1. PICK n, l : n \in Nat /\ n = Len(l) /\ l = Levels /\ DOMAIN l = 1..n
  <2>1. Levels \in Seq(Cents)
    BY LevelsAre
  <2> QED
    BY <2>1
<1>2. \A i \in 1..n : l[i] \in Cents
  BY <1>1, LevelsAre
<1> DEFINE f == [i \in 1..n |-> Net(profile[l[i]])]
           g == [i \in 1..n |-> Net([profile EXCEPT ![c] = v][l[i]])]
<1>3. \A x \in Volumes : Net(x) \in Int
  BY DEF Volumes, Net
<1>4. \A i \in 1..n : profile[l[i]] \in Volumes /\ [profile EXCEPT ![c] = v][l[i]] \in Volumes
  BY <1>2
<1>5. f \in Seq(Int) /\ g \in Seq(Int) /\ Len(f) = n /\ Len(g) = n
  <2>1. f \in [1..n -> Int] /\ g \in [1..n -> Int]
    BY <1>3, <1>4
  <2> QED
    BY <1>1, <2>1
<1>6. PICK i \in 1..n : l[i] = c
  BY <1>1, LevelsAre
<1>7. \A k \in 1..n : k # i => l[k] # c
  BY <1>1, <1>6, LevelsAre
<1>8. g[i] = f[i] + d
  BY <1>6
<1>9. \A k \in 1..n : k # i => g[k] = f[k]
  BY <1>2, <1>7
<1>10. ProfileNet(profile) = SumOf(f) /\ ProfileNet([profile EXCEPT ![c] = v]) = SumOf(g)
  BY <1>1 DEF ProfileNet
<1> HIDE DEF f, g
<1>11. SumOf(f) \in Int
  BY <1>5, SumType
<1>12. SumOf(g) = SumOf(f) + d
  <2>1. i \in 1..Len(f) /\ Len(g) = Len(f) /\ \A k \in 1..Len(f) : k # i => g[k] = f[k]
    BY <1>5, <1>9
  <2> QED
    BY <1>5, <1>8, <2>1, SumOfReplaced
<1> QED
  BY <1>10, <1>11, <1>12

(* An empty profile nets to nothing.                                       *)
LEMMA EmptyNet == ProfileNet([c \in Cents |-> NoVolume]) = 0
<1>1. PICK n, l : n \in Nat /\ n = Len(l) /\ l = Levels /\ DOMAIN l = 1..n
  <2>1. Levels \in Seq(Cents)
    BY LevelsAre
  <2> QED
    BY <2>1
<1>2. \A i \in 1..n : l[i] \in Cents
  BY <1>1, LevelsAre
<1> DEFINE f == [i \in 1..n |-> Net([c \in Cents |-> NoVolume][l[i]])]
<1>3. \A i \in 1..n : f[i] = 0
  BY <1>2 DEF Net, NoVolume
<1>4. ProfileNet([c \in Cents |-> NoVolume]) = SumOf(f)
  BY <1>1 DEF ProfileNet
<1>5. f \in Seq(Int) /\ Len(f) = n
  <2>1. f \in [1..n -> Int]
    BY <1>3
  <2> QED
    BY <1>1, <2>1
<1> HIDE DEF f
<1> QED
  BY <1>3, <1>4, <1>5, SumOfZeros

-----------------------------------------------------------------------------
(* What the handlers do to the accumulated data.                           *)

Reconciled(a) ==
    /\ a.cumulative = ProfileNet(a.profile)
    /\ Len(a.buckets) < DeltaBuckets => a.cumulative = SumOf(a.buckets) + Net(a.bucket)

(* Data that was reset is typed and reconciled.                            *)
LEMMA EmptyIsSound == Accumulated(Empty) /\ Reconciled(Empty) /\ Empty.tape = <<>>
<1>1. NoVolume \in Volumes /\ Net(NoVolume) = 0
  BY DEF NoVolume, Volumes, Net
<1>2. /\ Empty.book = [s \in Sides |-> <<>>] /\ Empty.tape = <<>>
      /\ Empty.profile = [c \in Cents |-> NoVolume] /\ Empty.buckets = <<>>
      /\ Empty.bucket = NoVolume /\ Empty.cumulative = 0
  BY DEF Empty
<1>3. /\ Empty.book \in [Sides -> Seq(Nat)] /\ Empty.tape \in Seq(TapeRows)
      /\ Empty.profile \in [Cents -> Volumes] /\ Empty.buckets \in Seq(Int)
      /\ Empty.bucket \in Volumes /\ Empty.cumulative \in Int
  BY <1>1, <1>2
<1>4. \A s \in Sides : Empty.book[s] \in Seq(Prices[s]) /\ Len(Empty.book[s]) <= DomDepth
  BY <1>2, FlowAssumption
<1>5. Len(Empty.tape) <= TapeCap /\ Len(Empty.buckets) <= DeltaBuckets
  BY <1>2, FlowAssumption
<1>6. Accumulated(Empty)
  BY <1>3, <1>4, <1>5 DEF Accumulated, Empty
<1>7. Reconciled(Empty)
  BY <1>1, <1>2, EmptyNet, SumOfNone DEF Reconciled
<1> QED
  BY <1>2, <1>6, <1>7

(* The types of the accumulated data, field by field.                      *)
LEMMA FieldsOf ==
    ASSUME NEW a, Accumulated(a)
    PROVE  /\ a.book \in [Sides -> Seq(Nat)] /\ a.tape \in Seq(TapeRows)
           /\ a.profile \in [Cents -> Volumes] /\ a.buckets \in Seq(Int)
           /\ a.bucket \in Volumes /\ a.cumulative \in Int
  BY DEF Accumulated

(* A print moves the cumulative delta, the minute and its price level by   *)
(* the same amount.                                                        *)
LEMMA TradedMoves ==
    ASSUME NEW v \in Volumes, NEW side \in {"Buy", "Sell", "Unknown"}
    PROVE  /\ Traded(v, side) \in Volumes /\ Profiled(v, side) \in Volumes
           /\ Net(Traded(NoVolume, side)) \in Int
           /\ Net(Traded(v, side)) = Net(v) + Net(Traded(NoVolume, side))
           /\ Net(Profiled(v, side)) = Net(v) + Net(Traded(NoVolume, side))
<1>1. v.buy \in Nat /\ v.sell \in Nat /\ v = [buy |-> v.buy, sell |-> v.sell]
  BY DEF Volumes
<1>2. CASE side = "Buy"
  <2>1. Traded(v, side) = [buy |-> v.buy + 2, sell |-> v.sell]
    BY <1>1, <1>2 DEF Traded, Size, Volumes
  <2>2. Traded(NoVolume, side) = [buy |-> 2, sell |-> 0]
    BY <1>2 DEF Traded, Size, NoVolume
  <2>3. Profiled(v, side) = Traded(v, side)
    BY <1>2 DEF Profiled
  <2> QED
    BY <1>1, <2>1, <2>2, <2>3 DEF Net, Volumes
<1>3. CASE side = "Sell"
  <2>1. Traded(v, side) = [buy |-> v.buy, sell |-> v.sell + 2]
    BY <1>1, <1>3 DEF Traded, Size, Volumes
  <2>2. Traded(NoVolume, side) = [buy |-> 0, sell |-> 2]
    BY <1>3 DEF Traded, Size, NoVolume
  <2>3. Profiled(v, side) = Traded(v, side)
    BY <1>3 DEF Profiled
  <2> QED
    BY <1>1, <2>1, <2>2, <2>3 DEF Net, Volumes
<1>4. CASE side = "Unknown"
  <2>1. Traded(v, side) = v
    BY <1>4 DEF Traded
  <2>2. Traded(NoVolume, side) = [buy |-> 0, sell |-> 0]
    BY <1>4 DEF Traded, NoVolume
  <2>3. Profiled(v, side) = [buy |-> v.buy + 1, sell |-> v.sell + 1]
    BY <1>4 DEF Profiled, Size
  <2> QED
    BY <1>1, <2>1, <2>2, <2>3 DEF Net, Volumes
<1> QED
  BY <1>2, <1>3, <1>4

(* process_tape keeps the data in order and adds only its own print.       *)
LEMMA TapeStep ==
    ASSUME NEW a, Accumulated(a), Reconciled(a), NEW raw \in Prints, today \in Nat
    PROVE  /\ Accumulated(ProcessTape(a, raw)) /\ Reconciled(ProcessTape(a, raw))
           /\ ProcessTape(a, raw).book = a.book
           /\ \A n \in 1..Len(ProcessTape(a, raw).tape) :
                 LET e == ProcessTape(a, raw).tape[n]
                 IN  \/ e.of = raw.of /\ e.on = today
                     \/ \E k \in 1..Len(a.tape) : e = a.tape[k]
<1>1. PICK side \in {"Buy", "Sell", "Unknown"} : side = SideOf(a.book, raw.price)
  BY DEF SideOf
<1>2. CASE ~IsNumber(raw.price)
  <2>1. ProcessTape(a, raw) = a
    BY <1>2 DEF ProcessTape
  <2> QED
    BY <2>1
<1>3. CASE IsNumber(raw.price)
  <2>1. raw.price \in PrintPrices /\ raw.of \in Symbols /\ raw.price \in Int
    BY FlowAssumption DEF Prints
  <2>2. PICK c \in Cents : c = RoundToCent(raw.price)
    BY <1>3, <2>1 DEF Cents
  <2>3. PICK x \in TapeRows : x = [price |-> raw.price, of |-> raw.of, on |-> today, side |-> side]
    BY <2>1 DEF TapeRows
  <2>4. /\ a.book \in [Sides -> Seq(Nat)] /\ a.tape \in Seq(TapeRows)
        /\ a.profile \in [Cents -> Volumes] /\ a.buckets \in Seq(Int)
        /\ a.bucket \in Volumes /\ a.cumulative \in Int
    BY FieldsOf
  <2>5. <<x>> \o a.tape \in Seq(TapeRows)
    BY <2>4, Prepended
  <2>6. PICK t \in Seq(TapeRows) : t = Truncated(<<x>> \o a.tape, TapeCap)
    BY <2>5, FlowAssumption, Truncation
  <2>7. /\ Len(t) \in 0..TapeCap
        /\ \A n \in 1..Len(t) : t[n] = x \/ \E k \in 1..Len(a.tape) : t[n] = a.tape[k]
    <3>1. /\ Len(t) \in 0..TapeCap
          /\ \A n \in 1..Len(t) : n \in 1..Len(<<x>> \o a.tape) /\ t[n] = (<<x>> \o a.tape)[n]
      BY <2>5, <2>6, FlowAssumption, Truncation
    <3>2. /\ Len(<<x>> \o a.tape) = Len(a.tape) + 1
          /\ \A n \in 1..Len(a.tape) + 1 :
                \/ (<<x>> \o a.tape)[n] = x
                \/ \E k \in 1..Len(a.tape) : (<<x>> \o a.tape)[n] = a.tape[k]
      BY <2>4, Prepended
    <3> QED
      BY <3>1, <3>2
  <2>8. PICK d \in Int : d = Net(Traded(NoVolume, side))
    BY <2>4, TradedMoves
  <2>9. PICK v \in Volumes, w \in Volumes :
           /\ v = Profiled(a.profile[c], side) /\ Net(v) = Net(a.profile[c]) + d
           /\ w = Traded(a.bucket, side) /\ Net(w) = Net(a.bucket) + d
    <3>1. a.profile[c] \in Volumes
      BY <2>4
    <3>2. /\ Profiled(a.profile[c], side) \in Volumes
          /\ Net(Profiled(a.profile[c], side)) = Net(a.profile[c]) + d
      BY <2>8, <3>1, TradedMoves
    <3>3. /\ Traded(a.bucket, side) \in Volumes
          /\ Net(Traded(a.bucket, side)) = Net(a.bucket) + d
      BY <2>4, <2>8, TradedMoves
    <3> QED
      BY <3>2, <3>3
  <2>10. PICK r : r = ProcessTape(a, raw)
    OBVIOUS
  <2>11. r = [a EXCEPT !.tape = t, !.profile = [a.profile EXCEPT ![c] = v], !.bucket = w,
                       !.cumulative = a.cumulative + d]
    <3>1. r = LET sd == SideOf(a.book, raw.price) IN
             [a EXCEPT
                 !.tape = Truncated(<<[price |-> raw.price, of |-> raw.of, on |-> today,
                                       side |-> sd]>> \o a.tape, TapeCap),
                 !.profile = WithPrint(a.profile, raw.price, sd),
                 !.bucket = Traded(a.bucket, sd),
                 !.cumulative = a.cumulative + Net(Traded(NoVolume, sd))]
      BY <1>3, <2>10 DEF ProcessTape
    <3>2. r = [a EXCEPT
                 !.tape = Truncated(<<[price |-> raw.price, of |-> raw.of, on |-> today,
                                       side |-> side]>> \o a.tape, TapeCap),
                 !.profile = WithPrint(a.profile, raw.price, side),
                 !.bucket = Traded(a.bucket, side),
                 !.cumulative = a.cumulative + Net(Traded(NoVolume, side))]
      BY <1>1, <3>1
    <3>3. WithPrint(a.profile, raw.price, side) = [a.profile EXCEPT ![c] = v]
      BY <2>2, <2>9 DEF WithPrint
    <3> QED
      BY <2>3, <2>6, <2>8, <2>9, <3>2, <3>3
  <2>12. /\ r.book = a.book /\ r.tape = t /\ r.profile = [a.profile EXCEPT ![c] = v]
         /\ r.buckets = a.buckets /\ r.bucket = w /\ r.cumulative = a.cumulative + d
         /\ r \in [book : [Sides -> Seq(Nat)], tape : Seq(TapeRows), profile : [Cents -> Volumes],
                   buckets : Seq(Int), bucket : Volumes, cumulative : Int]
    <3>1. a = [book |-> a.book, tape |-> a.tape, profile |-> a.profile, buckets |-> a.buckets,
               bucket |-> a.bucket, cumulative |-> a.cumulative]
      BY DEF Accumulated
    <3>2. r = [book |-> a.book, tape |-> t, profile |-> [a.profile EXCEPT ![c] = v],
               buckets |-> a.buckets, bucket |-> w, cumulative |-> a.cumulative + d]
      BY <2>11, <3>1
    <3>3. [a.profile EXCEPT ![c] = v] \in [Cents -> Volumes] /\ a.cumulative + d \in Int
      BY <2>4
    <3> QED
      BY <2>4, <3>2, <3>3
  <2>13. Accumulated(r)
    <3>1. Len(t) <= TapeCap
      BY <2>7, FlowAssumption
    <3> QED
      BY <2>12, <3>1 DEF Accumulated
  <2>14. Reconciled(r)
    <3>1. /\ ProfileNet(a.profile) \in Int
          /\ ProfileNet([a.profile EXCEPT ![c] = v]) = ProfileNet(a.profile) + d
      BY <2>4, <2>9, ProfileNetMoves
    <3>2. r.cumulative = ProfileNet(r.profile)
      BY <2>12, <3>1 DEF Reconciled
    <3>3. ASSUME Len(r.buckets) < DeltaBuckets PROVE r.cumulative = SumOf(r.buckets) + Net(r.bucket)
      <4>1. SumOf(a.buckets) \in Int /\ Net(a.bucket) \in Int
        BY <2>4, SumType DEF Net, Volumes
      <4>2. a.cumulative = SumOf(a.buckets) + Net(a.bucket)
        BY <2>12, <3>3 DEF Reconciled
      <4>3. PICK p, q \in Int : p = SumOf(a.buckets) /\ q = Net(a.bucket)
        BY <4>1
      <4>4. (p + q) + d = p + (q + d)
        OBVIOUS
      <4> QED
        BY <2>9, <2>12, <4>2, <4>3, <4>4
    <3> QED
      BY <3>2, <3>3 DEF Reconciled
  <2>15. \A n \in 1..Len(r.tape) :
            \/ r.tape[n].of = raw.of /\ r.tape[n].on = today
            \/ \E k \in 1..Len(a.tape) : r.tape[n] = a.tape[k]
    BY <2>3, <2>7, <2>12
  <2> QED
    BY <2>10, <2>12, <2>13, <2>14, <2>15
<1> QED
  BY <1>2, <1>3

(* A depth row changes the book only.                                      *)
LEMMA RowStep ==
    ASSUME NEW a, Accumulated(a), Reconciled(a), NEW raw \in RawRows,
           raw.price \in Prices[raw.side]
    PROVE  LET b == [a EXCEPT !.book = ProcessDepth(@, raw)]
           IN  Accumulated(b) /\ Reconciled(b) /\ b.tape = a.tape
<1>1. PICK k : k = ProcessDepth(a.book, raw)
  OBVIOUS
<1>2. /\ a.book \in [Sides -> Seq(Nat)] /\ a.tape \in Seq(TapeRows)
      /\ a.profile \in [Cents -> Volumes] /\ a.buckets \in Seq(Int)
      /\ a.bucket \in Volumes /\ a.cumulative \in Int
  BY FieldsOf
<1>3. k \in [Sides -> Seq(Nat)] /\ \A s \in Sides : k[s] \in Seq(Prices[s]) /\ Len(k[s]) <= DomDepth
  BY <1>1, <1>2, DepthType DEF Accumulated
<1>4. a = [book |-> a.book, tape |-> a.tape, profile |-> a.profile, buckets |-> a.buckets,
           bucket |-> a.bucket, cumulative |-> a.cumulative]
  BY DEF Accumulated
<1>5. PICK b : b = [a EXCEPT !.book = k]
  OBVIOUS
<1>6. b = [book |-> k, tape |-> a.tape, profile |-> a.profile, buckets |-> a.buckets,
           bucket |-> a.bucket, cumulative |-> a.cumulative]
  BY <1>4, <1>5
<1>7. Accumulated(b)
  BY <1>2, <1>3, <1>6 DEF Accumulated
<1>8. Reconciled(b) /\ b.tape = a.tape
  BY <1>6 DEF Reconciled
<1> QED
  BY <1>1, <1>5, <1>7, <1>8

(* The minute that ends becomes the first bucket of the sparkline.         *)
LEMMA RotateStep ==
    ASSUME NEW a, Accumulated(a), Reconciled(a)
    PROVE  LET b == [a EXCEPT !.buckets = Truncated(<<Net(a.bucket)>> \o @, DeltaBuckets),
                              !.bucket = NoVolume]
           IN  Accumulated(b) /\ Reconciled(b) /\ b.tape = a.tape
<1>1. /\ a.book \in [Sides -> Seq(Nat)] /\ a.tape \in Seq(TapeRows)
      /\ a.profile \in [Cents -> Volumes] /\ a.buckets \in Seq(Int)
      /\ a.bucket \in Volumes /\ a.cumulative \in Int
  BY FieldsOf
<1>2. PICK d \in Int : d = Net(a.bucket)
  BY <1>1 DEF Net, Volumes
<1>3. <<d>> \o a.buckets \in Seq(Int) /\ Len(<<d>> \o a.buckets) = Len(a.buckets) + 1
  BY <1>1, Prepended
<1>4. PICK t \in Seq(Int) :
         /\ t = Truncated(<<d>> \o a.buckets, DeltaBuckets)
         /\ Len(t) \in 0..DeltaBuckets
         /\ Len(t) < DeltaBuckets => t = <<d>> \o a.buckets
  BY <1>3, FlowAssumption, Truncation
<1>5. a = [book |-> a.book, tape |-> a.tape, profile |-> a.profile, buckets |-> a.buckets,
           bucket |-> a.bucket, cumulative |-> a.cumulative]
  BY DEF Accumulated
<1>6. PICK b : b = [a EXCEPT !.buckets = t, !.bucket = NoVolume]
  OBVIOUS
<1>7. b = [book |-> a.book, tape |-> a.tape, profile |-> a.profile, buckets |-> t,
           bucket |-> NoVolume, cumulative |-> a.cumulative]
  BY <1>5, <1>6
<1>8. NoVolume \in Volumes /\ Net(NoVolume) = 0
  BY DEF NoVolume, Volumes, Net
<1>9. Accumulated(b)
  <2>1. Len(t) <= DeltaBuckets
    BY <1>4, FlowAssumption
  <2> QED
    BY <1>1, <1>4, <1>7, <1>8, <2>1 DEF Accumulated
<1>10. Reconciled(b)
  <2>1. ASSUME Len(t) < DeltaBuckets PROVE a.cumulative = SumOf(t) + Net(NoVolume)
    <3>1. PICK n \in Nat, m \in Nat : n = Len(a.buckets) /\ m = DeltaBuckets
      BY <1>1, FlowAssumption
    <3>2. n + 1 < m
      BY <1>3, <1>4, <2>1, <3>1
    <3>3. n < m
      BY <3>2
    <3>4. a.cumulative = SumOf(a.buckets) + d
      BY <1>2, <3>1, <3>3 DEF Reconciled
    <3>5. SumOf(t) = d + SumOf(a.buckets)
      BY <1>1, <1>4, <2>1, SumOfPrepend
    <3>6. PICK p \in Int : p = SumOf(a.buckets)
      BY <1>1, SumType
    <3>7. (d + p) + 0 = p + d
      OBVIOUS
    <3> QED
      BY <1>8, <3>4, <3>5, <3>6, <3>7
  <2> QED
    BY <1>7, <2>1 DEF Reconciled
<1>11. b.tape = a.tape
  BY <1>7
<1> QED
  BY <1>2, <1>4, <1>6, <1>9, <1>10, <1>11

-----------------------------------------------------------------------------
(* The steps.                                                              *)

(* Every command clears the accumulators and publishes. *)
LEMMA RunCommandStep ==
    ASSUME FlowInv, \/ \E s \in Symbols : SelectSymbol(s)
                    \/ ClearSymbol \/ ResetAccumulators
    PROVE  FlowInv'
<1>1. /\ acc' = Empty /\ sessionDay' = sessionDay /\ today' = today
      /\ published' = Snapshot(active', acc')
  BY DEF SelectSymbol, ClearSymbol, ResetAccumulators, PublishSnapshot
<1>2. StreamsAreTyped' /\ FeedIsTyped'
  <2>1. ASSUME NEW s \in Symbols \cup {NoSymbol}, Resubscribe(s)
        PROVE  StreamsAreTyped' /\ FeedIsTyped'
    <3>1. /\ active' = s /\ tapeQ' = <<>> /\ depthQ' = <<>>
          /\ feed' = [x \in Sides |-> {}]
      BY <2>1 DEF Resubscribe
    <3>2. QueueCap \in Nat
      BY FlowAssumption
    <3>3. StreamsAreTyped'
      BY <1>1, <3>1, <3>2 DEF FlowInv, StreamsAreTyped
    <3>4. FeedIsTyped'
      BY <3>1, FS_EmptySet DEF FeedIsTyped
    <3> QED
      BY <3>3, <3>4
  <2>2. CASE ResetAccumulators
    BY <1>1, <2>2 DEF ResetAccumulators, FlowInv, StreamsAreTyped, FeedIsTyped
  <2> QED
    BY <2>1, <2>2 DEF SelectSymbol, ClearSymbol
<1>3. Accumulated(acc)' /\ Reconciled(acc)' /\ TapeIsCurrent'
  BY <1>1, EmptyIsSound DEF TapeIsCurrent
<1> QED
  BY <1>1, <1>2, <1>3 DEF FlowInv, DeltasReconcile, Reconciled, PublishedIsCurrent

(* A print keeps the invariant, on a new day too.                          *)
LEMMA HandlePrintStep ==
    ASSUME FlowInv, HandlePrint
    PROVE  FlowInv'
<1>1. /\ tapeQ # <<>> /\ tapeQ' = Tail(tapeQ)
      /\ acc' = ProcessTape(IF IsNewSession THEN Empty ELSE acc, Head(tapeQ))
      /\ sessionDay' = today
      /\ active' = active /\ depthQ' = depthQ /\ today' = today /\ feed' = feed
      /\ published' = Snapshot(active', acc')
  BY DEF HandlePrint, PublishSnapshot
<1>2. /\ tapeQ \in Seq(Prints) /\ \A n \in 1..Len(tapeQ) : tapeQ[n].of = active
      /\ today \in Nat \ {0} /\ sessionDay \in 0..today
  BY DEF FlowInv, StreamsAreTyped
<1>3. /\ Head(tapeQ) \in Prints /\ Tail(tapeQ) \in Seq(Prints)
      /\ Head(tapeQ).of = active
      /\ Len(tapeQ) \in Nat /\ Len(Tail(tapeQ)) = Len(tapeQ) - 1
      /\ \A k \in 1..Len(Tail(tapeQ)) : Tail(tapeQ)[k].of = active
  <2>1. /\ Head(tapeQ) \in Prints /\ Tail(tapeQ) \in Seq(Prints)
        /\ 1 \in 1..Len(tapeQ) /\ Head(tapeQ) = tapeQ[1]
        /\ Len(tapeQ) \in Nat /\ Len(Tail(tapeQ)) = Len(tapeQ) - 1
        /\ \A k \in 1..Len(Tail(tapeQ)) : k + 1 \in 1..Len(tapeQ) /\ Tail(tapeQ)[k] = tapeQ[k + 1]
    BY <1>1, <1>2, FirstRest
  <2> QED
    BY <1>2, <2>1
<1>4. StreamsAreTyped'
  <2>1. Len(tapeQ') <= QueueCap
    <3>1. PICK m \in Nat, q \in Nat : m = Len(tapeQ) /\ q = QueueCap
      BY <1>3, FlowAssumption
    <3>2. m <= q
      BY <3>1 DEF FlowInv, StreamsAreTyped
    <3>3. m - 1 <= q
      BY <3>1, <3>2
    <3> QED
      BY <1>1, <1>3, <3>1, <3>3
  <2>2. sessionDay' \in 0..today'
    BY <1>1, <1>2
  <2>3. active # NoSymbol
    BY <1>1 DEF FlowInv, StreamsAreTyped
  <2> QED
    BY <1>1, <1>3, <2>1, <2>2, <2>3 DEF FlowInv, StreamsAreTyped
<1>5. PICK a : a = IF IsNewSession THEN Empty ELSE acc
  OBVIOUS
<1>6. Accumulated(a) /\ Reconciled(a)
  <2>1. Accumulated(acc) /\ Reconciled(acc)
    BY DEF FlowInv, DeltasReconcile, Reconciled
  <2> QED
    BY <1>5, <2>1, EmptyIsSound
<1>7. \A n \in 1..Len(a.tape) : a.tape[n].of = active /\ a.tape[n].on = today
  <2>1. CASE IsNewSession
    BY <1>5, <2>1, EmptyIsSound
  <2>2. CASE ~IsNewSession
    BY <1>5, <2>2 DEF IsNewSession, FlowInv, TapeIsCurrent
  <2> QED
    BY <2>1, <2>2
<1>8. acc' = ProcessTape(a, Head(tapeQ))
  BY <1>1, <1>5
<1>9. /\ Accumulated(acc') /\ Reconciled(acc')
      /\ \A n \in 1..Len(acc'.tape) :
            \/ acc'.tape[n].of = active /\ acc'.tape[n].on = today
            \/ \E k \in 1..Len(a.tape) : acc'.tape[n] = a.tape[k]
  <2>1. PICK raw \in Prints : raw = Head(tapeQ) /\ raw.of = active
    BY <1>3
  <2>2. today \in Nat
    BY <1>2
  <2>3. /\ Accumulated(ProcessTape(a, raw)) /\ Reconciled(ProcessTape(a, raw))
        /\ \A n \in 1..Len(ProcessTape(a, raw).tape) :
              LET e == ProcessTape(a, raw).tape[n]
              IN  \/ e.of = raw.of /\ e.on = today
                  \/ \E k \in 1..Len(a.tape) : e = a.tape[k]
    BY <1>6, <2>2, TapeStep
  <2>4. PICK b : b = ProcessTape(a, raw)
    OBVIOUS
  <2>5. acc' = b
    BY <1>8, <2>1, <2>4
  <2>6. Accumulated(b) /\ Reconciled(b)
    BY <2>3, <2>4
  <2>7. ASSUME NEW n \in 1..Len(b.tape)
        PROVE  \/ b.tape[n].of = active /\ b.tape[n].on = today
               \/ \E k \in 1..Len(a.tape) : b.tape[n] = a.tape[k]
    BY <2>1, <2>3, <2>4
  <2>8. Accumulated(acc') /\ Reconciled(acc')
    BY <2>5, <2>6
  <2>9. \A n \in 1..Len(acc'.tape) :
           \/ acc'.tape[n].of = active /\ acc'.tape[n].on = today
           \/ \E k \in 1..Len(a.tape) : acc'.tape[n] = a.tape[k]
    BY <2>5, <2>7
  <2> QED
    BY <2>8, <2>9
<1>10. TapeIsCurrent'
  <2>1. ASSUME NEW n \in 1..Len(acc'.tape)
        PROVE  acc'.tape[n].of = active /\ acc'.tape[n].on = today
    <3>1. CASE acc'.tape[n].of = active /\ acc'.tape[n].on = today
      BY <3>1
    <3>2. CASE \E k \in 1..Len(a.tape) : acc'.tape[n] = a.tape[k]
      BY <1>7, <3>2
    <3> QED
      BY <1>9, <3>1, <3>2
  <2>2. active' = active /\ sessionDay' = today /\ today # 0
    BY <1>1, <1>2
  <2> QED
    BY <2>1, <2>2 DEF TapeIsCurrent
<1>11. FeedIsTyped'
  BY <1>1 DEF FlowInv, FeedIsTyped
<1> QED
  BY <1>1, <1>2, <1>4, <1>9, <1>10, <1>11 DEF FlowInv, DeltasReconcile, Reconciled, PublishedIsCurrent

(* A depth row keeps the invariant.                                        *)
LEMMA HandleRowStep ==
    ASSUME FlowInv, HandleRow
    PROVE  FlowInv'
<1>1. /\ depthQ # <<>> /\ depthQ' = Tail(depthQ)
      /\ acc' = [acc EXCEPT !.book = ProcessDepth(@, Head(depthQ))]
      /\ active' = active /\ tapeQ' = tapeQ /\ sessionDay' = sessionDay
      /\ today' = today /\ feed' = feed
      /\ published' = Snapshot(active', acc')
  BY DEF HandleRow, PublishSnapshot
<1>2. /\ depthQ \in Seq(RawRows)
      /\ \A n \in 1..Len(depthQ) : depthQ[n].price \in Prices[depthQ[n].side]
  BY DEF FlowInv, StreamsAreTyped
<1>3. /\ Head(depthQ) \in RawRows /\ Tail(depthQ) \in Seq(RawRows)
      /\ Head(depthQ).price \in Prices[Head(depthQ).side]
      /\ Len(depthQ) \in Nat /\ Len(Tail(depthQ)) = Len(depthQ) - 1
      /\ \A k \in 1..Len(Tail(depthQ)) : Tail(depthQ)[k].price \in Prices[Tail(depthQ)[k].side]
  <2>1. /\ Head(depthQ) \in RawRows /\ Tail(depthQ) \in Seq(RawRows)
        /\ 1 \in 1..Len(depthQ) /\ Head(depthQ) = depthQ[1]
        /\ Len(depthQ) \in Nat /\ Len(Tail(depthQ)) = Len(depthQ) - 1
        /\ \A k \in 1..Len(Tail(depthQ)) : k + 1 \in 1..Len(depthQ) /\ Tail(depthQ)[k] = depthQ[k + 1]
    BY <1>1, <1>2, FirstRest
  <2> QED
    BY <1>2, <2>1
<1>4. StreamsAreTyped'
  <2>1. Len(depthQ') <= QueueCap
    <3>1. PICK m \in Nat, q \in Nat : m = Len(depthQ) /\ q = QueueCap
      BY <1>3, FlowAssumption
    <3>2. m <= q
      BY <3>1 DEF FlowInv, StreamsAreTyped
    <3>3. m - 1 <= q
      BY <3>1, <3>2
    <3> QED
      BY <1>1, <1>3, <3>1, <3>3
  <2>2. active # NoSymbol
    BY <1>1 DEF FlowInv, StreamsAreTyped
  <2> QED
    BY <1>1, <1>3, <2>1, <2>2 DEF FlowInv, StreamsAreTyped
<1>5. Accumulated(acc) /\ Reconciled(acc)
  BY DEF FlowInv, DeltasReconcile, Reconciled
<1>6. Accumulated(acc') /\ Reconciled(acc') /\ acc'.tape = acc.tape
  BY <1>1, <1>3, <1>5, RowStep
<1>7. TapeIsCurrent' /\ FeedIsTyped'
  BY <1>1, <1>6 DEF FlowInv, TapeIsCurrent, FeedIsTyped
<1> QED
  BY <1>1, <1>4, <1>6, <1>7 DEF FlowInv, DeltasReconcile, Reconciled, PublishedIsCurrent

(* The minute tick keeps the invariant.                                    *)
LEMMA RotateDeltaBucketStep ==
    ASSUME FlowInv, RotateDeltaBucket
    PROVE  FlowInv'
<1>1. /\ acc' = [acc EXCEPT !.buckets = Truncated(<<Net(acc.bucket)>> \o @, DeltaBuckets),
                            !.bucket = NoVolume]
      /\ active' = active /\ tapeQ' = tapeQ /\ depthQ' = depthQ /\ sessionDay' = sessionDay
      /\ today' = today /\ feed' = feed
      /\ published' = Snapshot(active', acc')
  BY DEF RotateDeltaBucket, PublishSnapshot
<1>2. Accumulated(acc) /\ Reconciled(acc)
  BY DEF FlowInv, DeltasReconcile, Reconciled
<1>3. Accumulated(acc') /\ Reconciled(acc') /\ acc'.tape = acc.tape
  BY <1>1, <1>2, RotateStep
<1>4. StreamsAreTyped' /\ TapeIsCurrent' /\ FeedIsTyped'
  BY <1>1, <1>3 DEF FlowInv, StreamsAreTyped, TapeIsCurrent, FeedIsTyped
<1> QED
  BY <1>1, <1>3, <1>4 DEF FlowInv, DeltasReconcile, Reconciled, PublishedIsCurrent

(* Adding at the end keeps what was there.                                 *)
LEMMA Appended ==
    ASSUME NEW S, NEW s \in Seq(S), NEW x \in S, NEW t, t = Append(s, x)
    PROVE  /\ t \in Seq(S) /\ Len(t) = Len(s) + 1 /\ Len(s) \in Nat
           /\ \A k \in 1..Len(t) : t[k] = x \/ (k \in 1..Len(s) /\ t[k] = s[k])
  OBVIOUS

(* A step that leaves the manager alone keeps what is said of it alone.    *)
LEMMA ManagerRests ==
    ASSUME FlowInv, UNCHANGED manager
    PROVE  /\ Accumulated(acc)' /\ TapeIsCurrent'
           /\ DeltasReconcile' /\ PublishedIsCurrent'
  BY DEF FlowInv, manager, Accumulated, TapeIsCurrent, DeltasReconcile, PublishedIsCurrent

(* A print arrives, of the selected symbol.                                *)
LEMMA PrintArrivesStep ==
    ASSUME FlowInv, NEW p \in PrintPrices, PrintArrives(p)
    PROVE  FlowInv'
<1>1. /\ active # NoSymbol /\ Len(tapeQ) < QueueCap
      /\ tapeQ' = Append(tapeQ, [price |-> p, of |-> active])
      /\ UNCHANGED manager /\ active' = active /\ sessionDay' = sessionDay
      /\ depthQ' = depthQ /\ today' = today /\ feed' = feed
  BY DEF PrintArrives, manager
<1>2. /\ tapeQ \in Seq(Prints) /\ \A n \in 1..Len(tapeQ) : tapeQ[n].of = active
      /\ active \in Symbols
  BY <1>1 DEF FlowInv, StreamsAreTyped
<1>a. PICK x : x = [price |-> p, of |-> active]
  OBVIOUS
<1>3. x \in Prints /\ x.of = active
  BY <1>2, <1>a DEF Prints
<1>b. tapeQ' = Append(tapeQ, x)
  BY <1>1, <1>a
<1>4. /\ tapeQ' \in Seq(Prints) /\ Len(tapeQ') = Len(tapeQ) + 1 /\ Len(tapeQ) \in Nat
      /\ \A k \in 1..Len(tapeQ') : tapeQ'[k] = x \/ (k \in 1..Len(tapeQ) /\ tapeQ'[k] = tapeQ[k])
  BY <1>2, <1>3, <1>b, Appended
<1>5. Len(tapeQ') <= QueueCap
  <2>1. PICK m \in Nat, q \in Nat : m = Len(tapeQ) /\ q = QueueCap
    BY <1>4, FlowAssumption
  <2>2. m + 1 <= q
    BY <1>1, <2>1
  <2> QED
    BY <1>4, <2>1, <2>2
<1>6. \A k \in 1..Len(tapeQ') : tapeQ'[k].of = active
  BY <1>2, <1>3, <1>4
<1>7. StreamsAreTyped'
  BY <1>1, <1>4, <1>5, <1>6 DEF FlowInv, StreamsAreTyped
<1>8. FeedIsTyped'
  BY <1>1 DEF FlowInv, FeedIsTyped
<1> QED
  BY <1>1, <1>7, <1>8, ManagerRests DEF FlowInv

(* A row arrives, at a price of its side.                                  *)
LEMMA RowArrivesStep ==
    ASSUME FlowInv, NEW op \in {"Insert", "Update", "Delete"}, NEW side \in Sides,
           NEW pos \in Nat, NEW price \in Prices[side],
           NEW S \in SUBSET Prices[side], IsFiniteSet(S), RowArrives(op, side, pos, price, S)
    PROVE  FlowInv'
<1>1. /\ active # NoSymbol /\ Len(depthQ) < QueueCap
      /\ depthQ' = Append(depthQ, [op |-> op, side |-> side, pos |-> pos, price |-> price])
      /\ UNCHANGED manager /\ active' = active /\ sessionDay' = sessionDay
      /\ tapeQ' = tapeQ /\ today' = today /\ feed' = [feed EXCEPT ![side] = S]
  BY DEF RowArrives, manager
<1>2. /\ depthQ \in Seq(RawRows)
      /\ \A n \in 1..Len(depthQ) : depthQ[n].price \in Prices[depthQ[n].side]
  BY DEF FlowInv, StreamsAreTyped
<1>3. Prices[side] \subseteq Nat
  BY FlowAssumption
<1>a. PICK x : x = [op |-> op, side |-> side, pos |-> pos, price |-> price]
  OBVIOUS
<1>4. x \in RawRows /\ x.price \in Prices[x.side]
  BY <1>3, <1>a DEF RawRows
<1>b. depthQ' = Append(depthQ, x)
  BY <1>1, <1>a
<1>5. /\ depthQ' \in Seq(RawRows) /\ Len(depthQ') = Len(depthQ) + 1 /\ Len(depthQ) \in Nat
      /\ \A k \in 1..Len(depthQ') : depthQ'[k] = x \/ (k \in 1..Len(depthQ) /\ depthQ'[k] = depthQ[k])
  BY <1>2, <1>4, <1>b, Appended
<1>6. Len(depthQ') <= QueueCap
  <2>1. PICK m \in Nat, q \in Nat : m = Len(depthQ) /\ q = QueueCap
    BY <1>5, FlowAssumption
  <2>2. m + 1 <= q
    BY <1>1, <2>1
  <2> QED
    BY <1>5, <2>1, <2>2
<1>7. \A k \in 1..Len(depthQ') : depthQ'[k].price \in Prices[depthQ'[k].side]
  BY <1>2, <1>4, <1>5
<1>8. StreamsAreTyped'
  BY <1>1, <1>5, <1>6, <1>7 DEF FlowInv, StreamsAreTyped
<1>9. FeedIsTyped'
  BY <1>1, <1>3 DEF FlowInv, FeedIsTyped
<1> QED
  BY <1>1, <1>8, <1>9, ManagerRests DEF FlowInv

(* The broker's ladder after an insertion is made of the prices it had.    *)
LEMMA LadderKept ==
    ASSUME NEW side \in Sides, NEW S \in SUBSET Prices[side], IsFiniteSet(S)
    PROVE  LET T == ToSet(Truncated(Ladder(side, S), DomDepth))
           IN  T \in SUBSET Prices[side] /\ IsFiniteSet(T)
<1>1. S \in SUBSET Nat
  BY FlowAssumption
<1>2. SetToSeq(S) \in Seq(S)
  BY SetAsSequence
<1>3. Ladder(side, S) \in Seq(S)
  BY <1>1, <1>2, SortedType DEF Ladder
<1>4. PICK t \in Seq(S) : t = Truncated(Ladder(side, S), DomDepth)
  BY <1>3, FlowAssumption, Truncation
<1>5. ToSet(t) \in SUBSET S
  BY <1>4 DEF ToSet
<1>6. IsFiniteSet(ToSet(t))
  BY <1>5, FS_Subset
<1> QED
  BY <1>4, <1>5, <1>6

(* The place of a price among finitely many is a number.                   *)
LEMMA PositionType ==
    ASSUME NEW side, NEW S, IsFiniteSet(S), NEW p
    PROVE  Position(side, S, p) \in Nat
<1>1. {q \in S : Better(side, q, p)} \in SUBSET S
  OBVIOUS
<1> QED
  BY <1>1, FS_Subset, FS_CardinalityType DEF Position

(* The three operations of the broker on its book.                         *)
LEMMA RowStepArrives ==
    ASSUME FlowInv, NEW side \in Sides, NEW p \in Prices[side],
           \/ RowInserted(side, p)
           \/ RowDeleted(side, p)
           \/ \E q \in Prices[side] : RowUpdated(side, p, q)
    PROVE  FlowInv'
<1>1. feed[side] \in SUBSET Prices[side] /\ IsFiniteSet(feed[side])
  BY DEF FlowInv, FeedIsTyped
<1>2. Position(side, feed[side], p) \in Nat
  BY <1>1, PositionType
<1>3. CASE RowInserted(side, p)
  <2>1. PICK T : T = ToSet(Truncated(Ladder(side, feed[side] \cup {p}), DomDepth))
    OBVIOUS
  <2>2. feed[side] \cup {p} \in SUBSET Prices[side] /\ IsFiniteSet(feed[side] \cup {p})
    BY <1>1, FS_AddElement
  <2>3. T \in SUBSET Prices[side] /\ IsFiniteSet(T)
    BY <2>1, <2>2, LadderKept
  <2>4. RowArrives("Insert", side, Position(side, feed[side], p), p, T)
    BY <1>3, <2>1 DEF RowInserted
  <2> QED
    BY <1>2, <2>3, <2>4, RowArrivesStep
<1>4. CASE RowDeleted(side, p)
  <2>1. feed[side] \ {p} \in SUBSET Prices[side] /\ IsFiniteSet(feed[side] \ {p})
    BY <1>1, FS_Subset
  <2>2. RowArrives("Delete", side, Position(side, feed[side], p), p, feed[side] \ {p})
    BY <1>4 DEF RowDeleted
  <2> QED
    BY <1>2, <2>1, <2>2, RowArrivesStep
<1>5. ASSUME NEW q \in Prices[side], RowUpdated(side, p, q) PROVE FlowInv'
  <2>1. PICK T : T = (feed[side] \ {p}) \cup {q}
    OBVIOUS
  <2>2. feed[side] \ {p} \in SUBSET feed[side]
    OBVIOUS
  <2>3. IsFiniteSet(feed[side] \ {p})
    BY <1>1, <2>2, FS_Subset
  <2>4. T \in SUBSET Prices[side] /\ IsFiniteSet(T)
    BY <1>1, <2>1, <2>3, FS_AddElement
  <2>5. RowArrives("Update", side, Position(side, feed[side], p), q, T)
    BY <1>5, <2>1 DEF RowUpdated
  <2> QED
    BY <1>2, <1>5, <2>4, <2>5, RowArrivesStep
<1> QED
  BY <1>3, <1>4, <1>5

(* A day passes: the tape is of the session that is dated, not of today.   *)
LEMMA NewDayStep ==
    ASSUME FlowInv, NewDay
    PROVE  FlowInv'
<1>1. /\ today' = today + 1 /\ UNCHANGED manager /\ active' = active
      /\ sessionDay' = sessionDay /\ tapeQ' = tapeQ /\ depthQ' = depthQ /\ feed' = feed
  BY DEF NewDay, manager
<1>2. today' \in Nat /\ today' # 0 /\ sessionDay' \in 0..today'
  <2>1. today \in Nat /\ sessionDay \in 0..today
    BY DEF FlowInv, StreamsAreTyped
  <2> QED
    BY <1>1, <2>1
<1>3. StreamsAreTyped' /\ FeedIsTyped'
  BY <1>1, <1>2 DEF FlowInv, StreamsAreTyped, FeedIsTyped
<1> QED
  BY <1>1, <1>2, <1>3, ManagerRests DEF FlowInv

-----------------------------------------------------------------------------
(* The invariant holds at the start.                                       *)
LEMMA InitFlowInv == Init => FlowInv
<1> SUFFICES ASSUME Init PROVE FlowInv
  OBVIOUS
<1>1. /\ active = NoSymbol /\ tapeQ = <<>> /\ depthQ = <<>> /\ acc = Empty
      /\ sessionDay = 0 /\ today = 1 /\ feed = [s \in Sides |-> {}]
      /\ published = Snapshot(NoSymbol, Empty)
  BY DEF Init
<1>2. StreamsAreTyped
  BY <1>1, FlowAssumption DEF StreamsAreTyped
<1>3. FeedIsTyped
  BY <1>1, FS_EmptySet DEF FeedIsTyped
<1>4. Accumulated(acc) /\ Reconciled(acc) /\ TapeIsCurrent
  BY <1>1, EmptyIsSound DEF TapeIsCurrent
<1> QED
  BY <1>1, <1>2, <1>3, <1>4 DEF FlowInv, DeltasReconcile, Reconciled, PublishedIsCurrent

(* Every step keeps it.                                                    *)
LEMMA NextFlowInv == FlowInv /\ [Next]_vars => FlowInv'
<1> SUFFICES ASSUME FlowInv, [Next]_vars PROVE FlowInv'
  OBVIOUS
<1>1. CASE \E s \in Symbols : SelectSymbol(s)
  BY <1>1, RunCommandStep
<1>2. CASE ClearSymbol
  BY <1>2, RunCommandStep
<1>3. CASE ResetAccumulators
  BY <1>3, RunCommandStep
<1>4. CASE HandlePrint
  BY <1>4, HandlePrintStep
<1>5. CASE HandleRow
  BY <1>5, HandleRowStep
<1>6. CASE RotateDeltaBucket
  BY <1>6, RotateDeltaBucketStep
<1>7. ASSUME NEW p \in PrintPrices, PrintArrives(p) PROVE FlowInv'
  BY <1>7, PrintArrivesStep
<1>8. ASSUME NEW side \in Sides, NEW p \in Prices[side],
             \/ RowInserted(side, p)
             \/ RowDeleted(side, p)
             \/ \E q \in Prices[side] : RowUpdated(side, p, q)
      PROVE  FlowInv'
  BY <1>8, RowStepArrives
<1>9. CASE NewDay
  BY <1>9, NewDayStep
<1>10. CASE UNCHANGED vars
  <2>1. /\ UNCHANGED manager /\ active' = active /\ sessionDay' = sessionDay
        /\ today' = today /\ tapeQ' = tapeQ /\ depthQ' = depthQ /\ feed' = feed
    BY <1>10 DEF vars, manager
  <2>2. StreamsAreTyped' /\ FeedIsTyped'
    BY <2>1 DEF FlowInv, StreamsAreTyped, FeedIsTyped
  <2> QED
    BY <2>1, <2>2, ManagerRests DEF FlowInv
<1> QED
  BY <1>1, <1>2, <1>3, <1>4, <1>5, <1>6, <1>7, <1>8, <1>9, <1>10 DEF Next

(* The invariant holds throughout.                                         *)
LEMMA FlowInvHolds == Spec => []FlowInv
  BY InitFlowInv, NextFlowInv, PTL DEF Spec

-----------------------------------------------------------------------------
(* The variables have their types and nothing outgrows its capacity: not   *)
(* the book, the tape, the sparkline nor a channel, in any interleaving.   *)
THEOREM FlowTypeCorrect == Spec => []TypeOK
<1>1. FlowInv => TypeOK
  <2> SUFFICES ASSUME FlowInv PROVE TypeOK
    OBVIOUS
  <2>1. /\ acc.book \in [Sides -> Seq(Nat)] /\ acc.tape \in Seq(TapeRows)
        /\ acc.profile \in [Cents -> Volumes] /\ acc.buckets \in Seq(Int)
        /\ acc.bucket \in Volumes /\ acc.cumulative \in Int
    BY FieldsOf DEF FlowInv
  <2>2. DOMAIN acc = DOMAIN Empty
    BY DEF FlowInv, Accumulated, Empty
  <2> QED
    BY <2>1, <2>2 DEF FlowInv, StreamsAreTyped, Accumulated, TypeOK, Volumes
<1> QED
  BY <1>1, FlowInvHolds, PTL

(* The tape never mixes symbols or trading days: a print in flight when    *)
(* the operator selects another symbol, or when the day changes, is not    *)
(* added to what was accumulated before (subscribe_to,                     *)
(* check_session_reset).                                                   *)
THEOREM TapeIsPure == Spec => []OneSymbolOneSession
<1>1. FlowInv => OneSymbolOneSession
  BY DEF FlowInv, Accumulated, TapeIsCurrent, OneSymbolOneSession, ToSet
<1> QED
  BY <1>1, FlowInvHolds, PTL

(* No handler returns with a change the published snapshot does not show   *)
(* (run, publish_snapshot).                                                *)
THEOREM NothingUnpublished == Spec => []PublishedIsCurrent
<1>1. FlowInv => PublishedIsCurrent
  BY DEF FlowInv
<1> QED
  BY <1>1, FlowInvHolds, PTL

(* The cumulative delta is what the volume profile nets to and, until the  *)
(* sparkline drops a minute, what the sparkline adds up to: for any        *)
(* number of prints and price levels (process_tape, rotate_delta_bucket).  *)
THEOREM RecordsReconcile == Spec => []DeltasReconcile
<1>1. FlowInv => DeltasReconcile
  BY DEF FlowInv
<1> QED
  BY <1>1, FlowInvHolds, PTL

-----------------------------------------------------------------------------
(* Ladders: the prices of one side of a book, the best one first.          *)

IsLadder(side, rows, S) ==
    /\ rows \in Seq(Nat) /\ ToSet(rows) = S
    /\ \A i, j \in 1..Len(rows) : i < j => Better(side, rows[i], rows[j])

Distinct(rows) == \A i, j \in 1..Len(rows) : rows[i] = rows[j] => i = j

(* The members of a sequence.                                              *)
LEMMA MembersAre ==
    ASSUME NEW rows \in Seq(Nat)
    PROVE  /\ Len(rows) \in Nat /\ DOMAIN rows = 1..Len(rows)
           /\ \A i \in 1..Len(rows) : rows[i] \in Nat /\ rows[i] \in ToSet(rows)
           /\ \A p \in ToSet(rows) : \E i \in 1..Len(rows) : p = rows[i]
           /\ ToSet(rows) \in SUBSET Nat
  BY DEF ToSet

(* A row that sorts before another one has the lower place.                *)
LEMMA PlacesInOrder ==
    ASSUME NEW side, NEW rows \in Seq(Nat), NEW i \in 1..Len(rows), NEW k \in 1..Len(rows),
           Better(side, rows[i], rows[k]) \/ (rows[i] = rows[k] /\ i < k)
    PROVE  PlaceOf(side, rows, i) < PlaceOf(side, rows, k)
<1>0. PICK N \in Nat : N = Len(rows)
  OBVIOUS
<1>1. DOMAIN rows = 1..N /\ \A j \in 1..N : rows[j] \in Nat
  BY <1>0, MembersAre
<1> DEFINE A(x) == {j \in 1..N : Better(side, rows[j], rows[x]) \/ (rows[j] = rows[x] /\ j <= x)}
<1>2. IsFiniteSet(1..N)
  BY FS_Interval
<1>3. k \in A(k) /\ k \notin A(i)
  BY <1>0, <1>1 DEF Better
<1>4. A(i) \in SUBSET A(k) /\ A(k) \in SUBSET (1..N)
  BY <1>0, <1>1 DEF Better
<1>5. PlaceOf(side, rows, i) = Cardinality(A(i)) /\ PlaceOf(side, rows, k) = Cardinality(A(k))
  BY <1>1 DEF PlaceOf
<1> HIDE DEF A
<1>6. IsFiniteSet(A(k))
  BY <1>2, <1>4, FS_Subset
<1>7. /\ IsFiniteSet(A(i)) /\ Cardinality(A(i)) <= Cardinality(A(k))
      /\ Cardinality(A(i)) = Cardinality(A(k)) => A(i) = A(k)
  BY <1>4, <1>6, FS_Subset
<1>8. Cardinality(A(i)) \in Nat /\ Cardinality(A(k)) \in Nat
  BY <1>6, <1>7, FS_CardinalityType
<1> QED
  BY <1>3, <1>5, <1>7, <1>8

(* Every row has a place.                                                  *)
LEMMA PlacesExist ==
    ASSUME NEW side, NEW rows \in Seq(Nat), NEW i \in 1..Len(rows)
    PROVE  PlaceOf(side, rows, i) \in 1..Len(rows)
<1>0. PICK N \in Nat : N = Len(rows)
  OBVIOUS
<1>1. DOMAIN rows = 1..N
  BY <1>0
<1>2. PICK A : A = {j \in 1..N : Better(side, rows[j], rows[i]) \/ (rows[j] = rows[i] /\ j <= i)}
  OBVIOUS
<1>3. A \in SUBSET (1..N) /\ i \in A
  BY <1>0, <1>2
<1>4. IsFiniteSet(1..N) /\ Cardinality(1..N) = N
  BY FS_Interval
<1>5. IsFiniteSet(A) /\ Cardinality(A) <= N
  BY <1>3, <1>4, FS_Subset
<1>6. Cardinality(A) \in Nat /\ Cardinality(A) # 0
  BY <1>3, <1>5, FS_CardinalityType, FS_EmptySet
<1>7. PlaceOf(side, rows, i) = Cardinality(A)
  BY <1>1, <1>2 DEF PlaceOf
<1> QED
  BY <1>0, <1>5, <1>6, <1>7

(* Different rows, sorted, are a ladder.                                   *)
LEMMA SortedIsLadder ==
    ASSUME NEW side, NEW rows \in Seq(Nat), Distinct(rows)
    PROVE  IsLadder(side, Sorted(side, rows), ToSet(rows))
<1>0. PICK N \in Nat : N = Len(rows)
  OBVIOUS
<1>1. DOMAIN rows = 1..N /\ \A i \in 1..N : rows[i] \in Nat
  BY <1>0, MembersAre
<1>2. PICK b : b = Sorted(side, rows)
  OBVIOUS
<1>3. PICK c : c = [n \in 1..N |-> CHOOSE i \in DOMAIN rows : PlaceOf(side, rows, i) = n]
  OBVIOUS
<1>4. ASSUME NEW n \in 1..N
      PROVE  c[n] \in 1..N /\ PlaceOf(side, rows, c[n]) = n /\ b[n] = rows[c[n]]
  <2>1. \E i \in DOMAIN rows : PlaceOf(side, rows, i) = n
    BY <1>0, PlacesAreTaken
  <2>2. c[n] = CHOOSE i \in DOMAIN rows : PlaceOf(side, rows, i) = n
    BY <1>3
  <2>3. b[n] = rows[c[n]]
    BY <1>1, <1>2, <2>2 DEF Sorted
  <2> QED
    BY <1>1, <2>1, <2>2, <2>3
<1>5. b \in Seq(Nat) /\ Len(b) = N
  BY <1>0, <1>2, SortedType
<1>6. ASSUME NEW n \in 1..N, NEW m \in 1..N, n < m
      PROVE  Better(side, b[n], b[m])
  <2>1. PICK i \in 1..N, k \in 1..N : i = c[n] /\ k = c[m]
    BY <1>4
  <2>2. PlaceOf(side, rows, i) = n /\ PlaceOf(side, rows, k) = m
    BY <1>4, <2>1
  <2>3. ~(PlaceOf(side, rows, k) < PlaceOf(side, rows, i)) /\ i # k
    BY <1>6, <2>2
  <2>4. ~Better(side, rows[k], rows[i])
    BY <1>0, <2>3, PlacesInOrder
  <2>5. rows[i] # rows[k]
    BY <1>0, <2>3 DEF Distinct
  <2>6. Better(side, rows[i], rows[k])
    BY <1>1, <2>4, <2>5 DEF Better
  <2> QED
    BY <1>4, <2>1, <2>6
<1>7. ASSUME NEW i \in 1..N PROVE \E n \in 1..N : b[n] = rows[i]
  <2>1. PICK n \in 1..N : n = PlaceOf(side, rows, i)
    BY <1>0, PlacesExist
  <2>2. PICK k \in 1..N : k = c[n]
    BY <1>4
  <2>3. PlaceOf(side, rows, k) = n
    BY <1>4, <2>2
  <2>4. ~(PlaceOf(side, rows, k) < PlaceOf(side, rows, i)) /\ ~(PlaceOf(side, rows, i) < PlaceOf(side, rows, k))
    BY <2>1, <2>3
  <2>5. ~Better(side, rows[k], rows[i])
    BY <1>0, <2>4, PlacesInOrder
  <2>6. ~Better(side, rows[i], rows[k])
    BY <1>0, <2>4, PlacesInOrder
  <2>7. rows[i] = rows[k]
    BY <1>1, <2>5, <2>6 DEF Better
  <2> QED
    BY <1>4, <2>2, <2>7
<1>8. ToSet(b) = ToSet(rows)
  <2>1. ASSUME NEW p \in ToSet(rows) PROVE p \in ToSet(b)
    <3>1. PICK i \in 1..N : p = rows[i]
      BY <1>0, <2>1, MembersAre
    <3>2. PICK n \in 1..N : b[n] = p
      BY <1>7, <3>1
    <3> QED
      BY <1>5, <3>2, MembersAre
  <2>2. ASSUME NEW p \in ToSet(b) PROVE p \in ToSet(rows)
    <3>1. PICK n \in 1..N : p = b[n]
      BY <1>5, <2>2, MembersAre
    <3>2. PICK i \in 1..N : p = rows[i]
      BY <1>4, <3>1
    <3> QED
      BY <1>0, <3>2, MembersAre
  <2> QED
    BY <2>1, <2>2
<1> QED
  BY <1>2, <1>5, <1>6, <1>8 DEF IsLadder

(* No price is twice in a ladder.                                          *)
LEMMA LadderIsDistinct ==
    ASSUME NEW side, NEW S, NEW rows, IsLadder(side, rows, S)
    PROVE  rows \in Seq(Nat) /\ Distinct(rows)
<1>1. rows \in Seq(Nat) /\ \A i, j \in 1..Len(rows) : i < j => Better(side, rows[i], rows[j])
  BY DEF IsLadder
<1>2. PICK n \in Nat : n = Len(rows)
  BY <1>1
<1>3. \A i \in 1..n : rows[i] \in Nat
  BY <1>1, <1>2, MembersAre
<1>4. ASSUME NEW i \in 1..n, NEW j \in 1..n, rows[i] = rows[j] PROVE i = j
  <2>1. ~(i < j)
    BY <1>1, <1>2, <1>3, <1>4 DEF Better
  <2>2. ~(j < i)
    BY <1>1, <1>2, <1>3, <1>4 DEF Better
  <2> QED
    BY <2>1, <2>2
<1> QED
  BY <1>1, <1>2, <1>4 DEF Distinct

(* The position of a price counts the rungs above it.                      *)
LEMMA PositionInLadder ==
    ASSUME NEW side, NEW S, NEW rows, IsLadder(side, rows, S), NEW i \in 1..Len(rows)
    PROVE  Position(side, S, rows[i]) = i - 1
<1>1. rows \in Seq(Nat) /\ ToSet(rows) = S
      /\ \A k, j \in 1..Len(rows) : k < j => Better(side, rows[k], rows[j])
  BY DEF IsLadder
<1>2. PICK n \in Nat : n = Len(rows)
  BY <1>1
<1>3. /\ \A k \in 1..n : rows[k] \in Nat /\ rows[k] \in S
      /\ \A p \in S : \E k \in 1..n : p = rows[k]
  BY <1>1, <1>2, MembersAre
<1>4. PICK B : B = {q \in S : Better(side, q, rows[i])}
  OBVIOUS
<1>5. PICK m \in Nat : m = i - 1 /\ \A k \in 1..m : k \in 1..n /\ k < i
  BY <1>2
<1>6. PICK f : f = [k \in 1..m |-> rows[k]]
  OBVIOUS
<1>7. f \in [1..m -> B]
  BY <1>1, <1>2, <1>3, <1>4, <1>5, <1>6
<1>8. \A k, j \in 1..m : f[k] = f[j] => k = j
  <2>1. Distinct(rows)
    BY LadderIsDistinct
  <2> QED
    BY <1>2, <1>5, <1>6, <2>1 DEF Distinct
<1>9. ASSUME NEW q \in B PROVE \E k \in 1..m : f[k] = q
  <2>1. PICK k \in 1..n : q = rows[k]
    BY <1>3, <1>4
  <2>2. Better(side, rows[k], rows[i])
    BY <1>4, <2>1
  <2>3. ~(i < k) /\ i # k
    BY <1>1, <1>2, <1>3, <2>2 DEF Better
  <2>4. k \in 1..m
    BY <1>2, <1>5, <2>3
  <2> QED
    BY <1>6, <2>1, <2>4
<1>10. f \in Bijection(1..m, B)
  BY <1>7, <1>8, <1>9 DEF Bijection, Injection, Surjection, IsInjective
<1>11. ExistsBijection(1..m, B)
  BY <1>10 DEF ExistsBijection
<1>12. Cardinality(B) = m
  BY <1>11, FS_CountingElements
<1> QED
  BY <1>4, <1>5, <1>12 DEF Position

(* A set of prices makes one ladder only.                                  *)
LEMMA OneLadder ==
    ASSUME NEW side, NEW S, NEW r, NEW t, IsLadder(side, r, S), IsLadder(side, t, S)
    PROVE  r = t
<1>1. /\ r \in Seq(Nat) /\ ToSet(r) = S /\ t \in Seq(Nat) /\ ToSet(t) = S
  BY DEF IsLadder
<1>2. PICK n \in Nat, m \in Nat : n = Len(r) /\ m = Len(t)
  BY <1>1
<1>3. ASSUME NEW i \in 1..n PROVE i \in 1..m /\ r[i] = t[i]
  <2>1. r[i] \in S
    BY <1>1, <1>2, MembersAre
  <2>2. PICK j \in 1..m : r[i] = t[j]
    BY <1>1, <1>2, <2>1, MembersAre
  <2>3. Position(side, S, r[i]) = i - 1
    BY <1>2, PositionInLadder
  <2>4. Position(side, S, t[j]) = j - 1
    BY <1>2, PositionInLadder
  <2> QED
    BY <1>2, <2>2, <2>3, <2>4
<1>4. ASSUME NEW j \in 1..m PROVE j \in 1..n
  <2>1. t[j] \in S
    BY <1>1, <1>2, MembersAre
  <2>2. PICK i \in 1..n : t[j] = r[i]
    BY <1>1, <1>2, <2>1, MembersAre
  <2>3. Position(side, S, r[i]) = i - 1
    BY <1>2, PositionInLadder
  <2>4. Position(side, S, t[j]) = j - 1
    BY <1>2, PositionInLadder
  <2> QED
    BY <1>2, <2>2, <2>3, <2>4
<1>5. n = m
  <2>1. ~(n < m)
    BY <1>2, <1>4
  <2>2. ~(m < n)
    BY <1>2, <1>3
  <2> QED
    BY <2>1, <2>2
<1> QED
  BY <1>1, <1>2, <1>3, <1>5, SeqEqual

(* The ladder of a finite set of prices.                                   *)
LEMMA LadderIs ==
    ASSUME NEW side, NEW S \in SUBSET Nat, IsFiniteSet(S)
    PROVE  IsLadder(side, Ladder(side, S), S)
<1>1. PICK l : l = SetToSeq(S)
  OBVIOUS
<1>2. /\ l \in Seq(S) /\ \A c \in S : \E i \in 1..Len(l) : l[i] = c
      /\ Distinct(l)
  BY <1>1, SetAsSequence DEF Distinct
<1>3. PICK n \in Nat : n = Len(l)
  BY <1>2
<1>4. l \in [1..n -> S]
  BY <1>2, <1>3
<1>5. l \in [1..n -> Nat]
  BY <1>4
<1>6. l \in Seq(Nat)
  BY <1>5
<1>7. ToSet(l) = S
  BY <1>2, <1>3, <1>4 DEF ToSet
<1>8. IsLadder(side, Sorted(side, l), ToSet(l))
  BY <1>2, <1>6, SortedIsLadder
<1> QED
  BY <1>1, <1>7, <1>8 DEF Ladder

(* Different prices, sorted, are the ladder of their set.                  *)
LEMMA SortedIsTheLadder ==
    ASSUME NEW side, NEW rows \in Seq(Nat), Distinct(rows), IsFiniteSet(ToSet(rows))
    PROVE  Sorted(side, rows) = Ladder(side, ToSet(rows))
<1>1. ToSet(rows) \in SUBSET Nat
  BY MembersAre
<1>2. IsLadder(side, Ladder(side, ToSet(rows)), ToSet(rows))
  BY <1>1, LadderIs
<1>3. IsLadder(side, Sorted(side, rows), ToSet(rows))
  BY SortedIsLadder
<1> QED
  BY <1>2, <1>3, OneLadder

(* The best rungs of a ladder are a ladder.                                *)
LEMMA TruncatedLadder ==
    ASSUME NEW side \in Sides, NEW S \in SUBSET Nat, IsFiniteSet(S), NEW n \in Nat
    PROVE  LET t == Truncated(Ladder(side, S), n)
           IN  /\ ToSet(t) \in SUBSET S /\ IsFiniteSet(ToSet(t))
               /\ t = Ladder(side, ToSet(t)) /\ Len(t) <= n
<1>1. PICK r : r = Ladder(side, S)
  OBVIOUS
<1>2. IsLadder(side, r, S)
  BY <1>1, LadderIs
<1>3. /\ r \in Seq(Nat) /\ ToSet(r) = S
      /\ \A i, j \in 1..Len(r) : i < j => Better(side, r[i], r[j])
  BY <1>2 DEF IsLadder
<1>4. PICK t : t = Truncated(r, n)
  OBVIOUS
<1>5. /\ t \in Seq(Nat) /\ Len(t) \in 0..n
      /\ \A k \in 1..Len(t) : k \in 1..Len(r) /\ t[k] = r[k]
  BY <1>3, <1>4, Truncation
<1>6. PICK T : T = ToSet(t)
  OBVIOUS
<1>7. T \in SUBSET S
  <2>1. ASSUME NEW p \in T PROVE p \in S
    <3>1. PICK k \in 1..Len(t) : p = t[k]
      BY <1>5, <1>6, <2>1, MembersAre
    <3> QED
      BY <1>3, <1>5, <3>1, MembersAre
  <2> QED
    BY <2>1
<1>8. IsFiniteSet(T) /\ T \in SUBSET Nat
  BY <1>7, FS_Subset
<1>9. IsLadder(side, t, T)
  BY <1>3, <1>5, <1>6 DEF IsLadder
<1>10. IsLadder(side, Ladder(side, T), T)
  BY <1>8, LadderIs
<1>11. t = Ladder(side, T)
  BY <1>9, <1>10, OneLadder
<1>12. Len(t) <= n
  BY <1>5
<1> QED
  BY <1>1, <1>4, <1>6, <1>7, <1>8, <1>11, <1>12

(* What is short enough is not truncated.                                  *)
LEMMA NotTruncated ==
    ASSUME NEW S, NEW s \in Seq(S), NEW n \in Nat, Len(s) <= n
    PROVE  Truncated(s, n) = s
<1>1. PICK m \in Nat : m = Len(s)
  OBVIOUS
<1>2. (IF Len(s) < n THEN Len(s) ELSE n) = m
  BY <1>1
<1>3. SubSeq(s, 1, m) = s
  BY <1>1
<1> QED
  BY <1>2, <1>3 DEF Truncated

-----------------------------------------------------------------------------
(* Three operations on a ladder.                                           *)

(* A row inserted among the others, row by row.                            *)
InsertedInto(t, s, n, i, e) ==
    /\ t \in Seq(Nat) /\ Len(t) = n + 1
    /\ \A k \in 1..n + 1 : t[k] = IF k < i THEN s[k] ELSE IF k = i THEN e ELSE s[k - 1]

(* InsertAt inserts one row so.                                            *)
LEMMA InsertedRows ==
    ASSUME NEW s \in Seq(Nat), NEW n \in Nat, Len(s) = n, NEW e \in Nat, NEW i \in 1..n + 1
    PROVE  InsertedInto(InsertAt(s, i, e), s, n, i, e)
<1>1. n = Len(s) /\ i \in 1..n + 1
  OBVIOUS
<1>2. PICK a, b, c : a = SubSeq(s, 1, i - 1) /\ b = <<e>> /\ c = SubSeq(s, i, Len(s))
  OBVIOUS
<1>3. /\ a \in Seq(Nat) /\ Len(a) = i - 1 /\ \A k \in 1..i - 1 : a[k] = s[k]
  BY <1>1, <1>2
<1>4. /\ c \in Seq(Nat) /\ Len(c) = n + 1 - i /\ \A k \in 1..n + 1 - i : c[k] = s[i + k - 1]
  BY <1>1, <1>2
<1>5. b \in Seq(Nat) /\ Len(b) = 1 /\ b[1] = e
  BY <1>2
<1>6. PICK d : d = a \o b
  OBVIOUS
<1>7. /\ d \in Seq(Nat) /\ Len(d) = i
      /\ \A k \in 1..i : d[k] = IF k < i THEN s[k] ELSE e
  <2>1. /\ d \in Seq(Nat) /\ Len(d) = Len(a) + Len(b)
        /\ \A k \in 1..Len(a) + Len(b) : d[k] = IF k <= Len(a) THEN a[k] ELSE b[k - Len(a)]
    BY <1>3, <1>5, <1>6, ConcatProperties
  <2>2. Len(a) + Len(b) = i
    BY <1>3, <1>5
  <2>3. ASSUME NEW k \in 1..i PROVE d[k] = IF k < i THEN s[k] ELSE e
    <3>1. CASE k < i
      <4>1. k <= Len(a) /\ k \in 1..i - 1
        BY <1>3, <3>1
      <4> QED
        BY <1>3, <2>1, <2>2, <3>1, <4>1
    <3>2. CASE ~(k < i)
      <4>1. ~(k <= Len(a)) /\ k - Len(a) = 1
        BY <1>3, <3>2
      <4> QED
        BY <1>5, <2>1, <2>2, <3>2, <4>1
    <3> QED
      BY <3>1, <3>2
  <2> QED
    BY <2>1, <2>2, <2>3
<1>8. PICK r : r = d \o c
  OBVIOUS
<1>9. /\ r \in Seq(Nat) /\ Len(r) = Len(d) + Len(c)
      /\ \A k \in 1..Len(d) + Len(c) : r[k] = IF k <= Len(d) THEN d[k] ELSE c[k - Len(d)]
  BY <1>4, <1>7, <1>8, ConcatProperties
<1>10. Len(d) + Len(c) = n + 1
  BY <1>1, <1>4, <1>7
<1>11. ASSUME NEW k \in 1..n + 1
       PROVE  r[k] = IF k < i THEN s[k] ELSE IF k = i THEN e ELSE s[k - 1]
  <2>1. CASE k <= i
    BY <1>7, <1>9, <1>10, <2>1
  <2>2. CASE ~(k <= i)
    <3>1. PICK j \in 1..n + 1 - i : j = k - i /\ i + j - 1 = k - 1
      BY <1>1, <1>11, <2>2
    <3>2. ~(k <= Len(d)) /\ k - Len(d) = j
      BY <1>7, <2>2, <3>1
    <3>3. r[k] = s[k - 1]
      BY <1>4, <1>9, <1>10, <3>1, <3>2
    <3> QED
      BY <2>2, <3>3
  <2> QED
    BY <2>1, <2>2
<1>12. InsertAt(s, i, e) = r
  BY <1>2, <1>6, <1>8 DEF InsertAt
<1> QED
  BY <1>1, <1>9, <1>10, <1>11, <1>12 DEF InsertedInto

(* A row removed from among the others, row by row.                        *)
RemovedFrom(t, s, n, i) ==
    /\ t \in Seq(Nat) /\ Len(t) = n - 1
    /\ \A k \in 1..n - 1 : t[k] = IF k < i THEN s[k] ELSE s[k + 1]

(* RemoveAt removes one row so.                                            *)
LEMMA RemovedRows ==
    ASSUME NEW s \in Seq(Nat), NEW n \in Nat, Len(s) = n, NEW i \in 1..n
    PROVE  RemovedFrom(RemoveAt(s, i), s, n, i)
<1>1. n = Len(s) /\ i \in 1..n
  OBVIOUS
<1>2. PICK a, c : a = SubSeq(s, 1, i - 1) /\ c = SubSeq(s, i + 1, Len(s))
  OBVIOUS
<1>3. /\ a \in Seq(Nat) /\ Len(a) = i - 1 /\ \A k \in 1..i - 1 : a[k] = s[k]
  BY <1>1, <1>2
<1>4. /\ c \in Seq(Nat) /\ Len(c) = n - i /\ \A k \in 1..n - i : c[k] = s[i + k]
  BY <1>1, <1>2
<1>5. PICK r : r = a \o c
  OBVIOUS
<1>6. /\ r \in Seq(Nat) /\ Len(r) = Len(a) + Len(c)
      /\ \A k \in 1..Len(a) + Len(c) : r[k] = IF k <= Len(a) THEN a[k] ELSE c[k - Len(a)]
  BY <1>3, <1>4, <1>5, ConcatProperties
<1>7. Len(a) + Len(c) = n - 1
  BY <1>1, <1>3, <1>4
<1>8. ASSUME NEW k \in 1..n - 1 PROVE r[k] = IF k < i THEN s[k] ELSE s[k + 1]
  <2>1. CASE k < i
    <3>1. k <= Len(a) /\ k \in 1..i - 1
      BY <1>3, <2>1
    <3> QED
      BY <1>3, <1>6, <1>7, <2>1, <3>1
  <2>2. CASE ~(k < i)
    <3>1. PICK j \in 1..n - i : j = k - (i - 1) /\ i + j = k + 1
      BY <1>1, <1>8, <2>2
    <3>2. ~(k <= Len(a)) /\ k - Len(a) = j
      BY <1>3, <2>2, <3>1
    <3>3. r[k] = s[k + 1]
      BY <1>4, <1>6, <1>7, <3>1, <3>2
    <3> QED
      BY <2>2, <3>3
  <2> QED
    BY <2>1, <2>2
<1>9. RemoveAt(s, i) = r
  BY <1>2, <1>5 DEF RemoveAt
<1> QED
  BY <1>1, <1>6, <1>7, <1>8, <1>9 DEF RemovedFrom

(* A ladder, rung by rung.                                                 *)
HasRungs(r, S, n) ==
    /\ r \in Seq(Nat) /\ Len(r) = n /\ DOMAIN r = 1..n /\ ToSet(r) = S
    /\ \A k \in 1..n : r[k] \in S
    /\ \A p \in S : \E k \in 1..n : p = r[k]
    /\ \A k, j \in 1..n : r[k] = r[j] => k = j

(* The ladder of a finite set has such rungs.                              *)
LEMMA Rungs ==
    ASSUME NEW side, NEW S \in SUBSET Nat, IsFiniteSet(S), NEW r, r = Ladder(side, S)
    PROVE  \E n \in Nat : HasRungs(r, S, n)
<1>1. IsLadder(side, r, S)
  BY LadderIs
<1>2. r \in Seq(Nat) /\ ToSet(r) = S
  BY <1>1 DEF IsLadder
<1>3. Distinct(r)
  BY <1>1, LadderIsDistinct
<1>4. PICK n \in Nat : n = Len(r)
  BY <1>2
<1>5. /\ DOMAIN r = 1..n /\ \A k \in 1..n : r[k] \in S
      /\ \A p \in S : \E k \in 1..n : p = r[k]
  BY <1>2, <1>4, MembersAre
<1>6. HasRungs(r, S, n)
  BY <1>2, <1>3, <1>4, <1>5 DEF HasRungs, Distinct
<1> QED
  BY <1>6

(* The rung of a price is the one after its position.                      *)
LEMMA RungOf ==
    ASSUME NEW side, NEW S \in SUBSET Nat, IsFiniteSet(S), NEW r, r = Ladder(side, S),
           NEW p \in S
    PROVE  /\ Position(side, S, p) + 1 \in 1..Len(r) /\ Position(side, S, p) < Len(r)
           /\ r[Position(side, S, p) + 1] = p
<1>1. IsLadder(side, r, S)
  BY LadderIs
<1>2. Len(r) \in Nat /\ \E k \in 1..Len(r) : p = r[k]
  BY Rungs DEF HasRungs
<1>3. PICK k \in 1..Len(r) : p = r[k]
  BY <1>2
<1>4. Position(side, S, r[k]) = k - 1
  BY <1>1, PositionInLadder
<1> QED
  BY <1>2, <1>3, <1>4

(* No position is below the last rung.                                     *)
LEMMA PositionFits ==
    ASSUME NEW side, NEW S \in SUBSET Nat, IsFiniteSet(S), NEW r, r = Ladder(side, S), NEW p
    PROVE  Position(side, S, p) + 1 \in 1..Len(r) + 1 /\ Position(side, S, p) <= Len(r)
<1>1. PICK n \in Nat : HasRungs(r, S, n)
  BY Rungs
<1>2. /\ Len(r) = n /\ \A k \in 1..n : r[k] \in S
      /\ \A q \in S : \E k \in 1..n : q = r[k]
  BY <1>1 DEF HasRungs
<1>3. PICK f : f = [k \in 1..n |-> r[k]]
  OBVIOUS
<1>4. f \in Surjection(1..n, S)
  BY <1>2, <1>3 DEF Surjection
<1>5. Cardinality(S) <= n
  <2>1. ExistsSurjection(1..n, S)
    BY <1>4 DEF ExistsSurjection
  <2> QED
    BY <2>1, FS_SurjCardinalityBound
<1>6. PICK B : B = {q \in S : Better(side, q, p)}
  OBVIOUS
<1>7. IsFiniteSet(B) /\ Cardinality(B) <= Cardinality(S)
  BY <1>6, FS_Subset
<1>8. Cardinality(B) \in Nat /\ Cardinality(S) \in Nat
  BY <1>7, FS_CardinalityType
<1>9. Position(side, S, p) = Cardinality(B)
  BY <1>6 DEF Position
<1> QED
  BY <1>2, <1>5, <1>7, <1>8, <1>9

(* A new price, wherever it is inserted, sorts into the ladder.            *)
LEMMA InsertedLadder ==
    ASSUME NEW side, NEW S \in SUBSET Nat, IsFiniteSet(S), NEW r, r = Ladder(side, S),
           NEW p \in Nat, p \notin S, NEW i \in 1..Len(r) + 1
    PROVE  Sorted(side, InsertAt(r, i, p)) = Ladder(side, S \cup {p})
<1>1. PICK n \in Nat : HasRungs(r, S, n)
  BY Rungs
<1>2. /\ r \in Seq(Nat) /\ Len(r) = n /\ \A k \in 1..n : r[k] \in S
      /\ \A q \in S : \E k \in 1..n : q = r[k]
      /\ \A k, j \in 1..n : r[k] = r[j] => k = j
  BY <1>1 DEF HasRungs
<1>3. PICK t : t = InsertAt(r, i, p)
  OBVIOUS
<1>5. i \in 1..n + 1
  BY <1>2
<1>4. /\ t \in Seq(Nat) /\ Len(t) = n + 1
      /\ \A k \in 1..n + 1 : t[k] = IF k < i THEN r[k] ELSE IF k = i THEN p ELSE r[k - 1]
  <2>1. r \in Seq(Nat)
    BY <1>2
  <2>2. Len(r) = n
    BY <1>2
  <2>3. InsertedInto(InsertAt(r, i, p), r, n, i, p)
    BY <1>5, <2>1, <2>2, InsertedRows
  <2> QED
    BY <1>3, <2>3 DEF InsertedInto
<1>6. ASSUME NEW k \in 1..n + 1, k # i
      PROVE  \E j \in 1..n : t[k] = r[j] /\ j = IF k < i THEN k ELSE k - 1
  <2>1. CASE k < i
    BY <1>4, <1>5, <2>1
  <2>2. CASE ~(k < i)
    <3>1. k - 1 \in 1..n
      BY <1>5, <1>6, <2>2
    <3> QED
      BY <1>4, <1>6, <2>2, <3>1
  <2> QED
    BY <2>1, <2>2
<1>7. t[i] = p
  BY <1>4, <1>5
<1>8. Distinct(t)
  <2>1. ASSUME NEW k \in 1..n + 1, NEW j \in 1..n + 1, t[k] = t[j] PROVE k = j
    <3>1. CASE k = i \/ j = i
      BY <1>2, <1>6, <1>7, <2>1, <3>1
    <3>2. CASE k # i /\ j # i
      <4>1. PICK x \in 1..n : t[k] = r[x] /\ x = IF k < i THEN k ELSE k - 1
        BY <1>6, <3>2
      <4>2. PICK y \in 1..n : t[j] = r[y] /\ y = IF j < i THEN j ELSE j - 1
        BY <1>6, <3>2
      <4>3. x = y
        <5>1. r[x] = r[y]
          BY <2>1, <4>1, <4>2
        <5> QED
          BY <1>2, <5>1
      <4> QED
        BY <1>5, <3>2, <4>1, <4>2, <4>3
    <3> QED
      BY <3>1, <3>2
  <2> QED
    BY <1>4, <2>1 DEF Distinct
<1>9. ToSet(t) = S \cup {p}
  <2>1. ASSUME NEW q \in ToSet(t) PROVE q \in S \cup {p}
    <3>1. PICK k \in 1..n + 1 : q = t[k]
      BY <1>4, <2>1, MembersAre
    <3> QED
      BY <1>2, <1>6, <1>7, <3>1
  <2>2. ASSUME NEW q \in S PROVE q \in ToSet(t)
    <3>1. PICK j \in 1..n : q = r[j]
      BY <1>2
    <3>2. CASE j < i
      <4>1. j \in 1..n + 1 /\ t[j] = r[j]
        BY <1>4, <1>5, <3>2
      <4> QED
        BY <1>4, <3>1, <4>1, MembersAre
    <3>3. CASE ~(j < i)
      <4>1. j + 1 \in 1..n + 1 /\ ~(j + 1 < i) /\ j + 1 # i /\ (j + 1) - 1 = j
        BY <1>5, <3>3
      <4>2. t[j + 1] = r[j]
        BY <1>4, <4>1
      <4> QED
        BY <1>4, <3>1, <4>1, <4>2, MembersAre
    <3> QED
      BY <3>2, <3>3
  <2>3. p \in ToSet(t)
    BY <1>4, <1>5, <1>7, MembersAre
  <2> QED
    BY <2>1, <2>2, <2>3
<1>10. IsFiniteSet(ToSet(t))
  BY <1>9, FS_AddElement
<1> QED
  BY <1>3, <1>4, <1>8, <1>9, <1>10, SortedIsTheLadder

(* Without one of its rungs a ladder is a ladder.                          *)
LEMMA RemovedLadder ==
    ASSUME NEW side, NEW S \in SUBSET Nat, IsFiniteSet(S), NEW r, r = Ladder(side, S),
           NEW i \in 1..Len(r)
    PROVE  Sorted(side, RemoveAt(r, i)) = Ladder(side, S \ {r[i]})
<1>1. PICK n \in Nat : HasRungs(r, S, n)
  BY Rungs
<1>2. /\ r \in Seq(Nat) /\ Len(r) = n /\ \A k \in 1..n : r[k] \in S
      /\ \A q \in S : \E k \in 1..n : q = r[k]
      /\ \A k, j \in 1..n : r[k] = r[j] => k = j
  BY <1>1 DEF HasRungs
<1>3. PICK t : t = RemoveAt(r, i)
  OBVIOUS
<1>5. i \in 1..n
  BY <1>2
<1>4. /\ t \in Seq(Nat) /\ Len(t) = n - 1
      /\ \A k \in 1..n - 1 : t[k] = IF k < i THEN r[k] ELSE r[k + 1]
  <2>1. r \in Seq(Nat)
    BY <1>2
  <2>2. Len(r) = n
    BY <1>2
  <2>3. RemovedFrom(RemoveAt(r, i), r, n, i)
    BY <1>5, <2>1, <2>2, RemovedRows
  <2> QED
    BY <1>3, <2>3 DEF RemovedFrom
<1>6. ASSUME NEW k \in 1..n - 1
      PROVE  \E j \in 1..n : t[k] = r[j] /\ j # i /\ j = IF k < i THEN k ELSE k + 1
  <2>1. CASE k < i
    BY <1>4, <1>5, <2>1
  <2>2. CASE ~(k < i)
    <3>1. k + 1 \in 1..n /\ k + 1 # i
      BY <1>5, <1>6, <2>2
    <3> QED
      BY <1>4, <2>2, <3>1
  <2> QED
    BY <2>1, <2>2
<1>8. Distinct(t)
  <2>1. ASSUME NEW k \in 1..n - 1, NEW j \in 1..n - 1, t[k] = t[j] PROVE k = j
    <3>1. PICK x \in 1..n : t[k] = r[x] /\ x = IF k < i THEN k ELSE k + 1
      BY <1>6
    <3>2. PICK y \in 1..n : t[j] = r[y] /\ y = IF j < i THEN j ELSE j + 1
      BY <1>6
    <3>3. x = y
      <4>1. r[x] = r[y]
        BY <2>1, <3>1, <3>2
      <4> QED
        BY <1>2, <4>1
    <3> QED
      BY <1>5, <3>1, <3>2, <3>3
  <2> QED
    BY <1>4, <2>1 DEF Distinct
<1>9. ToSet(t) = S \ {r[i]}
  <2>1. ASSUME NEW q \in ToSet(t) PROVE q \in S \ {r[i]}
    <3>1. PICK k \in 1..n - 1 : q = t[k]
      BY <1>4, <2>1, MembersAre
    <3>2. PICK j \in 1..n : t[k] = r[j] /\ j # i
      BY <1>6
    <3> QED
      BY <1>2, <1>5, <3>1, <3>2
  <2>2. ASSUME NEW q \in S, q # r[i] PROVE q \in ToSet(t)
    <3>1. PICK j \in 1..n : q = r[j]
      BY <1>2
    <3>2. CASE j < i
      <4>1. j \in 1..n - 1 /\ t[j] = r[j]
        BY <1>4, <1>5, <3>2
      <4> QED
        BY <1>4, <3>1, <4>1, MembersAre
    <3>3. CASE ~(j < i)
      <4>1. j - 1 \in 1..n - 1 /\ ~(j - 1 < i) /\ (j - 1) + 1 = j
        BY <1>5, <2>2, <3>1, <3>3
      <4>2. t[j - 1] = r[j]
        BY <1>4, <4>1
      <4> QED
        BY <1>4, <3>1, <4>1, <4>2, MembersAre
    <3> QED
      BY <3>2, <3>3
  <2> QED
    BY <2>1, <2>2
<1>10. IsFiniteSet(ToSet(t))
  BY <1>9, FS_Subset
<1> QED
  BY <1>3, <1>4, <1>8, <1>9, <1>10, SortedIsTheLadder

(* One rung for another makes a ladder, once it is sorted.                 *)
LEMMA ReplacedLadder ==
    ASSUME NEW side, NEW S \in SUBSET Nat, IsFiniteSet(S), NEW r, r = Ladder(side, S),
           NEW i \in 1..Len(r), NEW q \in Nat, q \notin S
    PROVE  Sorted(side, [r EXCEPT ![i] = q]) = Ladder(side, (S \ {r[i]}) \cup {q})
<1>1. PICK n \in Nat : HasRungs(r, S, n)
  BY Rungs
<1>2. /\ r \in Seq(Nat) /\ Len(r) = n /\ \A k \in 1..n : r[k] \in S
      /\ \A x \in S : \E k \in 1..n : x = r[k]
      /\ \A k, j \in 1..n : r[k] = r[j] => k = j
  BY <1>1 DEF HasRungs
<1>3. PICK t : t = [r EXCEPT ![i] = q]
  OBVIOUS
<1>5. i \in 1..n
  BY <1>2
<1>4. /\ t \in Seq(Nat) /\ Len(t) = n /\ t[i] = q
      /\ \A k \in 1..n : k # i => t[k] = r[k]
  BY <1>1, <1>2, <1>3, <1>5
<1>8. Distinct(t)
  <2>1. ASSUME NEW k \in 1..n, NEW j \in 1..n, t[k] = t[j] PROVE k = j
    <3>1. ASSUME NEW x \in 1..n, x # i PROVE t[x] = r[x] /\ r[x] # q
      BY <1>2, <1>4, <3>1
    <3>2. CASE k = i \/ j = i
      BY <1>4, <2>1, <3>1, <3>2
    <3>3. CASE k # i /\ j # i
      BY <1>2, <2>1, <3>1, <3>3
    <3> QED
      BY <3>2, <3>3
  <2> QED
    BY <1>4, <2>1 DEF Distinct
<1>9. ToSet(t) = (S \ {r[i]}) \cup {q}
  <2>1. ASSUME NEW x \in ToSet(t) PROVE x \in (S \ {r[i]}) \cup {q}
    <3>1. PICK k \in 1..n : x = t[k]
      BY <1>4, <2>1, MembersAre
    <3>2. CASE k = i
      BY <1>4, <3>1, <3>2
    <3>3. CASE k # i
      <4>1. t[k] = r[k] /\ r[k] # r[i] /\ r[k] \in S
        BY <1>2, <1>4, <1>5, <3>3
      <4> QED
        BY <3>1, <4>1
    <3> QED
      BY <3>2, <3>3
  <2>2. ASSUME NEW x \in S, x # r[i] PROVE x \in ToSet(t)
    <3>1. PICK j \in 1..n : x = r[j]
      BY <1>2
    <3>2. t[j] = x
      BY <1>4, <2>2, <3>1
    <3> QED
      BY <1>4, <3>2, MembersAre
  <2>3. q \in ToSet(t)
    BY <1>4, <1>5, MembersAre
  <2> QED
    BY <2>1, <2>2, <2>3
<1>10. IsFiniteSet(ToSet(t))
  <2>1. S \ {r[i]} \in SUBSET S
    OBVIOUS
  <2>2. IsFiniteSet(S \ {r[i]})
    BY <2>1, FS_Subset
  <2> QED
    BY <1>9, <2>2, FS_AddElement
<1> QED
  BY <1>3, <1>4, <1>8, <1>9, <1>10, SortedIsTheLadder

-----------------------------------------------------------------------------
(* Replaying rows.                                                         *)

BookSet == {b \in [Sides -> Seq(Nat)] :
               \A s \in Sides : b[s] \in Seq(Prices[s]) /\ Len(b[s]) <= DomDepth}
GoodRows == {x \in RawRows : x.price \in Prices[x.side]}

(* A row makes a book of a book.                                           *)
LEMMA RowMakesBook ==
    ASSUME NEW book \in BookSet, NEW x \in GoodRows
    PROVE  ProcessDepth(book, x) \in BookSet
<1>1. /\ book \in [Sides -> Seq(Nat)] /\ x \in RawRows /\ x.price \in Prices[x.side]
      /\ \A s \in Sides : book[s] \in Seq(Prices[s]) /\ Len(book[s]) <= DomDepth
  BY DEF BookSet, GoodRows
<1> QED
  BY <1>1, DepthType DEF BookSet

(* The books of a replay, one after the other.                             *)
BooksOf(g, book, rows, n) ==
    /\ g \in [0..n -> BookSet] /\ g[0] = book
    /\ \A k \in 1..n : g[k] = ProcessDepth(g[k - 1], rows[k])

(* The recursion of Replay has these books.                                *)
LEMMA ReplayIs ==
    ASSUME NEW book \in BookSet, NEW rows \in Seq(GoodRows), NEW n \in Nat, n = Len(rows)
    PROVE  /\ BooksOf(Replay(book, rows), book, rows, n)
           /\ Replayed(book, rows) = Replay(book, rows)[n]
<1>1. \A k \in 1..n : rows[k] \in GoodRows
  OBVIOUS
<1>2. PICK F : F = [k \in 1..n |-> [b \in BookSet |-> ProcessDepth(b, rows[k])]]
  OBVIOUS
<1>3. F \in [1..n -> [BookSet -> BookSet]]
  <2>1. ASSUME NEW k \in 1..n PROVE [b \in BookSet |-> ProcessDepth(b, rows[k])] \in [BookSet -> BookSet]
    <3>1. rows[k] \in GoodRows
      BY <1>1
    <3>2. \A b \in BookSet : ProcessDepth(b, rows[k]) \in BookSet
      BY <3>1, RowMakesBook
    <3> QED
      BY <3>2
  <2> QED
    BY <1>2, <2>1
<1>4. PICK h : IteratesOf(F, book, n, BookSet, h)
  BY <1>3, IteratesExist
<1>5. h \in [0..n -> BookSet] /\ h[0] = book /\ \A k \in 1..n : h[k] = F[k][h[k - 1]]
  BY <1>4 DEF IteratesOf
<1>6. ASSUME NEW k \in 1..n PROVE h[k] = ProcessDepth(h[k - 1], rows[k])
  <2>1. k - 1 \in 0..n
    OBVIOUS
  <2>2. h[k - 1] \in BookSet
    BY <1>5, <2>1
  <2>3. F[k][h[k - 1]] = ProcessDepth(h[k - 1], rows[k])
    BY <1>2, <2>2
  <2> QED
    BY <1>5, <2>3
<1>7. h = [k \in 0..n |-> IF k = 0 THEN book ELSE ProcessDepth(h[k - 1], rows[k])]
  <2>1. ASSUME NEW k \in 0..n
        PROVE  h[k] = IF k = 0 THEN book ELSE ProcessDepth(h[k - 1], rows[k])
    <3>1. CASE k = 0
      BY <1>5, <3>1
    <3>2. CASE k # 0
      <4>1. k \in 1..n
        BY <3>2
      <4> QED
        BY <1>6, <3>2, <4>1
    <3> QED
      BY <3>1, <3>2
  <2>2. h = [k \in 0..n |-> h[k]]
    BY <1>5
  <2> QED
    BY <2>1, <2>2
<1>8. PICK g : g = Replay(book, rows)
  OBVIOUS
<1>9. g = [k \in 0..n |-> IF k = 0 THEN book ELSE ProcessDepth(g[k - 1], rows[k])]
  BY <1>7, <1>8 DEF Replay
<1>10. g[0] = book
  BY <1>9
<1>11. ASSUME NEW k \in 1..n PROVE g[k] = ProcessDepth(g[k - 1], rows[k])
  <2>1. k \in 0..n /\ k # 0
    OBVIOUS
  <2> QED
    BY <1>9, <2>1
<1>12. g \in [0..n -> BookSet]
  <2> DEFINE U == {k \in 0..n : g[k] \in BookSet}
  <2>1. 0 \in U
    BY <1>10
  <2>2. ASSUME NEW k \in 0..n - 1, k \in U PROVE k + 1 \in U
    <3>1. k + 1 \in 1..n /\ (k + 1) - 1 = k /\ k + 1 \in 0..n
      BY <2>2
    <3>2. g[k + 1] = ProcessDepth(g[k], rows[k + 1])
      BY <1>11, <3>1
    <3>3. rows[k + 1] \in GoodRows /\ g[k] \in BookSet
      BY <1>1, <2>2, <3>1
    <3>4. g[k + 1] \in BookSet
      BY <3>2, <3>3, RowMakesBook
    <3> QED
      BY <3>1, <3>4
  <2>3. U \in SUBSET (0..n)
    OBVIOUS
  <2> HIDE DEF U
  <2>4. U = 0..n
    BY <2>1, <2>2, <2>3, UpTo
  <2>5. \A k \in 0..n : g[k] \in BookSet
    BY <2>4 DEF U
  <2>6. g = [k \in 0..n |-> g[k]]
    BY <1>9
  <2> QED
    BY <2>5, <2>6
<1>13. BooksOf(g, book, rows, n)
  BY <1>10, <1>11, <1>12 DEF BooksOf
<1> QED
  BY <1>8, <1>13 DEF Replayed

(* Without a row the book stays.                                           *)
LEMMA ReplayNothing ==
    ASSUME NEW book \in BookSet
    PROVE  Replayed(book, <<>>) = book
<1>1. <<>> \in Seq(GoodRows) /\ Len(<<>>) = 0 /\ 0 \in Nat
  OBVIOUS
<1>2. BooksOf(Replay(book, <<>>), book, <<>>, 0) /\ Replayed(book, <<>>) = Replay(book, <<>>)[0]
  BY <1>1, ReplayIs
<1> QED
  BY <1>2 DEF BooksOf

(* What the manager takes from the channel the replay need not repeat.     *)
LEMMA ReplayFirst ==
    ASSUME NEW book \in BookSet, NEW rows \in Seq(GoodRows), rows # <<>>
    PROVE  Replayed(ProcessDepth(book, Head(rows)), Tail(rows)) = Replayed(book, rows)
<1>1. PICK n \in Nat : n + 1 = Len(rows)
  <2>1. Len(rows) \in Nat /\ Len(rows) # 0
    OBVIOUS
  <2>2. Len(rows) - 1 \in Nat /\ (Len(rows) - 1) + 1 = Len(rows)
    BY <2>1
  <2> QED
    BY <2>2
<1>2. PICK rest : rest = Tail(rows)
  OBVIOUS
<1>3. /\ Head(rows) \in GoodRows /\ Head(rows) = rows[1]
      /\ rest \in Seq(GoodRows) /\ Len(rest) = n
      /\ \A k \in 1..n : rest[k] = rows[k + 1]
  <2>1. /\ Head(rows) \in GoodRows /\ Tail(rows) \in Seq(GoodRows)
        /\ 1 \in 1..Len(rows) /\ Head(rows) = rows[1]
        /\ Len(rows) \in Nat /\ Len(Tail(rows)) = Len(rows) - 1
        /\ \A k \in 1..Len(Tail(rows)) : k + 1 \in 1..Len(rows) /\ Tail(rows)[k] = rows[k + 1]
    BY FirstRest
  <2>2. Len(rest) = n
    BY <1>1, <1>2, <2>1
  <2> QED
    BY <1>2, <2>1, <2>2
<1>4. PICK next : next = ProcessDepth(book, rows[1]) /\ next \in BookSet
  BY <1>3, RowMakesBook
<1>5. PICK g : BooksOf(g, book, rows, n + 1) /\ Replayed(book, rows) = g[n + 1]
  <2>1. n + 1 \in Nat
    BY <1>1
  <2> QED
    BY <1>1, <2>1, ReplayIs
<1>6. PICK h : BooksOf(h, next, rest, n) /\ Replayed(next, rest) = h[n]
  <2>1. n = Len(rest) /\ rest \in Seq(GoodRows)
    BY <1>3
  <2> QED
    BY <1>4, <2>1, ReplayIs
<1> DEFINE U == {k \in 0..n : h[k] = g[k + 1]}
<1>7. 0 \in U
  <2>1. 1 \in 1..n + 1 /\ 1 - 1 = 0 /\ 0 + 1 = 1 /\ 0 \in 0..n
    BY <1>1
  <2>2. g[1] = ProcessDepth(book, rows[1])
    BY <1>5, <2>1 DEF BooksOf
  <2>3. h[0] = next
    BY <1>6 DEF BooksOf
  <2> QED
    BY <1>4, <2>1, <2>2, <2>3
<1>8. ASSUME NEW k \in 0..n - 1, k \in U PROVE k + 1 \in U
  <2>1. PICK j \in 1..n : j = k + 1 /\ j - 1 = k /\ j + 1 \in 1..n + 1 /\ (j + 1) - 1 = j
    BY <1>1, <1>8
  <2>2. h[j] = ProcessDepth(h[k], rest[j])
    BY <1>6, <2>1 DEF BooksOf
  <2>3. g[j + 1] = ProcessDepth(g[j], rows[j + 1])
    BY <1>5, <2>1 DEF BooksOf
  <2>4. rest[j] = rows[j + 1] /\ h[k] = g[j]
    BY <1>3, <1>8, <2>1
  <2>5. h[j] = g[j + 1] /\ j \in 0..n
    BY <2>1, <2>2, <2>3, <2>4
  <2> QED
    BY <2>1, <2>5
<1>9. U \in SUBSET (0..n)
  OBVIOUS
<1> HIDE DEF U
<1>10. n \in U
  <2>1. U = 0..n
    BY <1>1, <1>7, <1>8, <1>9, UpTo
  <2> QED
    BY <1>1, <2>1
<1>11. h[n] = g[n + 1]
  BY <1>10 DEF U
<1> QED
  BY <1>2, <1>3, <1>4, <1>5, <1>6, <1>11

(* One more row behind the others is applied after them.                   *)
LEMMA ReplayMore ==
    ASSUME NEW book \in BookSet, NEW rows \in Seq(GoodRows), NEW x \in GoodRows
    PROVE  /\ Replayed(book, rows) \in BookSet
           /\ Replayed(book, Append(rows, x)) = ProcessDepth(Replayed(book, rows), x)
<1>1. PICK n \in Nat : n = Len(rows)
  OBVIOUS
<1>2. PICK more : more = Append(rows, x)
  OBVIOUS
<1>3. /\ more \in Seq(GoodRows) /\ Len(more) = n + 1 /\ more[n + 1] = x
      /\ \A k \in 1..n : more[k] = rows[k]
  BY <1>1, <1>2
<1>4. PICK g : BooksOf(g, book, rows, n) /\ Replayed(book, rows) = g[n]
  BY <1>1, ReplayIs
<1>5. PICK h : BooksOf(h, book, more, n + 1) /\ Replayed(book, more) = h[n + 1]
  <2>1. n + 1 \in Nat /\ n + 1 = Len(more) /\ more \in Seq(GoodRows)
    BY <1>1, <1>3
  <2> QED
    BY <2>1, ReplayIs
<1> DEFINE U == {k \in 0..n : h[k] = g[k]}
<1>6. 0 \in U
  BY <1>1, <1>4, <1>5 DEF BooksOf
<1>7. ASSUME NEW k \in 0..n - 1, k \in U PROVE k + 1 \in U
  <2>1. PICK j \in 1..n : j = k + 1 /\ j - 1 = k /\ j \in 1..n + 1
    BY <1>1, <1>7
  <2>2. g[j] = ProcessDepth(g[k], rows[j])
    BY <1>4, <2>1 DEF BooksOf
  <2>3. h[j] = ProcessDepth(h[k], more[j])
    BY <1>5, <2>1 DEF BooksOf
  <2>4. more[j] = rows[j] /\ h[k] = g[k]
    BY <1>3, <1>7
  <2>5. h[j] = g[j] /\ j \in 0..n
    BY <2>2, <2>3, <2>4
  <2> QED
    BY <2>1, <2>5
<1>8. U \in SUBSET (0..n)
  OBVIOUS
<1> HIDE DEF U
<1>9. h[n] = g[n]
  <2>1. U = 0..n
    BY <1>1, <1>6, <1>7, <1>8, UpTo
  <2>2. n \in U
    BY <1>1, <2>1
  <2> QED
    BY <2>2 DEF U
<1>10. h[n + 1] = ProcessDepth(h[n], x)
  <2>1. n + 1 \in 1..n + 1 /\ (n + 1) - 1 = n
    BY <1>1
  <2> QED
    BY <1>3, <1>5, <2>1 DEF BooksOf
<1>11. g[n] \in BookSet
  BY <1>1, <1>4 DEF BooksOf
<1> QED
  BY <1>2, <1>4, <1>5, <1>9, <1>10, <1>11

-----------------------------------------------------------------------------
(* The book and the broker's.                                              *)

(* What an inserted row does to the book.                                   *)
LEMMA ProcessInsert ==
    ASSUME NEW b, NEW x, NEW rows, rows = b[x.side], x.pos \in Nat, Len(rows) \in Nat,
           x.op = "Insert", x.pos <= Len(rows)
    PROVE  ProcessDepth(b, x) = [b EXCEPT ![x.side] =
               Truncated(Sorted(x.side, InsertAt(rows, x.pos + 1, x.price)), DomDepth)]
<1>1. PICK new : new = CASE x.op = "Insert" /\ x.pos <= Len(rows) ->
                               InsertAt(rows, x.pos + 1, x.price)
                          [] x.op = "Insert" /\ x.pos > Len(rows) -> Append(rows, x.price)
                          [] x.op = "Update" /\ x.pos < Len(rows) ->
                               [rows EXCEPT ![x.pos + 1] = x.price]
                          [] x.op = "Delete" /\ x.pos < Len(rows) -> RemoveAt(rows, x.pos + 1)
                          [] OTHER -> rows
  OBVIOUS
<1>2. new = InsertAt(rows, x.pos + 1, x.price)
  BY <1>1
<1>3. ProcessDepth(b, x) = [b EXCEPT ![x.side] = Truncated(Sorted(x.side, new), DomDepth)]
  BY <1>1 DEF ProcessDepth
<1> QED
  BY <1>2, <1>3

(* What an updated row does to the book.                                    *)
LEMMA ProcessUpdate ==
    ASSUME NEW b, NEW x, NEW rows, rows = b[x.side], x.pos \in Nat, Len(rows) \in Nat,
           x.op = "Update", x.pos < Len(rows)
    PROVE  ProcessDepth(b, x) = [b EXCEPT ![x.side] =
               Truncated(Sorted(x.side, [rows EXCEPT ![x.pos + 1] = x.price]), DomDepth)]
<1>1. PICK new : new = CASE x.op = "Insert" /\ x.pos <= Len(rows) ->
                               InsertAt(rows, x.pos + 1, x.price)
                          [] x.op = "Insert" /\ x.pos > Len(rows) -> Append(rows, x.price)
                          [] x.op = "Update" /\ x.pos < Len(rows) ->
                               [rows EXCEPT ![x.pos + 1] = x.price]
                          [] x.op = "Delete" /\ x.pos < Len(rows) -> RemoveAt(rows, x.pos + 1)
                          [] OTHER -> rows
  OBVIOUS
<1>2. new = [rows EXCEPT ![x.pos + 1] = x.price]
  BY <1>1
<1>3. ProcessDepth(b, x) = [b EXCEPT ![x.side] = Truncated(Sorted(x.side, new), DomDepth)]
  BY <1>1 DEF ProcessDepth
<1> QED
  BY <1>2, <1>3

(* What a deleted row does to the book.                                     *)
LEMMA ProcessDelete ==
    ASSUME NEW b, NEW x, NEW rows, rows = b[x.side], x.pos \in Nat, Len(rows) \in Nat,
           x.op = "Delete", x.pos < Len(rows)
    PROVE  ProcessDepth(b, x) = [b EXCEPT ![x.side] =
               Truncated(Sorted(x.side, RemoveAt(rows, x.pos + 1)), DomDepth)]
<1>1. PICK new : new = CASE x.op = "Insert" /\ x.pos <= Len(rows) ->
                               InsertAt(rows, x.pos + 1, x.price)
                          [] x.op = "Insert" /\ x.pos > Len(rows) -> Append(rows, x.price)
                          [] x.op = "Update" /\ x.pos < Len(rows) ->
                               [rows EXCEPT ![x.pos + 1] = x.price]
                          [] x.op = "Delete" /\ x.pos < Len(rows) -> RemoveAt(rows, x.pos + 1)
                          [] OTHER -> rows
  OBVIOUS
<1>2. new = RemoveAt(rows, x.pos + 1)
  BY <1>1
<1>3. ProcessDepth(b, x) = [b EXCEPT ![x.side] = Truncated(Sorted(x.side, new), DomDepth)]
  BY <1>1 DEF ProcessDepth
<1> QED
  BY <1>2, <1>3

(* The broker's book, as ladders.                                          *)
Ladders(f) == [s \in Sides |-> Ladder(s, f[s])]

FeedFits == \A s \in Sides : Len(Ladder(s, feed[s])) <= DomDepth
BookInv == FeedFits /\ BookCatchesUp

(* The prices of one side of the broker's book.                            *)
LEMMA FeedIs ==
    ASSUME FlowInv, NEW side \in Sides
    PROVE  /\ feed[side] \in SUBSET Nat /\ IsFiniteSet(feed[side])
           /\ feed[side] \in SUBSET Prices[side] /\ Prices[side] \in SUBSET Nat
  BY FlowAssumption DEF FlowInv, FeedIsTyped

(* What FlowInv says of the book and the rows in the channel.              *)
LEMMA BookAndRows ==
    ASSUME FlowInv
    PROVE  acc.book \in BookSet /\ depthQ \in Seq(GoodRows)
<1>1. acc.book \in BookSet
  BY DEF FlowInv, Accumulated, BookSet
<1>2. depthQ \in Seq(RawRows) /\ \A n \in 1..Len(depthQ) : depthQ[n].price \in Prices[depthQ[n].side]
  BY DEF FlowInv, StreamsAreTyped
<1>3. PICK n \in Nat : n = Len(depthQ)
  BY <1>2
<1>4. depthQ = [k \in 1..n |-> depthQ[k]] /\ \A k \in 1..n : depthQ[k] \in RawRows
  BY <1>2, <1>3
<1>5. depthQ \in [1..n -> GoodRows]
  BY <1>2, <1>3, <1>4 DEF GoodRows
<1>6. depthQ \in Seq(GoodRows)
  BY <1>5
<1> QED
  BY <1>1, <1>6

(* A row that changes the broker's ladder as it will change the book's.    *)
LEMMA RowIsFollowed ==
    ASSUME FlowInv, BookInv, NEW side \in Sides, NEW T, NEW x \in GoodRows,
           depthQ' = Append(depthQ, x), acc' = acc, whole' = whole,
           feed' = [feed EXCEPT ![side] = T],
           Len(Ladder(side, T)) <= DomDepth,
           ProcessDepth(Ladders(feed), x) = [Ladders(feed) EXCEPT ![side] = Ladder(side, T)]
    PROVE  BookInv'
<1>1. feed \in [Sides -> SUBSET Nat]
  BY DEF FlowInv, FeedIsTyped
<1>2. FeedFits'
  BY <1>1 DEF BookInv, FeedFits
<1>3. [Ladders(feed) EXCEPT ![side] = Ladder(side, T)] = Ladders(feed')
  BY <1>1 DEF Ladders
<1>4. ASSUME whole' PROVE Replayed(acc.book', depthQ') = Ladders(feed')
  <2>1. Replayed(acc.book, depthQ) = Ladders(feed)
    BY <1>4 DEF BookInv, BookCatchesUp, Ladders
  <2>2. Replayed(acc.book, Append(depthQ, x)) = ProcessDepth(Replayed(acc.book, depthQ), x)
    BY BookAndRows, ReplayMore
  <2> QED
    BY <1>3, <2>1, <2>2
<1>5. BookCatchesUp'
  BY <1>4 DEF BookCatchesUp, Ladders
<1> QED
  BY <1>2, <1>5 DEF BookInv

(* A row inserted by the broker.                                           *)
LEMMA InsertIsFollowed ==
    ASSUME FlowInv, BookInv, NEW side \in Sides, NEW p \in Prices[side], RowInserted(side, p)
    PROVE  BookInv'
<1>1. PICK S : S = feed[side]
  OBVIOUS
<1>2. S \in SUBSET Nat /\ IsFiniteSet(S) /\ p \in Nat /\ p \notin S
  BY <1>1, FeedIs DEF RowInserted
<1>3. PICK r : r = Ladder(side, S)
  OBVIOUS
<1>4. PICK pos : pos = Position(side, S, p)
  OBVIOUS
<1>5. pos \in Nat /\ pos + 1 \in 1..Len(r) + 1 /\ pos <= Len(r)
  <2>1. pos \in Nat
    BY <1>2, <1>4, PositionType
  <2>2. pos + 1 \in 1..Len(r) + 1 /\ pos <= Len(r)
    BY <1>2, <1>3, <1>4, PositionFits
  <2> QED
    BY <2>1, <2>2
<1>6. PICK x : x = [op |-> "Insert", side |-> side, pos |-> pos, price |-> p]
  OBVIOUS
<1>7. x \in GoodRows
  BY <1>2, <1>5, <1>6 DEF GoodRows, RawRows
<1>8. S \cup {p} \in SUBSET Nat /\ IsFiniteSet(S \cup {p}) /\ DomDepth \in Nat
  BY <1>2, FS_AddElement, FlowAssumption
<1>9. PICK t : t = Truncated(Ladder(side, S \cup {p}), DomDepth)
  OBVIOUS
<1>10. t = Ladder(side, ToSet(t)) /\ Len(t) <= DomDepth
  BY <1>8, <1>9, TruncatedLadder
<1>11. Sorted(side, InsertAt(r, pos + 1, p)) = Ladder(side, S \cup {p})
  BY <1>2, <1>3, <1>5, InsertedLadder
<1>12. PICK b : b = Ladders(feed)
  OBVIOUS
<1>13. r = b[x.side] /\ x.side = side /\ x.pos = pos /\ x.price = p /\ x.op = "Insert"
  BY <1>1, <1>3, <1>6, <1>12 DEF Ladders
<1>14. Len(r) \in Nat
  <2>1. \E n \in Nat : HasRungs(r, S, n)
    BY <1>2, <1>3, Rungs
  <2> QED
    BY <2>1 DEF HasRungs
<1>15. ProcessDepth(b, x) = [b EXCEPT ![x.side] =
           Truncated(Sorted(x.side, InsertAt(r, x.pos + 1, x.price)), DomDepth)]
  BY <1>5, <1>13, <1>14, ProcessInsert
<1>16. ProcessDepth(b, x) = [b EXCEPT ![side] = Ladder(side, ToSet(t))]
  BY <1>9, <1>10, <1>11, <1>13, <1>15
<1>17. /\ depthQ' = Append(depthQ, x) /\ feed' = [feed EXCEPT ![side] = ToSet(t)]
       /\ acc' = acc /\ whole' = whole
  BY <1>1, <1>4, <1>6, <1>9 DEF RowInserted, RowArrives, manager
<1>18. Len(Ladder(side, ToSet(t))) <= DomDepth
  BY <1>10
<1>19. ProcessDepth(Ladders(feed), x) = [Ladders(feed) EXCEPT ![side] = Ladder(side, ToSet(t))]
  BY <1>12, <1>16
<1> QED
  BY <1>7, <1>17, <1>18, <1>19, RowIsFollowed

(* A row deleted by the broker.                                            *)
LEMMA DeleteIsFollowed ==
    ASSUME FlowInv, BookInv, NEW side \in Sides, NEW p \in Prices[side], RowDeleted(side, p)
    PROVE  BookInv'
<1>1. PICK S : S = feed[side]
  OBVIOUS
<1>2. S \in SUBSET Nat /\ IsFiniteSet(S) /\ p \in S /\ p \in Nat
  BY <1>1, FeedIs DEF RowDeleted
<1>3. PICK r : r = Ladder(side, S)
  OBVIOUS
<1>4. PICK pos : pos = Position(side, S, p)
  OBVIOUS
<1>5. pos \in Nat /\ pos + 1 \in 1..Len(r) /\ pos < Len(r) /\ r[pos + 1] = p
  <2>1. pos \in Nat
    BY <1>2, <1>4, PositionType
  <2>2. pos + 1 \in 1..Len(r) /\ pos < Len(r) /\ r[pos + 1] = p
    BY <1>2, <1>3, <1>4, RungOf
  <2> QED
    BY <2>1, <2>2
<1>6. PICK x : x = [op |-> "Delete", side |-> side, pos |-> pos, price |-> p]
  OBVIOUS
<1>7. x \in GoodRows
  BY <1>2, <1>5, <1>6 DEF GoodRows, RawRows
<1>8. PICK n \in Nat : HasRungs(r, S, n)
  BY <1>2, <1>3, Rungs
<1>9. PICK t : t = Ladder(side, S \ {p})
  OBVIOUS
<1>10. Sorted(side, RemoveAt(r, pos + 1)) = t
  BY <1>2, <1>3, <1>5, <1>9, RemovedLadder
<1>11. Truncated(t, DomDepth) = t /\ Len(t) <= DomDepth
  <2>1. r \in Seq(Nat) /\ Len(r) = n
    BY <1>8 DEF HasRungs
  <2>2. pos + 1 \in 1..n
    BY <1>5, <2>1
  <2>3. RemovedFrom(RemoveAt(r, pos + 1), r, n, pos + 1)
    BY <2>1, <2>2, RemovedRows
  <2>4. RemoveAt(r, pos + 1) \in Seq(Nat) /\ Len(RemoveAt(r, pos + 1)) = n - 1
    BY <2>3 DEF RemovedFrom
  <2>5. t \in Seq(Nat) /\ Len(t) = n - 1
    BY <1>10, <2>4, SortedType
  <2>6. n <= DomDepth /\ DomDepth \in Nat
    BY <1>1, <1>3, <2>1, FlowAssumption DEF BookInv, FeedFits
  <2>7. Len(t) <= DomDepth
    BY <2>5, <2>6
  <2>8. Truncated(t, DomDepth) = t
    BY <2>5, <2>6, <2>7, NotTruncated
  <2> QED
    BY <2>7, <2>8
<1>12. PICK b : b = Ladders(feed)
  OBVIOUS
<1>13. r = b[x.side] /\ x.side = side /\ x.pos = pos /\ x.op = "Delete"
  BY <1>1, <1>3, <1>6, <1>12 DEF Ladders
<1>14. Len(r) \in Nat
  BY <1>8 DEF HasRungs
<1>15. ProcessDepth(b, x) = [b EXCEPT ![x.side] =
           Truncated(Sorted(x.side, RemoveAt(r, x.pos + 1)), DomDepth)]
  BY <1>5, <1>13, <1>14, ProcessDelete
<1>16. ProcessDepth(b, x) = [b EXCEPT ![side] = t]
  BY <1>10, <1>11, <1>13, <1>15
<1>17. /\ depthQ' = Append(depthQ, x) /\ feed' = [feed EXCEPT ![side] = S \ {p}]
       /\ acc' = acc /\ whole' = whole
  BY <1>1, <1>4, <1>6 DEF RowDeleted, RowArrives, manager
<1>18. Len(Ladder(side, S \ {p})) <= DomDepth
  BY <1>9, <1>11
<1>19. ProcessDepth(Ladders(feed), x) = [Ladders(feed) EXCEPT ![side] = Ladder(side, S \ {p})]
  BY <1>9, <1>12, <1>16
<1> QED
  BY <1>7, <1>17, <1>18, <1>19, RowIsFollowed

(* A row updated by the broker.                                            *)
LEMMA UpdateIsFollowed ==
    ASSUME FlowInv, BookInv, NEW side \in Sides, NEW p \in Prices[side], NEW q \in Prices[side],
           RowUpdated(side, p, q)
    PROVE  BookInv'
<1>1. PICK S : S = feed[side]
  OBVIOUS
<1>2. S \in SUBSET Nat /\ IsFiniteSet(S) /\ p \in S /\ p \in Nat /\ q \in Nat /\ q \notin S
  BY <1>1, FeedIs DEF RowUpdated
<1>3. PICK r : r = Ladder(side, S)
  OBVIOUS
<1>4. PICK pos : pos = Position(side, S, p)
  OBVIOUS
<1>5. pos \in Nat /\ pos + 1 \in 1..Len(r) /\ pos < Len(r) /\ r[pos + 1] = p
  <2>1. pos \in Nat
    BY <1>2, <1>4, PositionType
  <2>2. pos + 1 \in 1..Len(r) /\ pos < Len(r) /\ r[pos + 1] = p
    BY <1>2, <1>3, <1>4, RungOf
  <2> QED
    BY <2>1, <2>2
<1>6. PICK x : x = [op |-> "Update", side |-> side, pos |-> pos, price |-> q]
  OBVIOUS
<1>7. x \in GoodRows
  BY <1>2, <1>5, <1>6 DEF GoodRows, RawRows
<1>8. PICK n \in Nat : HasRungs(r, S, n)
  BY <1>2, <1>3, Rungs
<1>9. PICK T, t : T = (S \ {p}) \cup {q} /\ t = Ladder(side, T)
  OBVIOUS
<1>10. Sorted(side, [r EXCEPT ![pos + 1] = q]) = t
  BY <1>2, <1>3, <1>5, <1>9, ReplacedLadder
<1>11. Truncated(t, DomDepth) = t /\ Len(t) <= DomDepth
  <2>1. r \in Seq(Nat) /\ Len(r) = n
    BY <1>8 DEF HasRungs
  <2>2. [r EXCEPT ![pos + 1] = q] \in Seq(Nat) /\ Len([r EXCEPT ![pos + 1] = q]) = n
    BY <1>2, <1>5, <2>1
  <2>3. t \in Seq(Nat) /\ Len(t) = n
    BY <1>10, <2>2, SortedType
  <2>4. n <= DomDepth /\ DomDepth \in Nat
    BY <1>1, <1>3, <2>1, FlowAssumption DEF BookInv, FeedFits
  <2>5. Len(t) <= DomDepth
    BY <2>3, <2>4
  <2>6. Truncated(t, DomDepth) = t
    BY <2>3, <2>4, <2>5, NotTruncated
  <2> QED
    BY <2>5, <2>6
<1>12. PICK b : b = Ladders(feed)
  OBVIOUS
<1>13. r = b[x.side] /\ x.side = side /\ x.pos = pos /\ x.price = q /\ x.op = "Update"
  BY <1>1, <1>3, <1>6, <1>12 DEF Ladders
<1>14. Len(r) \in Nat
  BY <1>8 DEF HasRungs
<1>15. ProcessDepth(b, x) = [b EXCEPT ![x.side] =
           Truncated(Sorted(x.side, [r EXCEPT ![x.pos + 1] = x.price]), DomDepth)]
  BY <1>5, <1>13, <1>14, ProcessUpdate
<1>16. ProcessDepth(b, x) = [b EXCEPT ![side] = t]
  BY <1>10, <1>11, <1>13, <1>15
<1>17. /\ depthQ' = Append(depthQ, x) /\ feed' = [feed EXCEPT ![side] = T]
       /\ acc' = acc /\ whole' = whole
  BY <1>1, <1>4, <1>6, <1>9 DEF RowUpdated, RowArrives, manager
<1>18. Len(Ladder(side, T)) <= DomDepth
  BY <1>9, <1>11
<1>19. ProcessDepth(Ladders(feed), x) = [Ladders(feed) EXCEPT ![side] = Ladder(side, T)]
  BY <1>9, <1>12, <1>16
<1> QED
  BY <1>7, <1>17, <1>18, <1>19, RowIsFollowed

(* A side without prices has no rungs.                                     *)
LEMMA NoRungs ==
    ASSUME NEW side
    PROVE  Ladder(side, {}) = <<>>
<1>1. {} \in SUBSET Nat /\ IsFiniteSet({})
  BY FS_EmptySet
<1>2. PICK r : r = Ladder(side, {})
  OBVIOUS
<1>3. PICK n \in Nat : HasRungs(r, {}, n)
  BY <1>1, <1>2, Rungs
<1>4. r \in Seq(Nat) /\ Len(r) = n /\ \A k \in 1..n : r[k] \in {}
  BY <1>3 DEF HasRungs
<1>5. n = 0
  BY <1>4
<1> QED
  BY <1>2, <1>4, <1>5

(* The broker begins with an empty book, and so does the manager.          *)
LEMMA BookBegins ==
    ASSUME NEW book, NEW rows, NEW f, book = [s \in Sides |-> <<>>], rows = <<>>,
           f = [s \in Sides |-> {}]
    PROVE  /\ Replayed(book, rows) = Ladders(f)
           /\ \A s \in Sides : Len(Ladder(s, f[s])) <= DomDepth
<1>1. book \in BookSet
  <2>1. DomDepth \in Nat /\ Len(<<>>) = 0
    BY FlowAssumption
  <2>2. \A s \in Sides : book[s] = <<>> /\ <<>> \in Seq(Prices[s])
    OBVIOUS
  <2>3. book \in [Sides -> Seq(Nat)]
    OBVIOUS
  <2>4. \A s \in Sides : book[s] \in Seq(Prices[s]) /\ Len(book[s]) <= DomDepth
    BY <2>1, <2>2
  <2> QED
    BY <2>3, <2>4 DEF BookSet
<1>2. Replayed(book, rows) = book
  BY <1>1, ReplayNothing
<1>3. \A s \in Sides : Ladder(s, f[s]) = <<>>
  BY NoRungs
<1>4. Ladders(f) = book
  BY <1>3 DEF Ladders
<1>5. \A s \in Sides : Len(Ladder(s, f[s])) <= DomDepth
  <2>1. DomDepth \in Nat /\ Len(<<>>) = 0
    BY FlowAssumption
  <2> QED
    BY <1>3, <2>1
<1> QED
  BY <1>2, <1>4, <1>5

(* The book agrees with the broker's at the start.                         *)
LEMMA InitBookInv == Init => BookInv
<1> SUFFICES ASSUME Init PROVE BookInv
  OBVIOUS
<1>1. /\ acc.book = [s \in Sides |-> <<>>] /\ depthQ = <<>>
      /\ feed = [s \in Sides |-> {}]
  BY DEF Init, Empty
<1>2. /\ Replayed(acc.book, depthQ) = Ladders(feed)
      /\ \A s \in Sides : Len(Ladder(s, feed[s])) <= DomDepth
  BY <1>1, BookBegins
<1> QED
  BY <1>2 DEF BookInv, FeedFits, BookCatchesUp, Ladders

(* A new subscription begins a new book on both sides.                     *)
LEMMA SubscriptionBeginsBook ==
    ASSUME NEW s, Resubscribe(s), acc' = Empty
    PROVE  BookInv'
<1>1. /\ acc'.book = [x \in Sides |-> <<>>] /\ depthQ' = <<>>
      /\ feed' = [x \in Sides |-> {}]
  BY DEF Resubscribe, Empty
<1>2. /\ Replayed(acc'.book, depthQ') = Ladders(feed')
      /\ \A x \in Sides : Len(Ladder(x, feed'[x])) <= DomDepth
  BY <1>1, BookBegins
<1> QED
  BY <1>2 DEF BookInv, FeedFits, BookCatchesUp, Ladders

(* The row the manager handles moves from the channel into the book.       *)
LEMMA RowIsHandled ==
    ASSUME FlowInv, BookInv, HandleRow
    PROVE  BookInv'
<1>1. /\ depthQ # <<>> /\ depthQ' = Tail(depthQ) /\ feed' = feed /\ whole' = whole
      /\ acc' = [acc EXCEPT !.book = ProcessDepth(@, Head(depthQ))]
  BY DEF HandleRow
<1>2. acc'.book = ProcessDepth(acc.book, Head(depthQ))
  <2>1. acc \in [book : [Sides -> Seq(Nat)], tape : Seq(TapeRows), profile : [Cents -> Volumes],
                 buckets : Seq(Int), bucket : Volumes, cumulative : Int]
    BY DEF FlowInv, Accumulated
  <2> QED
    BY <1>1, <2>1
<1>3. Replayed(ProcessDepth(acc.book, Head(depthQ)), Tail(depthQ)) = Replayed(acc.book, depthQ)
  BY <1>1, BookAndRows, ReplayFirst
<1>4. Replayed(acc'.book, depthQ') = Replayed(acc.book, depthQ)
  BY <1>1, <1>2, <1>3
<1> QED
  BY <1>1, <1>4 DEF BookInv, FeedFits, BookCatchesUp

(* Steps that leave book, rows and feed alone, or clear the book.          *)
LEMMA BookRests ==
    ASSUME BookInv, feed' = feed,
           \/ ~whole'
           \/ acc'.book = acc.book /\ depthQ' = depthQ /\ whole' = whole
    PROVE  BookInv'
  BY DEF BookInv, FeedFits, BookCatchesUp

(* A print does not touch the book, unless it begins a session and so      *)
(* clears it.                                                              *)
LEMMA PrintLeavesBook ==
    ASSUME FlowInv, BookInv, HandlePrint
    PROVE  BookInv'
<1>1. /\ acc' = ProcessTape(IF IsNewSession THEN Empty ELSE acc, Head(tapeQ))
      /\ whole' = (whole /\ ~IsNewSession) /\ depthQ' = depthQ /\ feed' = feed
  BY DEF HandlePrint
<1>2. CASE IsNewSession
  <2>1. ~whole'
    BY <1>1, <1>2
  <2> QED
    BY <1>1, <2>1, BookRests
<1>3. CASE ~IsNewSession
  <2>1. acc' = ProcessTape(acc, Head(tapeQ)) /\ whole' = (whole /\ TRUE)
    BY <1>1, <1>3
  <2>2. acc'.book = acc.book
    <3>1. acc = [book |-> acc.book, tape |-> acc.tape, profile |-> acc.profile,
                 buckets |-> acc.buckets, bucket |-> acc.bucket, cumulative |-> acc.cumulative]
      BY DEF FlowInv, Accumulated
    <3> QED
      BY <2>1, <3>1 DEF ProcessTape
  <2>3. whole' \/ ~whole'
    OBVIOUS
  <2>4. CASE ~whole'
    BY <1>1, <2>4, BookRests
  <2>5. CASE whole'
    <3>1. whole
      BY <2>1, <2>5
    <3>2. Replayed(acc.book, depthQ) = Ladders(feed)
      BY <3>1 DEF BookInv, BookCatchesUp, Ladders
    <3> QED
      BY <1>1, <2>2, <3>2 DEF BookInv, FeedFits, BookCatchesUp, Ladders
  <2> QED
    BY <2>4, <2>5
<1> QED
  BY <1>2, <1>3

(* Every step keeps the book and the broker's together.                    *)
LEMMA NextBookInv == FlowInv /\ BookInv /\ [Next]_vars => BookInv'
<1> SUFFICES ASSUME FlowInv, BookInv, [Next]_vars PROVE BookInv'
  OBVIOUS
<1>1. ASSUME NEW s \in Symbols, SelectSymbol(s) PROVE BookInv'
  BY <1>1, SubscriptionBeginsBook DEF SelectSymbol
<1>2. CASE ClearSymbol
  BY <1>2, SubscriptionBeginsBook DEF ClearSymbol
<1>3. CASE ResetAccumulators
  BY <1>3, BookRests DEF ResetAccumulators
<1>4. CASE HandlePrint
  BY <1>4, PrintLeavesBook
<1>5. CASE HandleRow
  BY <1>5, RowIsHandled
<1>6. CASE RotateDeltaBucket
  <2>1. acc'.book = acc.book /\ depthQ' = depthQ /\ whole' = whole /\ feed' = feed
    <3>1. acc = [book |-> acc.book, tape |-> acc.tape, profile |-> acc.profile,
                 buckets |-> acc.buckets, bucket |-> acc.bucket, cumulative |-> acc.cumulative]
      BY DEF FlowInv, Accumulated
    <3> QED
      BY <1>6, <3>1 DEF RotateDeltaBucket
  <2> QED
    BY <2>1, BookRests
<1>7. ASSUME NEW p \in PrintPrices, PrintArrives(p) PROVE BookInv'
  BY <1>7, BookRests DEF PrintArrives, manager
<1>8. ASSUME NEW side \in Sides, NEW p \in Prices[side], RowInserted(side, p) PROVE BookInv'
  BY <1>8, InsertIsFollowed
<1>9. ASSUME NEW side \in Sides, NEW p \in Prices[side], RowDeleted(side, p) PROVE BookInv'
  BY <1>9, DeleteIsFollowed
<1>10. ASSUME NEW side \in Sides, NEW p \in Prices[side], NEW q \in Prices[side],
              RowUpdated(side, p, q)
       PROVE  BookInv'
  BY <1>10, UpdateIsFollowed
<1>11. CASE NewDay
  BY <1>11, BookRests DEF NewDay, manager
<1>12. CASE UNCHANGED vars
  BY <1>12, BookRests DEF vars
<1> QED
  BY <1>1, <1>2, <1>3, <1>4, <1>5, <1>6, <1>7, <1>8, <1>9, <1>10, <1>11, <1>12 DEF Next

(* As long as the book is not cleared under a running stream, the rows     *)
(* still in the channel, replayed over it, give the broker's ladder: for   *)
(* any prices, any depth and any rows a broker with such a book can send,  *)
(* whatever prints, days and selections come between them (process_depth). *)
THEOREM BookFollowsTheBroker == Spec => []BookCatchesUp
<1>1. FlowInv /\ BookInv => BookCatchesUp
  BY DEF BookInv
<1>2. Init => FlowInv /\ BookInv
  BY InitFlowInv, InitBookInv
<1>3. FlowInv /\ BookInv /\ [Next]_vars => (FlowInv /\ BookInv)'
  BY NextFlowInv, NextBookInv
<1> QED
  BY <1>1, <1>2, <1>3, PTL DEF Spec
=============================================================================
