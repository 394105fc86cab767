------------------------- MODULE RadarPages_proofs -------------------------
(***************************************************************************)
(* Proofs about RadarPages, for any number of opportunities, signals,       *)
(* notes, levels and commits and any size of page: how the lists are        *)
(* sorted, and what the pages a reader turns have to do with the store.     *)
(***************************************************************************)
EXTENDS RadarPages, FiniteSetTheorems, SequenceTheorems, WellFoundedInduction, TLAPS

(* R orders the elements of S, strictly and totally. *)
Orders(R, S) ==
    /\ \A x \in S : <<x, x>> \notin R
    /\ \A x, y \in S : x # y => <<x, y>> \in R \/ <<y, x>> \in R
    /\ \A x, y, z \in S : <<x, y>> \in R /\ <<y, z>> \in R => <<x, z>> \in R

(* s has the elements of S, each once, in the order of R. *)
Lists(s, S, R) ==
    /\ IsFiniteSet(S)
    /\ s \in [1 .. Cardinality(S) -> S]
    /\ \A i, j \in 1 .. Cardinality(S) : i < j => <<s[i], s[j]>> \in R
    /\ \A e \in S : \E i \in 1 .. Cardinality(S) : s[i] = e

(* By f, upwards or downwards, and by R where f does not tell. *)
By(f, desc, R, S) ==
    {p \in S \X S : IF f[p[1]] = f[p[2]] THEN p \in R ELSE (f[p[1]] < f[p[2]]) # desc}

(* A card as a request reads it. *)
Row == [id: Card, score: Maybe, momentum: Maybe, activity: Level]
ById == {p \in Row \X Row : p[1].id < p[2].id}
Rows(cards) == {cards[k] : k \in DOMAIN cards}
Ascending(cards) == \A i, j \in DOMAIN cards : i < j => cards[i].id < cards[j].id

(* What the filters leave. *)
Kept(c, req) ==
    /\ c.score = Null => req.floor = Null /\ <<req.list, req.sort>> # <<"radar", "score">>
    /\ c.score # Null /\ req.floor # Null => c.score >= req.floor

EntryRow == [kind: {"explicit", "explicit_signal", "linked_signal"}, id: Piece \cup Note,
             signal: Piece \cup {Null}, at: Maybe]

(* The list as a request would read it now, all at once. *)
Ids == Enumeration({c \in Card : card[c].shown}, Upwards(Card))
Listed == [k \in DOMAIN Ids |-> [id |-> Ids[k], score |-> Null, momentum |-> Null,
                                 activity |-> card[Ids[k]].activity]]
ScoresRead == [k \in DOMAIN Ids |-> [id |-> Ids[k], score |-> card[Ids[k]].score,
                                     momentum |-> Null, activity |-> card[Ids[k]].activity]]
TrendsRead == [k \in DOMAIN Ids |-> [id |-> Ids[k], score |-> card[Ids[k]].score,
                                     momentum |-> card[Ids[k]].momentum,
                                     activity |-> card[Ids[k]].activity]]

Listing ==
    CASE reader.req.list = "evidence" -> EvidenceRows
      [] reader.req.list = "feed" -> FeedRows
      [] OTHER -> Arranged(TrendsRead, reader.req)

IdsOf(rows, n) == [k \in 1 .. n |-> rows[k].id]
FirstIds(n) == IdsOf(Listing, n)

ReaderRow ==
    [req: Request, phase: {"start", "scores", "trends", "rows", "over"}, offset: Nat,
     cards: Seq(Row), page: Seq(Row \cup EntryRow), turned: Seq(Nat), total: Nat,
     quiet: BOOLEAN]

PageTypes ==
    /\ card \in [Card -> CardRow]
    /\ piece \in [Piece -> PieceRow]
    /\ \A p, q \in Piece : p # q => piece[p].notes \cap piece[q].notes = {}
    /\ changes \in Nat
    /\ reader \in ReaderRow

(* While nothing changes, what a request has read is what the store holds,   *)
(* and the pages turned are the beginning of the list, in the end all of it. *)
Settled ==
    /\ reader.phase = "scores" => reader.cards = Listed
    /\ reader.phase = "trends" => reader.cards = ScoresRead
    /\ reader.phase = "rows" => reader.total = Cardinality(Entries)
    /\ reader.phase # "over" =>
         /\ reader.turned = FirstIds(reader.offset)
         /\ reader.offset # 0 => reader.offset <= Len(Listing)
    /\ reader.phase = "over" =>
         reader.total = Len(Listing) /\ reader.turned = FirstIds(reader.total)

PagesInv ==
    /\ PageTypes
    /\ Ascending(reader.cards)
    /\ reader.quiet => Settled
    /\ InOrder
    /\ SignalStandsOnce

-----------------------------------------------------------------------------
(* Listing a finite set *)

LEMMA Least ==
    ASSUME NEW S \in SUBSET Nat, S # {}
    PROVE  \E n \in S : \A m \in S : n <= m
  <1>1. IsWellFoundedOn(OpToRel(<, Nat), Nat)
    BY NatLessThanWellFounded
  <1>2. PICK x \in S : \A y \in S : ~(<<y, x>> \in OpToRel(<, Nat))
    BY <1>1, WFMin
  <1>3. ASSUME NEW y \in S PROVE x <= y
    <2>1. ~(y < x)
      BY <1>2 DEF OpToRel
    <2> QED BY <2>1
  <1> QED BY <1>3

LEMMA OrdersSubset ==
    ASSUME NEW S, NEW R, Orders(R, S), NEW T \in SUBSET S
    PROVE  Orders(R, T)
  BY DEF Orders

(* The least counterexample, without one element, would have a last one.    *)
LEMMA LastExists ==
    ASSUME NEW S, IsFiniteSet(S), S # {}, NEW R, Orders(R, S)
    PROVE  \E m \in S : \A x \in S : x # m => <<x, m>> \in R
  <1> DEFINE Last(T, m) == m \in T /\ \A x \in T : x # m => <<x, m>> \in R
             None == {T \in SUBSET S : T # {} /\ \A m \in T : ~Last(T, m)}
             Sizes == {Cardinality(T) : T \in None}
  <1>1. SUFFICES ASSUME None # {} PROVE FALSE
    <2>1. S \notin None
      BY <1>1
    <2>2. PICK m \in S : Last(S, m)
      BY <2>1
    <2> QED BY <2>2
  <1>2. Sizes \in SUBSET Nat /\ Sizes # {}
    BY <1>1, FS_Subset, FS_CardinalityType
  <1>3. PICK n \in Sizes : \A m \in Sizes : n <= m
    <2> HIDE DEF Sizes
    <2> QED BY <1>2, Least
  <1>4. PICK T \in None : Cardinality(T) = n
    BY <1>3
  <1>5. T \in SUBSET S /\ T # {} /\ \A m \in T : ~Last(T, m)
    BY <1>4
  <1> HIDE DEF None, Last
  <1>6. IsFiniteSet(T)
    BY <1>5, FS_Subset
  <1>7. PICK x \in T : TRUE
    BY <1>5
  <1> DEFINE U == T \ {x}
  <1>8. IsFiniteSet(U) /\ Cardinality(U) = n - 1 /\ n \in Nat /\ U \in SUBSET S
    BY <1>2, <1>4, <1>5, <1>6, <1>7, FS_RemoveElement, FS_CardinalityType
  <1>9. U # {}
    <2>1. SUFFICES ASSUME U = {} PROVE FALSE
      OBVIOUS
    <2>2. Last(T, x)
      BY <1>7, <2>1 DEF Last
    <2> QED BY <1>5, <1>7, <2>2
  <1>10. U \notin None
    <2>1. SUFFICES ASSUME U \in None PROVE FALSE
      OBVIOUS
    <2>2. Cardinality(U) \in Sizes
      BY <2>1
    <2>3. n <= Cardinality(U)
      BY <1>3, <2>2
    <2> QED BY <1>8, <2>3
  <1>11. PICK m \in U : Last(U, m)
    BY <1>8, <1>9, <1>10 DEF None
  <1> HIDE DEF U
  <1>12. m \in T /\ m # x /\ m \in S /\ x \in S
    BY <1>5, <1>7, <1>11 DEF U
  <1>13. CASE <<m, x>> \in R
    <2>1. ASSUME NEW y \in T, y # x PROVE <<y, x>> \in R
      <3>1. y \in U /\ y \in S
        BY <1>5, <2>1 DEF U
      <3>2. y = m \/ <<y, m>> \in R
        BY <1>11, <3>1 DEF Last
      <3> QED BY <1>12, <1>13, <3>1, <3>2 DEF Orders
    <2>2. Last(T, x)
      BY <1>7, <2>1 DEF Last
    <2> QED BY <1>5, <1>7, <2>2
  <1>14. CASE <<x, m>> \in R
    <2>1. ASSUME NEW y \in T, y # m PROVE <<y, m>> \in R
      BY <1>11, <1>14, <2>1 DEF Last, U
    <2>2. Last(T, m)
      BY <1>12, <2>1 DEF Last
    <2> QED BY <1>5, <1>12, <2>2
  <1> QED BY <1>12, <1>13, <1>14 DEF Orders

LEMMA ListExists ==
    ASSUME NEW S, IsFiniteSet(S), NEW R, Orders(R, S)
    PROVE  \E s \in [1 .. Cardinality(S) -> S] :
              \A i, j \in 1 .. Cardinality(S) : i < j => <<s[i], s[j]>> \in R
  <1> DEFINE Good(T, s) == s \in [1 .. Cardinality(T) -> T]
                           /\ \A i, j \in 1 .. Cardinality(T) : i < j => <<s[i], s[j]>> \in R
             None == {T \in SUBSET S : ~\E s \in [1 .. Cardinality(T) -> T] : Good(T, s)}
             Sizes == {Cardinality(T) : T \in None}
  <1>1. SUFFICES ASSUME None # {} PROVE FALSE
    <2>1. S \notin None
      BY <1>1
    <2> QED BY <2>1
  <1>2. Sizes \in SUBSET Nat /\ Sizes # {}
    BY <1>1, FS_Subset, FS_CardinalityType
  <1>3. PICK n \in Sizes : \A m \in Sizes : n <= m
    <2> HIDE DEF Sizes
    <2> QED BY <1>2, Least
  <1>4. PICK T \in None : Cardinality(T) = n
    BY <1>3
  <1>5. T \in SUBSET S /\ ~\E s \in [1 .. n -> T] : Good(T, s)
    BY <1>4
  <1>6. IsFiniteSet(T) /\ n \in Nat
    BY <1>2, <1>5, FS_Subset
  <1>7. T # {}
    <2>1. SUFFICES ASSUME T = {} PROVE FALSE
      OBVIOUS
    <2>2. n = 0
      BY <1>4, <2>1, FS_EmptySet
    <2>3. [i \in 1 .. 0 |-> i] \in [1 .. n -> T]
      BY <2>2
    <2>4. Good(T, [i \in 1 .. 0 |-> i])
      BY <1>4, <2>2, <2>3
    <2> QED BY <1>5, <2>3, <2>4
  <1>8. PICK m \in T : \A x \in T : x # m => <<x, m>> \in R
    <2> HIDE DEF None, Good
    <2>1. Orders(R, T)
      BY <1>5, OrdersSubset
    <2> QED BY <1>6, <1>7, <2>1, LastExists
  <1> DEFINE U == T \ {m}
  <1>9. IsFiniteSet(U) /\ Cardinality(U) = n - 1 /\ U \in SUBSET S
    BY <1>4, <1>5, <1>6, <1>8, FS_RemoveElement
  <1>10. U \notin None
    <2>1. SUFFICES ASSUME U \in None PROVE FALSE
      OBVIOUS
    <2>2. Cardinality(U) \in Sizes
      BY <2>1
    <2>3. n <= Cardinality(U)
      BY <1>3, <2>2
    <2> QED BY <1>6, <1>9, <2>3
  <1>11. PICK s \in [1 .. Cardinality(U) -> U] : Good(U, s)
    BY <1>9, <1>10
  <1> DEFINE t == [i \in 1 .. n |-> IF i = n THEN m ELSE s[i]]
  <1>12. s \in [1 .. n - 1 -> U] /\ \A i, j \in 1 .. n - 1 : i < j => <<s[i], s[j]>> \in R
    BY <1>9, <1>11
  <1>13. ASSUME NEW i \in 1 .. n, i # n PROVE i \in 1 .. n - 1 /\ s[i] \in U
    <2> HIDE DEF U, Good, None
    <2>1. i \in 1 .. n - 1
      BY <1>6, <1>13
    <2> QED BY <1>12, <2>1
  <1>14. t \in [1 .. n -> T]
    BY <1>8, <1>13
  <1>15. ASSUME NEW i \in 1 .. n, NEW j \in 1 .. n, i < j PROVE <<t[i], t[j]>> \in R
    <2>1. i # n
      BY <1>6, <1>15
    <2>2. t[i] = s[i] /\ s[i] \in T /\ s[i] # m
      BY <1>13, <2>1
    <2>3. CASE j = n
      BY <1>8, <2>2, <2>3
    <2>4. CASE j # n
      <3>1. t[j] = s[j] /\ j \in 1 .. n - 1
        BY <1>13, <2>4
      <3> QED BY <1>12, <1>13, <1>15, <2>1, <2>2, <3>1
    <2> QED BY <2>3, <2>4
  <1>16. Good(T, t)
    <2> HIDE DEF t
    <2> QED BY <1>4, <1>14, <1>15
  <1> QED
    <2> HIDE DEF t, Good
    <2> QED BY <1>5, <1>14, <1>16

(* list.sort of a set, as it were: there is such a list, and it misses none. *)
LEMMA EnumerationLists ==
    ASSUME NEW S, IsFiniteSet(S), NEW R, Orders(R, S)
    PROVE  Lists(Enumeration(S, R), S, R)
  <1> DEFINE n == Cardinality(S)
             s == Enumeration(S, R)
  <1>1. n \in Nat
    BY FS_CardinalityType
  <1>2. s \in [1 .. n -> S] /\ \A i, j \in 1 .. n : i < j => <<s[i], s[j]>> \in R
    BY ListExists, Zenon DEF Enumeration
  <1>3. IsFiniteSet(1 .. n) /\ Cardinality(1 .. n) = n
    BY <1>1, FS_Interval
  <1> HIDE DEF n, s
  <1>4. ASSUME NEW i \in 1 .. n, NEW j \in 1 .. n, i # j PROVE s[i] # s[j]
    <2>1. i < j \/ j < i
      BY <1>1, <1>4
    <2>2. s[i] \in S /\ s[j] \in S
      BY <1>2
    <2> QED BY <1>2, <2>1, <2>2 DEF Orders
  <1>5. s \in Injection(1 .. n, S)
    BY <1>2, <1>4 DEF Injection, IsInjective
  <1>6. s \in Surjection(1 .. n, S)
    BY <1>3, <1>5, FS_Injection DEF n
  <1>7. ASSUME NEW e \in S PROVE \E i \in 1 .. n : s[i] = e
    BY <1>6 DEF Surjection
  <1> QED BY <1>2, <1>7 DEF n, s, Lists

-----------------------------------------------------------------------------
(* Sorting and filtering a list *)

LEMMA UpwardsOrders ==
    ASSUME NEW S \in SUBSET Nat
    PROVE  Orders(Upwards(S), S)
  <1>1. \A x, y \in S : <<x, y>> \in Upwards(S) <=> x < y
    BY DEF Upwards
  <1>2. \A x \in S : x \in Nat
    OBVIOUS
  <1> QED BY <1>1, <1>2 DEF Orders

(* No element stands twice. *)
LEMMA ListsOnce ==
    ASSUME NEW s, NEW S, NEW R, Lists(s, S, R), \A x \in S : <<x, x>> \notin R,
           NEW i \in 1 .. Cardinality(S), NEW j \in 1 .. Cardinality(S), i # j
    PROVE  s[i] # s[j]
  <1>1. Cardinality(S) \in Nat
    BY FS_CardinalityType DEF Lists
  <1>2. i < j \/ j < i
    BY <1>1
  <1>3. s[i] \in S /\ s[j] \in S
    BY DEF Lists
  <1> QED BY <1>2, <1>3 DEF Lists

LEMMA ByMeans ==
    ASSUME NEW S, NEW R, NEW f \in [S -> Int], NEW desc \in BOOLEAN, NEW x \in S, NEW y \in S
    PROVE  /\ f[x] \in Int /\ f[y] \in Int
           /\ <<x, y>> \in By(f, desc, R, S) <=>
                IF f[x] = f[y] THEN <<x, y>> \in R
                ELSE (desc /\ f[y] < f[x]) \/ (~desc /\ f[x] < f[y])
  <1> DEFINE Q == By(f, desc, R, S)
  <1>1. f[x] \in Int /\ f[y] \in Int
    OBVIOUS
  <1>2. <<x, y>> \in Q <=> IF f[x] = f[y] THEN <<x, y>> \in R ELSE (f[x] < f[y]) # desc
    BY DEF By
  <1>3. f[x] # f[y] => ((f[x] < f[y]) <=> ~(f[y] < f[x]))
    BY <1>1
  <1> HIDE DEF Q
  <1>4. CASE desc
    BY <1>1, <1>2, <1>3, <1>4 DEF Q
  <1>5. CASE ~desc
    BY <1>1, <1>2, <1>3, <1>5 DEF Q
  <1> QED BY <1>1, <1>4, <1>5 DEF Q

LEMMA ByOrders ==
    ASSUME NEW S, NEW R, Orders(R, S), NEW f \in [S -> Int], NEW desc \in BOOLEAN
    PROVE  Orders(By(f, desc, R, S), S)
  <1> DEFINE Q == By(f, desc, R, S)
  <1>1. ASSUME NEW x \in S, NEW y \in S
        PROVE  /\ f[x] \in Int /\ f[y] \in Int
               /\ <<x, y>> \in Q <=>
                    IF f[x] = f[y] THEN <<x, y>> \in R
                    ELSE (desc /\ f[y] < f[x]) \/ (~desc /\ f[x] < f[y])
    BY ByMeans
  <1> HIDE DEF Q
  <1>2. \A x \in S : <<x, x>> \notin Q
    BY <1>1 DEF Orders
  <1>3. ASSUME NEW x \in S, NEW y \in S, x # y PROVE <<x, y>> \in Q \/ <<y, x>> \in Q
    BY <1>1, <1>3 DEF Orders
  <1>4. ASSUME NEW x \in S, NEW y \in S, NEW z \in S, <<x, y>> \in Q, <<y, z>> \in Q
        PROVE  <<x, z>> \in Q
    <2>1. <<x, y>> \in R /\ <<y, z>> \in R => <<x, z>> \in R
      BY DEF Orders
    <2>2. /\ IF f[x] = f[y] THEN <<x, y>> \in R
             ELSE (desc /\ f[y] < f[x]) \/ (~desc /\ f[x] < f[y])
          /\ IF f[y] = f[z] THEN <<y, z>> \in R
             ELSE (desc /\ f[z] < f[y]) \/ (~desc /\ f[y] < f[z])
          /\ f[x] \in Int /\ f[y] \in Int /\ f[z] \in Int
      BY <1>1, <1>4
    <2>3. IF f[x] = f[z] THEN <<x, z>> \in R
          ELSE (desc /\ f[z] < f[x]) \/ (~desc /\ f[x] < f[z])
      BY <2>1, <2>2
    <2> QED BY <1>1, <2>3
  <1> QED BY <1>2, <1>3, <1>4 DEF Orders, Q

(* What stands at the positions I, listed by an order of the positions.     *)
Positions(seq, T, I, order) ==
    /\ IsFiniteSet(T)
    /\ Cardinality(T) = Cardinality(I)
    /\ Arrange(seq, I, order) \in [1 .. Cardinality(I) -> T]
    /\ \A k \in 1 .. Cardinality(I) :
          Arrange(seq, I, order)[k] = seq[Enumeration(I, order)[k]]
    /\ \A e \in T : \E k \in 1 .. Cardinality(I) : Arrange(seq, I, order)[k] = e

LEMMA ArrangeLists ==
    ASSUME NEW seq, NEW S, NEW R, Lists(seq, S, R), \A x \in S : <<x, x>> \notin R,
           NEW I \in SUBSET (1 .. Cardinality(S)), NEW order, Orders(order, I)
    PROVE  /\ Positions(seq, {seq[k] : k \in I}, I, order)
           /\ Lists(Enumeration(I, order), I, order)
  <1> DEFINE T == {seq[k] : k \in I}
             p == Enumeration(I, order)
             s == Arrange(seq, I, order)
             n == Cardinality(S)
             m == Cardinality(I)
             g == [k \in I |-> seq[k]]
  <1>1. n \in Nat /\ IsFiniteSet(1 .. n)
    BY FS_CardinalityType, FS_Interval DEF Lists
  <1>2. IsFiniteSet(I)
    BY <1>1, FS_Subset
  <1>3. Lists(p, I, order)
    BY <1>2, EnumerationLists
  <1>4. g \in Bijection(I, T)
    <2>1. \A i, j \in I : i # j => seq[i] # seq[j]
      BY ListsOnce
    <2> QED BY <2>1 DEF Bijection, Injection, Surjection, IsInjective
  <1>5. IsFiniteSet(T) /\ Cardinality(T) = m
    BY <1>2, <1>4, FS_Bijection DEF ExistsBijection
  <1>6. s = [k \in 1 .. m |-> seq[p[k]]]
    BY DEF Arrange
  <1>7. \A k \in 1 .. m : p[k] \in I
    BY <1>3 DEF Lists
  <1> HIDE DEF m, p, s
  <1>8. s \in [1 .. m -> T] /\ \A k \in 1 .. m : s[k] = seq[p[k]]
    BY <1>6, <1>7
  <1>9. ASSUME NEW e \in T PROVE \E k \in 1 .. m : s[k] = e
    <2>1. PICK i \in I : e = seq[i]
      OBVIOUS
    <2>2. PICK k \in 1 .. m : p[k] = i
      BY <1>3 DEF Lists, m
    <2> QED BY <1>8, <2>1, <2>2
  <1> HIDE DEF T
  <1>10. Positions(seq, T, I, order)
    BY <1>5, <1>8, <1>9 DEF Positions, m, p, s
  <1> QED BY <1>3, <1>10 DEF p, T

(* A filter keeps the order. *)
LEMMA WhereLists ==
    ASSUME NEW seq, NEW S, NEW R, Lists(seq, S, R), \A x \in S : <<x, x>> \notin R,
           NEW I \in SUBSET (1 .. Cardinality(S))
    PROVE  Lists(Where(seq, I), {seq[k] : k \in I}, R)
  <1> DEFINE T == {seq[k] : k \in I}
             s == Where(seq, I)
             p == Enumeration(I, Upwards(I))
             m == Cardinality(I)
  <1>1. I \in SUBSET Nat
    BY FS_CardinalityType DEF Lists
  <1>2. Orders(Upwards(I), I)
    BY <1>1, UpwardsOrders
  <1>3. /\ IsFiniteSet(T) /\ Cardinality(T) = m
        /\ Lists(p, I, Upwards(I))
        /\ s \in [1 .. m -> T]
        /\ \A k \in 1 .. m : s[k] = seq[p[k]]
        /\ \A e \in T : \E k \in 1 .. m : s[k] = e
    <2>1. s = Arrange(seq, I, Upwards(I))
      BY DEF Where
    <2>2. Positions(seq, T, I, Upwards(I)) /\ Lists(p, I, Upwards(I))
      BY <1>2, ArrangeLists
    <2> HIDE DEF T, s
    <2> QED BY <2>1, <2>2 DEF Positions
  <1> HIDE DEF T, s, p
  <1>4. ASSUME NEW i \in 1 .. m, NEW j \in 1 .. m, i < j PROVE <<s[i], s[j]>> \in R
    <2>1. <<p[i], p[j]>> \in Upwards(I)
      BY <1>3, <1>4 DEF Lists
    <2>2. p[i] \in I /\ p[j] \in I /\ p[i] < p[j]
      BY <2>1 DEF Upwards
    <2>3. <<seq[p[i]], seq[p[j]]>> \in R
      BY <2>2 DEF Lists
    <2> QED BY <1>3, <2>3
  <1> QED BY <1>3, <1>4 DEF Lists, T, s

(* A pass sorts by its key and leaves what the key does not tell as it was. *)
LEMMA PassLists ==
    ASSUME NEW seq, NEW S, NEW R, Lists(seq, S, R), Orders(R, S),
           NEW f \in [S -> Int], NEW key, NEW desc \in BOOLEAN,
           \A k \in 1 .. Cardinality(S) : key[k] = f[seq[k]]
    PROVE  Lists(Pass(seq, key, desc), S, By(f, desc, R, S))
  <1> DEFINE n == Cardinality(S)
             I == 1 .. n
             h == [k \in I |-> f[seq[k]]]
             order == By(h, desc, Upwards(I), I)
             p == Enumeration(I, order)
             s == Pass(seq, key, desc)
  <1>1. n \in Nat /\ IsFiniteSet(I) /\ Cardinality(I) = n
    BY FS_CardinalityType, FS_Interval DEF Lists
  <1>2. h \in [I -> Int]
    BY DEF Lists
  <1>3. DOMAIN seq = I
    BY DEF Lists
  <1>4. order = {q \in I \X I : IF key[q[1]] = key[q[2]] THEN q[1] < q[2]
                                ELSE (key[q[1]] < key[q[2]]) # desc}
    <2>1. \A q \in I \X I : /\ h[q[1]] = key[q[1]] /\ h[q[2]] = key[q[2]]
                            /\ q \in Upwards(I) <=> q[1] < q[2]
      BY DEF Upwards
    <2> HIDE DEF h, I
    <2> QED BY <2>1 DEF By
  <1> HIDE DEF h
  <1>5. Orders(order, I)
    <2>1. I \in SUBSET Nat
      BY <1>1
    <2> HIDE DEF I
    <2> QED BY <1>2, <2>1, UpwardsOrders, ByOrders
  <1>6. s = Arrange(seq, I, order)
    <2> HIDE DEF I, order
    <2> QED BY <1>3, <1>4 DEF Pass
  <1>7. {seq[k] : k \in I} = S
    BY DEF Lists
  <1> HIDE DEF order, p, s, n
  <1>8. /\ Lists(p, I, order)
        /\ s \in [I -> S]
        /\ \A k \in I : s[k] = seq[p[k]]
        /\ \A e \in S : \E k \in I : s[k] = e
    <2>1. Cardinality(I) = n /\ I \in SUBSET (1 .. Cardinality(S)) /\ I = 1 .. n
      BY <1>1 DEF n
    <2> HIDE DEF I
    <2>2. \A x \in S : <<x, x>> \notin R
      BY DEF Orders
    <2>3. Positions(seq, {seq[k] : k \in I}, I, order) /\ Lists(Enumeration(I, order), I, order)
      BY <1>5, <2>1, <2>2, ArrangeLists
    <2> QED BY <1>6, <1>7, <2>1, <2>3 DEF Positions, p
  <1>9. ASSUME NEW i \in I, NEW j \in I, i < j PROVE <<s[i], s[j]>> \in By(f, desc, R, S)
    <2>1. <<p[i], p[j]>> \in order /\ p[i] \in I /\ p[j] \in I
      BY <1>1, <1>8, <1>9 DEF Lists
    <2>2. IF key[p[i]] = key[p[j]] THEN p[i] < p[j] ELSE (key[p[i]] < key[p[j]]) # desc
      BY <1>4, <2>1
    <2>3. key[p[i]] = f[s[i]] /\ key[p[j]] = f[s[j]] /\ s[i] \in S /\ s[j] \in S
      BY <1>8, <2>1 DEF n
    <2>4. p[i] < p[j] => <<s[i], s[j]>> \in R
      BY <1>8, <2>1 DEF Lists, n
    <2> QED BY <2>2, <2>3, <2>4 DEF By
  <1> QED BY <1>8, <1>9 DEF Lists, n, s

LEMMA ConcatLists ==
    ASSUME NEW s, NEW S, NEW t, NEW T, NEW Q, Lists(s, S, Q), Lists(t, T, Q),
           S \cap T = {}, \A x \in S, y \in T : <<x, y>> \in Q
    PROVE  Lists(s \o t, S \cup T, Q)
  <1> DEFINE m == Cardinality(S)
             n == Cardinality(T)
             c == s \o t
             U == S \cup T
  <1>1. m \in Nat /\ n \in Nat /\ IsFiniteSet(U)
    BY FS_CardinalityType, FS_Union DEF Lists
  <1>2. Cardinality(U) = m + n
    <2>1. Cardinality(S \cap T) = 0
      BY FS_EmptySet
    <2>2. IsFiniteSet(S) /\ IsFiniteSet(T)
      BY DEF Lists
    <2>3. Cardinality(U) = m + n - Cardinality(S \cap T)
      BY <2>2, FS_Union
    <2> HIDE DEF U, m, n
    <2> QED BY <1>1, <2>1, <2>3
  <1>3. s \in [1 .. m -> U] /\ t \in [1 .. n -> U]
    BY DEF Lists
  <1> HIDE DEF U, m, n
  <1>4. s \in Seq(U) /\ Len(s) = m /\ t \in Seq(U) /\ Len(t) = n
    BY <1>1, <1>3
  <1>5. /\ c \in Seq(U) /\ Len(c) = m + n
        /\ \A i \in 1 .. m + n : c[i] = IF i <= m THEN s[i] ELSE t[i - m]
    BY <1>4, ConcatProperties
  <1>6. c \in [1 .. m + n -> U]
    BY <1>5, LenProperties
  <1> HIDE DEF c
  <1>7. \A i \in 1 .. m : s[i] \in S
    BY DEF Lists, m
  <1>8. \A i \in 1 .. n : t[i] \in T
    BY DEF Lists, n
  <1>9. ASSUME NEW i \in 1 .. m + n, NEW j \in 1 .. m + n, i < j PROVE <<c[i], c[j]>> \in Q
    <2>1. CASE j <= m
      <3>1. i \in 1 .. m /\ j \in 1 .. m
        BY <1>1, <1>9, <2>1
      <3> QED BY <1>5, <1>9, <3>1 DEF Lists, m
    <2>2. CASE m < i
      <3>1. i - m \in 1 .. n /\ j - m \in 1 .. n /\ i - m < j - m /\ ~(i <= m) /\ ~(j <= m)
        BY <1>1, <1>9, <2>2
      <3>2. <<t[i - m], t[j - m]>> \in Q
        BY <3>1 DEF Lists, n
      <3> QED BY <1>5, <3>1, <3>2
    <2>3. CASE i <= m /\ m < j
      <3>1. i \in 1 .. m /\ j - m \in 1 .. n /\ ~(j <= m)
        BY <1>1, <1>9, <2>3
      <3> QED BY <1>5, <1>7, <1>8, <2>3, <3>1
    <2> QED BY <1>1, <2>1, <2>2, <2>3
  <1>10. ASSUME NEW e \in U PROVE \E i \in 1 .. m + n : c[i] = e
    <2>1. CASE e \in S
      <3>1. PICK i \in 1 .. m : s[i] = e
        BY <2>1 DEF Lists, m
      <3>2. i \in 1 .. m + n /\ i <= m
        BY <1>1
      <3> QED BY <1>5, <3>1, <3>2
    <2>2. CASE e \in T
      <3>1. PICK i \in 1 .. n : t[i] = e
        BY <2>2 DEF Lists, n
      <3>2. i + m \in 1 .. m + n /\ ~(i + m <= m) /\ (i + m) - m = i
        BY <1>1
      <3> QED BY <1>5, <3>1, <3>2
    <2> QED BY <2>1, <2>2 DEF U
  <1> QED BY <1>1, <1>2, <1>6, <1>9, <1>10 DEF Lists, U, c

LEMMA ListsWeaken ==
    ASSUME NEW s, NEW S, NEW R, Lists(s, S, R), NEW Q,
           \A x, y \in S : <<x, y>> \in R => <<x, y>> \in Q
    PROVE  Lists(s, S, Q)
  <1>1. \A i \in 1 .. Cardinality(S) : s[i] \in S
    BY DEF Lists
  <1> QED BY <1>1 DEF Lists

LEMMA ListsDomain ==
    ASSUME NEW s, NEW S, NEW R, Lists(s, S, R)
    PROVE  /\ Cardinality(S) \in Nat
           /\ DOMAIN s = 1 .. Cardinality(S)
           /\ s \in Seq(S)
           /\ Len(s) = Cardinality(S)
           /\ \A k \in 1 .. Cardinality(S) : s[k] \in S
           /\ S = {s[k] : k \in 1 .. Cardinality(S)}
  <1> DEFINE n == Cardinality(S)
  <1>1. n \in Nat /\ s \in [1 .. n -> S]
    BY FS_CardinalityType DEF Lists
  <1>2. S = {s[k] : k \in 1 .. n}
    BY DEF Lists
  <1> HIDE DEF n
  <1>3. DOMAIN s = 1 .. n /\ s \in Seq(S) /\ Len(s) = n /\ \A k \in 1 .. n : s[k] \in S
    BY <1>1
  <1> QED BY <1>1, <1>2, <1>3 DEF n

-----------------------------------------------------------------------------
(* The radar and the library *)

Radar == reader.req \in Request /\ reader.req.list \in {"radar", "library"}
AheadPairs == {p \in Row \X Row : Ahead(p[1], p[2])}

LEMMA KeyTypes ==
    ASSUME NEW c \in Row, NEW sort
    PROVE  /\ c.id \in Nat /\ c.activity \in Nat
           /\ c.score # Null => c.score \in Nat
           /\ ValueOf(c, sort) # Null => ValueOf(c, sort) \in Nat
           /\ TieKey(c, sort) \in Int
           /\ LibraryKey(c, sort) \in Int
  <1>1. /\ c.id \in Nat /\ c.activity \in Nat
        /\ c.score # Null => c.score \in Nat
        /\ c.momentum # Null => c.momentum \in Nat
    BY PagesAssumption DEF Row, Maybe
  <1>2. OrMinusOne(c.score) \in Int
    BY <1>1 DEF OrMinusOne
  <1>3. ValueOf(c, sort) # Null => ValueOf(c, sort) \in Nat
    BY <1>1 DEF ValueOf
  <1>4. TieKey(c, sort) \in Int
    BY <1>1, <1>2 DEF TieKey
  <1>5. LibraryKey(c, sort) \in Int
    BY <1>1, <1>2 DEF LibraryKey
  <1> QED BY <1>1, <1>3, <1>4, <1>5

LEMMA RowsListed ==
    ASSUME NEW cards \in Seq(Row), Ascending(cards)
    PROVE  /\ Lists(cards, Rows(cards), ById)
           /\ Orders(ById, Rows(cards))
           /\ Rows(cards) \subseteq Row
  <1> DEFINE n == Len(cards)
             S == Rows(cards)
  <1>1. n \in Nat /\ DOMAIN cards = 1 .. n /\ cards \in [1 .. n -> Row]
    OBVIOUS
  <1>2. S = {cards[k] : k \in 1 .. n} /\ S \subseteq Row
    BY <1>1 DEF Rows
  <1>3. \A i, j \in 1 .. n : i < j => cards[i].id < cards[j].id
    BY <1>1 DEF Ascending
  <1> HIDE DEF n, S
  <1>4. \A c \in Row : c.id \in Nat
    BY KeyTypes
  <1>5. ASSUME NEW i \in 1 .. n, NEW j \in 1 .. n, i # j PROVE cards[i] # cards[j]
    <2>1. i < j \/ j < i
      BY <1>1, <1>5
    <2>2. cards[i].id \in Nat /\ cards[j].id \in Nat
      BY <1>1, <1>4
    <2> QED BY <1>3, <2>1, <2>2
  <1>6. cards \in Bijection(1 .. n, S)
    BY <1>1, <1>2, <1>5 DEF Bijection, Injection, Surjection, IsInjective
  <1>7. IsFiniteSet(S) /\ Cardinality(S) = n
    BY <1>1, <1>6, FS_Interval, FS_Bijection DEF ExistsBijection
  <1>8. \A x, y \in Row : <<x, y>> \in ById <=> x.id < y.id
    BY DEF ById
  <1>9. Lists(cards, S, ById)
    BY <1>1, <1>2, <1>3, <1>7, <1>8 DEF Lists
  <1>10. ASSUME NEW x \in S, NEW y \in S, x # y PROVE x.id < y.id \/ y.id < x.id
    <2>1. PICK i \in 1 .. n, j \in 1 .. n : x = cards[i] /\ y = cards[j]
      BY <1>2
    <2>2. i < j \/ j < i
      BY <1>1, <1>10, <2>1
    <2> QED BY <1>3, <2>1, <2>2
  <1>11. Orders(ById, S)
    <2>1. \A x, y \in S : (<<x, y>> \in ById <=> x.id < y.id) /\ x.id \in Nat
      BY <1>2, <1>4, <1>8
    <2>2. ASSUME NEW x \in S, NEW y \in S, NEW z \in S, <<x, y>> \in ById, <<y, z>> \in ById
          PROVE  <<x, z>> \in ById
      <3>1. x.id < y.id /\ y.id < z.id /\ x.id \in Nat /\ y.id \in Nat /\ z.id \in Nat
        BY <2>1, <2>2
      <3>2. x.id < z.id
        BY <3>1
      <3> QED BY <2>1, <3>2
    <2>3. \A x \in S : <<x, x>> \notin ById
      BY <2>1
    <2>4. \A x, y \in S : x # y => <<x, y>> \in ById \/ <<y, x>> \in ById
      BY <2>1, <1>10
    <2> QED BY <2>2, <2>3, <2>4 DEF Orders
  <1> QED BY <1>2, <1>9, <1>11 DEF S

(* A filter of a list of cards, whichever the condition. *)
LEMMA FilterLists ==
    ASSUME NEW seq, NEW S, NEW R, Lists(seq, S, R), \A x \in S : <<x, x>> \notin R,
           NEW T \in SUBSET S, NEW I, I = {k \in DOMAIN seq : seq[k] \in T}
    PROVE  Lists(Where(seq, I), T, R)
  <1>1. /\ I \in SUBSET (1 .. Cardinality(S))
        /\ T = {seq[k] : k \in I}
    <2>1. DOMAIN seq = 1 .. Cardinality(S) /\ \A e \in S : \E k \in DOMAIN seq : seq[k] = e
      BY DEF Lists
    <2> QED BY <2>1
  <1> QED BY <1>1, WhereLists

LEMMA AheadOnce ==
    ASSUME Radar, NEW x \in Row
    PROVE  <<x, x>> \notin AheadPairs
  <1>1. ~Ahead(x, x)
    <2> DEFINE v == ValueOf(x, reader.req.sort)
               u == TieKey(x, reader.req.sort)
               l == LibraryKey(x, reader.req.sort)
    <2>1. x.id \in Nat /\ x.activity \in Nat /\ (v # Null => v \in Nat) /\ u \in Int /\ l \in Int
      BY KeyTypes
    <2> HIDE DEF v, u, l
    <2>2. Ahead(x, x) <=> IF reader.req.list = "library" THEN l > l \/ (l = l /\ x.id < x.id)
                          ELSE \/ v # Null /\ v = Null
                               \/ v # Null /\ v # Null /\ v # v /\ ((v > v) = reader.req.desc)
                               \/ v = v /\ (IF v = Null THEN x.activity ELSE u)
                                            > (IF v = Null THEN x.activity ELSE u)
                               \/ v = v /\ (IF v = Null THEN x.activity ELSE u)
                                            = (IF v = Null THEN x.activity ELSE u) /\ x.id < x.id
      BY DEF Ahead, v, u, l
    <2> QED BY <2>1, <2>2
  <1> QED BY <1>1 DEF AheadPairs

LEMMA FilteredLists ==
    ASSUME NEW cards \in Seq(Row), Ascending(cards), NEW floor \in Maybe,
           NEW K, K = {c \in Rows(cards) : floor # Null => c.score # Null /\ c.score >= floor}
    PROVE  /\ Lists(Filtered(cards, floor), K, ById)
           /\ Orders(ById, K)
           /\ K \subseteq Row
  <1>1. Lists(cards, Rows(cards), ById) /\ Orders(ById, Rows(cards)) /\ Rows(cards) \subseteq Row
    BY RowsListed
  <1>2. K \in SUBSET Rows(cards)
    OBVIOUS
  <1>3. Orders(ById, K) /\ K \subseteq Row
    BY <1>1, <1>2, OrdersSubset
  <1>4. CASE floor = Null
    <2>1. Filtered(cards, floor) = cards /\ K = Rows(cards)
      BY <1>4 DEF Filtered
    <2> QED BY <1>1, <1>3, <2>1
  <1>5. CASE floor # Null
    <2> DEFINE I == {k \in DOMAIN cards : cards[k].score # Null /\ cards[k].score >= floor}
    <2>1. Filtered(cards, floor) = Where(cards, I)
      BY <1>5 DEF Filtered
    <2>2. I = {k \in DOMAIN cards : cards[k] \in K}
      BY <1>5 DEF Rows
    <2>3. \A x \in Rows(cards) : <<x, x>> \notin ById
      BY <1>1 DEF Orders
    <2> HIDE DEF I
    <2>4. Lists(Where(cards, I), K, ById)
      BY <1>1, <1>2, <2>2, <2>3, FilterLists
    <2> QED BY <1>3, <2>1, <2>4
  <1> QED BY <1>4, <1>5

LEMMA LibraryLists ==
    ASSUME Radar, reader.req.list = "library", NEW seq, NEW K \in SUBSET Row,
           Lists(seq, K, ById), Orders(ById, K)
    PROVE  Lists(LibraryOrder(seq, reader.req), K, AheadPairs)
  <1> DEFINE f == [c \in K |-> LibraryKey(c, reader.req.sort)]
             key == [k \in DOMAIN seq |-> LibraryKey(seq[k], reader.req.sort)]
             Q == By(f, TRUE, ById, K)
  <1>1. \A c \in K : LibraryKey(c, reader.req.sort) \in Int /\ c.id \in Nat
    BY KeyTypes
  <1>2. f \in [K -> Int] /\ \A c \in K : f[c] = LibraryKey(c, reader.req.sort)
    BY <1>1
  <1>3. \A k \in 1 .. Cardinality(K) : key[k] = f[seq[k]]
    BY ListsDomain
  <1>4. LibraryOrder(seq, reader.req) = Pass(seq, key, TRUE)
    BY DEF LibraryOrder
  <1> HIDE DEF f, key, Q
  <1>5. Lists(Pass(seq, key, TRUE), K, Q)
    BY <1>2, <1>3, PassLists DEF Q
  <1>6. ASSUME NEW x \in K, NEW y \in K, <<x, y>> \in Q PROVE <<x, y>> \in AheadPairs
    <2>1. IF f[x] = f[y] THEN <<x, y>> \in ById ELSE f[y] < f[x]
      <3>1. f \in [K -> Int] /\ <<x, y>> \in By(f, TRUE, ById, K)
        BY <1>2, <1>6 DEF Q
      <3> QED BY <3>1, ByMeans
    <2>2. f[x] \in Int /\ f[y] \in Int /\ x.id \in Nat /\ y.id \in Nat
      BY <1>1, <1>2
    <2>3. f[x] > f[y] \/ (f[x] = f[y] /\ x.id < y.id)
      <3>1. <<x, y>> \in ById => x.id < y.id
        BY DEF ById
      <3> QED BY <2>1, <2>2, <3>1
    <2>4. Ahead(x, y)
      BY <1>2, <2>3 DEF Ahead
    <2> QED BY <2>4 DEF AheadPairs
  <1> QED BY <1>4, <1>5, <1>6, ListsWeaken

LEMMA RadarLists ==
    ASSUME Radar, reader.req.list = "radar", NEW seq, NEW K \in SUBSET Row,
           Lists(seq, K, ById), Orders(ById, K)
    PROVE  Lists(RadarOrder(seq, reader.req), K, AheadPairs)
  <1> DEFINE sort == reader.req.sort
             desc == reader.req.desc
             lacking == {k \in DOMAIN seq : ValueOf(seq[k], sort) = Null}
             present == Where(seq, DOMAIN seq \ lacking)
             missing == Where(seq, lacking)
             tiekey == [k \in DOMAIN present |-> TieKey(present[k], sort)]
             tied == Pass(present, tiekey, TRUE)
             valkey == [k \in DOMAIN tied |-> ValueOf(tied[k], sort)]
             sorted == Pass(tied, valkey, desc)
             actkey == [k \in DOMAIN missing |-> missing[k].activity]
             last == Pass(missing, actkey, TRUE)
             L == {c \in K : ValueOf(c, sort) = Null}
             P == K \ L
             f == [c \in P |-> TieKey(c, sort)]
             g == [c \in P |-> ValueOf(c, sort)]
             h == [c \in L |-> c.activity]
             R == By(f, TRUE, ById, P)
             Q == By(g, desc, R, P)
             M == By(h, TRUE, ById, L)
  <1>1. RadarOrder(seq, reader.req) = sorted \o last
    BY DEF RadarOrder
  <1>2. desc \in BOOLEAN
    BY DEF Radar, Request
  <1>3. \A k \in DOMAIN seq : seq[k] \in K
    BY ListsDomain
  <1>4. lacking = {k \in DOMAIN seq : seq[k] \in L}
    BY <1>3
  <1>5. DOMAIN seq \ lacking = {k \in DOMAIN seq : seq[k] \in P}
    BY <1>3
  <1>6. \A c \in P : ValueOf(c, sort) \in Int /\ TieKey(c, sort) \in Int
    BY KeyTypes
  <1>7. \A c \in K : c.activity \in Int /\ c.id \in Nat
    BY KeyTypes
  <1>8. f \in [P -> Int] /\ g \in [P -> Int] /\ h \in [L -> Int]
    BY <1>6, <1>7
  <1>9. L \in SUBSET K /\ P \in SUBSET K /\ L \cap P = {} /\ K = P \cup L
    OBVIOUS
  <1>10. /\ \A c \in P : f[c] = TieKey(c, sort) /\ g[c] = ValueOf(c, sort) /\ ValueOf(c, sort) # Null
         /\ \A c \in L : h[c] = c.activity /\ ValueOf(c, sort) = Null
    OBVIOUS
  <1>11. /\ \A k \in DOMAIN present : tiekey[k] = TieKey(present[k], sort)
         /\ \A k \in DOMAIN tied : valkey[k] = ValueOf(tied[k], sort)
         /\ \A k \in DOMAIN missing : actkey[k] = missing[k].activity
    OBVIOUS
  <1> HIDE DEF sort, desc, lacking, present, missing, tiekey, tied, valkey, sorted, actkey, last,
               L, P, f, g, h, R, Q, M
  <1>12. \A x \in K : <<x, x>> \notin ById
    BY DEF Orders
  <1>13. Lists(present, P, ById)
    BY <1>5, <1>9, <1>12, FilterLists DEF present
  <1>14. Lists(missing, L, ById)
    BY <1>4, <1>9, <1>12, FilterLists DEF missing
  <1>15. Orders(ById, P) /\ Orders(ById, L)
    BY <1>9, OrdersSubset
  <1>16. Lists(tied, P, R)
    <2>1. \A k \in 1 .. Cardinality(P) : tiekey[k] = f[present[k]]
      BY <1>10, <1>11, <1>13, ListsDomain
    <2> QED BY <1>8, <1>13, <1>15, <2>1, PassLists DEF tied, R
  <1>17. Orders(R, P)
    BY <1>8, <1>15, ByOrders DEF R
  <1>18. Lists(sorted, P, Q)
    <2>1. \A k \in 1 .. Cardinality(P) : valkey[k] = g[tied[k]]
      BY <1>10, <1>11, <1>16, ListsDomain
    <2> QED BY <1>2, <1>8, <1>16, <1>17, <2>1, PassLists DEF sorted, Q
  <1>19. Lists(last, L, M)
    <2>1. \A k \in 1 .. Cardinality(L) : actkey[k] = h[missing[k]]
      BY <1>10, <1>11, <1>14, ListsDomain
    <2> QED BY <1>8, <1>14, <1>15, <2>1, PassLists DEF last, M
  <1>20. ASSUME NEW x \in P, NEW y \in P, <<x, y>> \in Q PROVE <<x, y>> \in AheadPairs
    <2>1. IF g[x] = g[y] THEN <<x, y>> \in R
          ELSE (desc /\ g[y] < g[x]) \/ (~desc /\ g[x] < g[y])
      BY <1>2, <1>8, <1>20, ByMeans DEF Q
    <2>2. g[x] = g[y] => IF f[x] = f[y] THEN <<x, y>> \in ById ELSE f[y] < f[x]
      BY <1>8, <2>1, ByMeans DEF R
    <2>3. f[x] \in Int /\ f[y] \in Int /\ g[x] \in Int /\ g[y] \in Int /\ x \in K /\ y \in K
      BY <1>8, <1>9
    <2>4. /\ g[x] # g[y] => (desc /\ g[x] > g[y]) \/ (~desc /\ ~(g[x] > g[y]))
          /\ g[x] = g[y] => f[x] > f[y] \/ (f[x] = f[y] /\ x.id < y.id)
      <3>1. <<x, y>> \in ById => x.id < y.id
        BY DEF ById
      <3> QED BY <2>1, <2>2, <2>3, <3>1
    <2>5. g[x] # g[y] => ((g[x] > g[y]) = desc)
      <3>1. CASE desc
        BY <1>2, <2>4, <3>1
      <3>2. CASE ~desc
        BY <1>2, <2>4, <3>2
      <3> QED BY <3>1, <3>2
    <2>6. Ahead(x, y)
      BY <1>10, <2>4, <2>5 DEF Ahead, sort, desc
    <2> QED BY <2>3, <2>6 DEF AheadPairs
  <1>21. ASSUME NEW x \in L, NEW y \in L, <<x, y>> \in M PROVE <<x, y>> \in AheadPairs
    <2>1. IF h[x] = h[y] THEN <<x, y>> \in ById ELSE h[y] < h[x]
      BY <1>8, <1>21, ByMeans DEF M
    <2>2. h[x] \in Int /\ h[y] \in Int /\ x \in K /\ y \in K
      BY <1>8, <1>9
    <2>3. h[x] > h[y] \/ (h[x] = h[y] /\ x.id < y.id)
      <3>1. <<x, y>> \in ById => x.id < y.id
        BY DEF ById
      <3> QED BY <2>1, <2>2, <3>1
    <2>4. Ahead(x, y)
      BY <1>10, <2>3 DEF Ahead, sort
    <2> QED BY <2>2, <2>4 DEF AheadPairs
  <1>22. ASSUME NEW x \in P, NEW y \in L PROVE <<x, y>> \in AheadPairs
    <2>1. Ahead(x, y)
      BY <1>10 DEF Ahead, sort
    <2> QED BY <1>9, <2>1 DEF AheadPairs
  <1>23. Lists(sorted, P, AheadPairs) /\ Lists(last, L, AheadPairs)
    BY <1>18, <1>19, <1>20, <1>21, ListsWeaken
  <1>24. Lists(sorted \o last, P \cup L, AheadPairs)
    BY <1>9, <1>22, <1>23, ConcatLists
  <1> QED BY <1>1, <1>9, <1>24

(* The list of a request has what its filters leave, in the order asked for. *)
LEMMA ArrangedLists ==
    ASSUME Radar, NEW cards \in Seq(Row), Ascending(cards)
    PROVE  Lists(Arranged(cards, reader.req),
                 {c \in Rows(cards) : Kept(c, reader.req)}, AheadPairs)
  <1> DEFINE req == reader.req
             floor == req.floor
             K == {c \in Rows(cards) : floor # Null => c.score # Null /\ c.score >= floor}
             W == {c \in Rows(cards) : Kept(c, req)}
             kept == Filtered(cards, floor)
  <1>1. floor \in Maybe
    BY DEF Radar, Request
  <1> HIDE DEF floor
  <1>2. Lists(kept, K, ById) /\ Orders(ById, K) /\ K \in SUBSET Row
    BY <1>1, FilteredLists
  <1> HIDE DEF kept
  <1>3. CASE req.list = "library"
    <2>1. Arranged(cards, req) = LibraryOrder(kept, req)
      BY <1>3 DEF Arranged, kept, floor
    <2>2. W = K
      BY <1>3 DEF Kept, floor
    <2> HIDE DEF K, W
    <2> QED BY <1>2, <1>3, <2>1, <2>2, LibraryLists DEF W
  <1>4. CASE req.list = "radar" /\ req.sort # "score"
    <2>1. Arranged(cards, req) = RadarOrder(kept, req)
      BY <1>4 DEF Arranged, kept, floor
    <2>2. W = K
      BY <1>4 DEF Kept, floor
    <2> HIDE DEF K, W
    <2> QED BY <1>2, <1>4, <2>1, <2>2, RadarLists DEF W
  <1>5. CASE req.list = "radar" /\ req.sort = "score"
    <2> DEFINE all == RadarOrder(kept, req)
               I == {k \in DOMAIN all : all[k].score # Null}
    <2>1. Arranged(cards, req) = Where(all, I)
      BY <1>5 DEF Arranged, Scored, kept, floor
    <2>2. W = {c \in K : c.score # Null}
      BY <1>5 DEF Kept, floor
    <2> HIDE DEF K, W, all
    <2>3. Lists(all, K, AheadPairs)
      BY <1>2, <1>5, RadarLists DEF all
    <2>4. I = {k \in DOMAIN all : all[k] \in W}
      BY <2>2, <2>3, ListsDomain
    <2>5. \A x \in K : <<x, x>> \notin AheadPairs
      BY <1>2, AheadOnce
    <2>6. W \in SUBSET K
      BY <2>2
    <2> HIDE DEF I
    <2>7. Lists(Where(all, I), W, AheadPairs)
      BY <2>3, <2>4, <2>5, <2>6, FilterLists
    <2> QED BY <2>1, <2>7 DEF W
  <1> QED BY <1>3, <1>4, <1>5 DEF Radar

-----------------------------------------------------------------------------
(* Evidence and signals *)

PrecedesPairs(E, rank) == {p \in E \X E : Precedes(p[1], p[2], rank)}

LEMMA PrecedesOrders ==
    ASSUME NEW E \in SUBSET EntryRow, NEW rank \in [E -> Int],
           \A x, y \in E : rank[x] = rank[y] /\ x.id = y.id => x = y
    PROVE  Orders(PrecedesPairs(E, rank), E)
  <1> DEFINE Q == PrecedesPairs(E, rank)
  <1>1. ASSUME NEW x \in E
        PROVE  rank[x] \in Int /\ x.id \in Nat /\ (x.at # Null => x.at \in Nat)
    BY PagesAssumption DEF EntryRow, Maybe
  <1>2. ASSUME NEW x \in E, NEW y \in E
        PROVE  <<x, y>> \in Q <=> Precedes(x, y, rank)
    BY DEF PrecedesPairs
  <1> HIDE DEF Q
  <1>3. \A x \in E : <<x, x>> \notin Q
    BY <1>1, <1>2 DEF Precedes
  <1>4. ASSUME NEW x \in E, NEW y \in E, x # y PROVE <<x, y>> \in Q \/ <<y, x>> \in Q
    <2>1. Precedes(x, y, rank) \/ Precedes(y, x, rank)
      BY <1>1, <1>4 DEF Precedes, Newer
    <2> QED BY <1>2, <2>1
  <1>5. ASSUME NEW x \in E, NEW y \in E, NEW z \in E, <<x, y>> \in Q, <<y, z>> \in Q
        PROVE  <<x, z>> \in Q
    <2>1. Precedes(x, y, rank) /\ Precedes(y, z, rank)
      BY <1>2, <1>5
    <2>2. Precedes(x, z, rank)
      BY <1>1, <2>1 DEF Precedes, Newer
    <2> QED BY <1>2, <2>2
  <1> QED BY <1>3, <1>4, <1>5 DEF Orders, Q

LEMMA ImageFinite ==
    ASSUME NEW S, IsFiniteSet(S), NEW f, f = [x \in S |-> f[x]], NEW T, T = {f[x] : x \in S}
    PROVE  IsFiniteSet(T)
  <1>1. f \in Surjection(S, T)
    BY DEF Surjection
  <1> QED BY <1>1, FS_Surjection

LEMMA OldestIs ==
    ASSUME NEW notes \in SUBSET Note, notes # {}
    PROVE  Oldest(notes) \in notes
  <1>1. \E n \in notes : \A m \in notes : n <= m
    BY PagesAssumption, Least
  <1> QED BY <1>1 DEF Oldest

LEMMA PieceFields ==
    ASSUME PageTypes, NEW p \in Piece
    PROVE  /\ p \in Nat /\ p # Null
           /\ piece[p].at \in Maybe /\ piece[p].notes \in SUBSET Note
           /\ piece[p].effective \in BOOLEAN /\ piece[p].linked \in BOOLEAN
  BY PagesAssumption DEF PageTypes, PieceRow

LEMMA EntryIs ==
    ASSUME PageTypes, NEW p \in Piece, NEW id \in Piece \cup Note,
           NEW kind \in {"explicit", "explicit_signal", "linked_signal"}
    PROVE  /\ Entry(kind, id, p) \in EntryRow
           /\ Entry(kind, id, p) = [kind |-> kind, id |-> id, signal |-> p, at |-> piece[p].at]
  BY PieceFields DEF Entry, EntryRow

(* The three sources of evidence. *)
Linked == {p \in Piece : piece[p].effective /\ piece[p].linked}
Noted == {p \in Piece : piece[p].effective /\ ~piece[p].linked /\ piece[p].notes # {}}

LEMMA EntriesAre ==
    ASSUME PageTypes
    PROVE  /\ Entries = {Entry("linked_signal", p, p) : p \in Linked}
                        \cup {Entry("explicit_signal", Oldest(piece[p].notes), p) : p \in Noted}
                        \cup {Entry("explicit", n, Null) : n \in Alone}
           /\ Entries \in SUBSET EntryRow
           /\ IsFiniteSet(Entries)
  <1> DEFINE A == {Entry("linked_signal", p, p) : p \in Linked}
             B == {Entry("explicit_signal", Oldest(piece[p].notes), p) : p \in Noted}
             C == {Entry("explicit", n, Null) : n \in Alone}
             f == [p \in Linked |-> Entry("linked_signal", p, p)]
             g == [p \in Noted |-> Entry("explicit_signal", Oldest(piece[p].notes), p)]
             h == [n \in Alone |-> Entry("explicit", n, Null)]
  <1>1. Entries = A \cup B \cup C
    <2>1. Linked = {p \in {q \in Piece : piece[q].effective} : piece[p].linked}
      BY DEF Linked
    <2>2. Noted = {p \in {q \in Piece : piece[q].effective} \ Linked : piece[p].notes # {}}
      BY DEF Noted, Linked
    <2> QED BY <2>1, <2>2, Zenon DEF Entries
  <1>2. IsFiniteSet(Linked) /\ IsFiniteSet(Noted) /\ IsFiniteSet(Alone)
    <2>1. Linked \in SUBSET Piece /\ Noted \in SUBSET Piece /\ Alone \in SUBSET Note
      BY DEF Linked, Noted, Alone
    <2> QED BY <2>1, FS_Subset, PagesAssumption
  <1>3. /\ f = [p \in Linked |-> f[p]] /\ A = {f[p] : p \in Linked}
        /\ g = [p \in Noted |-> g[p]] /\ B = {g[p] : p \in Noted}
        /\ h = [n \in Alone |-> h[n]] /\ C = {h[n] : n \in Alone}
    OBVIOUS
  <1>4. A \in SUBSET EntryRow
    BY EntryIs DEF Linked
  <1>5. B \in SUBSET EntryRow
    <2>1. \A p \in Noted : p \in Piece /\ Oldest(piece[p].notes) \in Note
      BY PieceFields, OldestIs DEF Noted
    <2> QED BY <2>1, EntryIs
  <1>6. C \in SUBSET EntryRow
    BY PagesAssumption DEF Alone, Entry, EntryRow, Maybe
  <1> HIDE DEF A, B, C, f, g, h
  <1>7. IsFiniteSet(A) /\ IsFiniteSet(B) /\ IsFiniteSet(C)
    BY <1>2, <1>3, ImageFinite
  <1>8. IsFiniteSet(A \cup B \cup C)
    BY <1>7, FS_Union
  <1>9. A \cup B \cup C \in SUBSET EntryRow
    BY <1>4, <1>5, <1>6
  <1> QED BY <1>1, <1>8, <1>9 DEF A, B, C

(* Its kind and id tell an entry. *)
LEMMA EntryOnce ==
    ASSUME PageTypes, NEW x \in Entries, NEW y \in Entries
    PROVE  /\ x.kind = y.kind /\ x.id = y.id => x = y
           /\ x.signal = y.signal /\ x # y => x.signal = Null
  <1> DEFINE IsLinked(e) == \E p \in Linked : e = Entry("linked_signal", p, p)
             IsNoted(e) == \E p \in Noted : e = Entry("explicit_signal", Oldest(piece[p].notes), p)
             IsAlone(e) == \E n \in Alone : e = Entry("explicit", n, Null)
  <1>1. \A e \in Entries : IsLinked(e) \/ IsNoted(e) \/ IsAlone(e)
    BY EntriesAre
  <1>2. ASSUME NEW e \in Entries, IsLinked(e)
        PROVE  /\ e.kind = "linked_signal" /\ e.id = e.signal /\ e.signal \in Linked
               /\ e = Entry("linked_signal", e.id, e.id) /\ e.signal # Null
    BY <1>2, EntryIs, PieceFields DEF Linked
  <1>3. ASSUME NEW e \in Entries, IsNoted(e)
        PROVE  /\ e.kind = "explicit_signal" /\ e.signal \in Noted
               /\ e.id \in piece[e.signal].notes
               /\ e = Entry("explicit_signal", Oldest(piece[e.signal].notes), e.signal)
               /\ e.signal # Null
    <2>1. PICK p \in Noted : e = Entry("explicit_signal", Oldest(piece[p].notes), p)
      BY <1>3
    <2>2. p \in Piece /\ Oldest(piece[p].notes) \in piece[p].notes
          /\ Oldest(piece[p].notes) \in Note
      BY PieceFields, OldestIs DEF Noted
    <2>3. e.kind = "explicit_signal" /\ e.signal = p /\ e.id = Oldest(piece[p].notes)
      BY <2>1, <2>2, EntryIs
    <2>4. p # Null
      BY <2>2, PieceFields
    <2> QED BY <2>1, <2>2, <2>3, <2>4
  <1>4. ASSUME NEW e \in Entries, IsAlone(e)
        PROVE  e.kind = "explicit" /\ e = Entry("explicit", e.id, Null) /\ e.signal = Null
    BY <1>4 DEF Entry
  <1> HIDE DEF IsLinked, IsNoted, IsAlone
  <1>5. x.kind = y.kind /\ x.id = y.id => x = y
    <2>1. CASE IsLinked(x) /\ IsLinked(y)
      BY <1>2, <2>1
    <2>2. CASE IsAlone(x) /\ IsAlone(y)
      BY <1>4, <2>2
    <2>3. CASE IsNoted(x) /\ IsNoted(y)
      <3>1. x.id = y.id => x.signal = y.signal
        <4>1. x.signal \in Piece /\ y.signal \in Piece
          BY <1>3, <2>3 DEF Noted
        <4>2. x.id \in piece[x.signal].notes /\ y.id \in piece[y.signal].notes
          BY <1>3, <2>3
        <4> QED BY <4>1, <4>2 DEF PageTypes
      <3> QED BY <1>3, <2>3, <3>1
    <2> QED BY <1>1, <1>2, <1>3, <1>4, <2>1, <2>2, <2>3
  <1>6. x.signal = y.signal /\ x # y => x.signal = Null
    <2>1. Linked \cap Noted = {}
      BY DEF Linked, Noted
    <2> QED BY <1>1, <1>2, <1>3, <1>4, <2>1
  <1> QED BY <1>5, <1>6

EvidenceOrder == PrecedesPairs(Entries, [e \in Entries |-> KindRank[e.kind]])
FeedOrder == PrecedesPairs(FeedEntries, [e \in FeedEntries |-> -e.id])

LEMMA EvidenceListed ==
    ASSUME PageTypes
    PROVE  Lists(EvidenceRows, Entries, EvidenceOrder) /\ Orders(EvidenceOrder, Entries)
  <1> DEFINE rank == [e \in Entries |-> KindRank[e.kind]]
  <1>1. /\ rank \in [Entries -> Int]
        /\ \A x, y \in Entries : rank[x] = rank[y] => x.kind = y.kind
    <2>1. \A e \in Entries : e.kind \in {"explicit", "explicit_signal", "linked_signal"}
      BY EntriesAre DEF EntryRow
    <2>2. /\ KindRank["explicit"] = 1 /\ KindRank["explicit_signal"] = 2
          /\ KindRank["linked_signal"] = 3
      BY DEF KindRank
    <2> QED BY <2>1, <2>2
  <1>2. EvidenceRows = Enumeration(Entries, PrecedesPairs(Entries, rank))
    BY DEF EvidenceRows, ByObserved, PrecedesPairs
  <1>3. EvidenceOrder = PrecedesPairs(Entries, rank)
    BY DEF EvidenceOrder
  <1> HIDE DEF rank
  <1>4. Entries \in SUBSET EntryRow /\ IsFiniteSet(Entries)
    BY EntriesAre
  <1>5. \A x, y \in Entries : rank[x] = rank[y] /\ x.id = y.id => x = y
    BY <1>1, EntryOnce
  <1>6. Orders(PrecedesPairs(Entries, rank), Entries)
    BY <1>1, <1>4, <1>5, PrecedesOrders
  <1> QED BY <1>2, <1>3, <1>4, <1>6, EnumerationLists

LEMMA FeedListed ==
    ASSUME PageTypes
    PROVE  /\ Lists(FeedRows, FeedEntries, FeedOrder)
           /\ FeedEntries \in SUBSET EntryRow
           /\ {e.id : e \in FeedEntries} = {p \in Piece : piece[p].effective}
  <1> DEFINE rank == [e \in FeedEntries |-> -e.id]
             S == {q \in Piece : piece[q].effective}
             f == [p \in S |-> Entry("linked_signal", p, p)]
  <1>1. \A p \in S : /\ Entry("linked_signal", p, p) \in EntryRow
                     /\ Entry("linked_signal", p, p).id = p
    BY EntryIs
  <1>2. FeedEntries \in SUBSET EntryRow /\ {e.id : e \in FeedEntries} = S
    BY <1>1 DEF FeedEntries
  <1>3. \A x, y \in FeedEntries : x.id = y.id => x = y
    BY <1>1 DEF FeedEntries
  <1>4. IsFiniteSet(FeedEntries)
    <2>1. IsFiniteSet(S)
      BY FS_Subset, PagesAssumption
    <2>2. f = [p \in S |-> f[p]] /\ FeedEntries = {f[p] : p \in S}
      BY DEF FeedEntries
    <2> HIDE DEF f, S
    <2> QED BY <2>1, <2>2, ImageFinite
  <1>5. /\ FeedRows = Enumeration(FeedEntries, PrecedesPairs(FeedEntries, rank))
        /\ FeedOrder = PrecedesPairs(FeedEntries, rank)
    BY DEF FeedRows, FeedOrder, ByObserved, PrecedesPairs
  <1>6. rank \in [FeedEntries -> Int]
    <2>1. \A e \in FeedEntries : e.id \in Nat
      BY <1>2, PagesAssumption DEF EntryRow
    <2> QED BY <2>1
  <1> HIDE DEF rank
  <1>7. Orders(PrecedesPairs(FeedEntries, rank), FeedEntries)
    BY <1>2, <1>3, <1>6, PrecedesOrders
  <1> QED BY <1>2, <1>4, <1>5, <1>7, EnumerationLists

-----------------------------------------------------------------------------
(* The list of a request, read all at once *)

LEMMA IdsListed ==
    ASSUME PageTypes
    PROVE  /\ Len(Ids) \in Nat /\ DOMAIN Ids = 1 .. Len(Ids)
           /\ \A k \in DOMAIN Ids : Ids[k] \in Card
           /\ \A i, j \in DOMAIN Ids : i < j => Ids[i] < Ids[j]
           /\ {c \in Card : card[c].shown} = {Ids[k] : k \in DOMAIN Ids}
  <1> DEFINE A == {c \in Card : card[c].shown}
  <1>1. IsFiniteSet(A)
    BY FS_Subset, PagesAssumption
  <1>2. Orders(Upwards(Card), A)
    BY UpwardsOrders, OrdersSubset, PagesAssumption
  <1>3. A \subseteq Card
    OBVIOUS
  <1> HIDE DEF A
  <1>4. Lists(Enumeration(A, Upwards(Card)), A, Upwards(Card))
    BY <1>1, <1>2, EnumerationLists
  <1>5. Ids = Enumeration(A, Upwards(Card))
    BY DEF Ids, A
  <1>6. Lists(Ids, A, Upwards(Card))
    BY <1>4, <1>5
  <1>7. /\ Len(Ids) \in Nat /\ DOMAIN Ids = 1 .. Len(Ids)
        /\ \A k \in DOMAIN Ids : Ids[k] \in A
        /\ A = {Ids[k] : k \in DOMAIN Ids}
    BY <1>6, ListsDomain
  <1>8. \A i, j \in DOMAIN Ids : i < j => Ids[i] < Ids[j]
    <2>1. \A i, j \in DOMAIN Ids : i < j => <<Ids[i], Ids[j]>> \in Upwards(Card)
      BY <1>6, ListsDomain DEF Lists
    <2> QED BY <2>1 DEF Upwards
  <1> QED BY <1>3, <1>7, <1>8 DEF A

LEMMA CardFields ==
    ASSUME PageTypes, NEW c \in Card
    PROVE  /\ card[c].shown \in BOOLEAN /\ card[c].score \in Maybe
           /\ card[c].momentum \in Maybe /\ card[c].activity \in Level
  BY DEF PageTypes, CardRow

LEMMA SeqOf ==
    ASSUME NEW n \in Nat, NEW S, NEW s, s = [k \in 1 .. n |-> s[k]], \A k \in 1 .. n : s[k] \in S
    PROVE  s \in Seq(S) /\ Len(s) = n /\ DOMAIN s = 1 .. n
  <1>1. s \in [1 .. n -> S]
    OBVIOUS
  <1> QED BY <1>1

LEMMA CardsRead ==
    ASSUME PageTypes
    PROVE  /\ Listed \in Seq(Row) /\ Ascending(Listed)
           /\ TrendsRead \in Seq(Row) /\ Ascending(TrendsRead)
           /\ Rows(TrendsRead) =
                {[id |-> c, score |-> card[c].score, momentum |-> card[c].momentum,
                  activity |-> card[c].activity] : c \in {d \in Card : card[d].shown}}
  <1> DEFINE n == Len(Ids)
  <1>1. n \in Nat /\ DOMAIN Ids = 1 .. n /\ \A k \in 1 .. n : Ids[k] \in Card
    BY IdsListed
  <1>2. \A i, j \in 1 .. n : i < j => Ids[i] < Ids[j]
    BY IdsListed
  <1> HIDE DEF n
  <1>3. /\ Listed = [k \in 1 .. n |-> Listed[k]]
        /\ \A k \in 1 .. n : Listed[k] \in Row /\ Listed[k].id = Ids[k]
    BY <1>1, CardFields DEF Listed, Row, Maybe
  <1>4. /\ TrendsRead = [k \in 1 .. n |-> TrendsRead[k]]
        /\ \A k \in 1 .. n : TrendsRead[k] \in Row /\ TrendsRead[k].id = Ids[k]
    BY <1>1, CardFields DEF TrendsRead, Row
  <1>5. Listed \in Seq(Row) /\ DOMAIN Listed = 1 .. n
    BY <1>1, <1>3, SeqOf
  <1>6. TrendsRead \in Seq(Row) /\ DOMAIN TrendsRead = 1 .. n
    BY <1>1, <1>4, SeqOf
  <1>7. Ascending(Listed) /\ Ascending(TrendsRead)
    BY <1>2, <1>3, <1>4, <1>5, <1>6 DEF Ascending
  <1>8. Rows(TrendsRead) =
          {[id |-> c, score |-> card[c].score, momentum |-> card[c].momentum,
            activity |-> card[c].activity] : c \in {d \in Card : card[d].shown}}
    <2>1. {d \in Card : card[d].shown} = {Ids[k] : k \in 1 .. n}
      BY <1>1, IdsListed
    <2>2. \A k \in 1 .. n : TrendsRead[k] =
            [id |-> Ids[k], score |-> card[Ids[k]].score, momentum |-> card[Ids[k]].momentum,
             activity |-> card[Ids[k]].activity]
      BY <1>1 DEF TrendsRead
    <2> QED BY <1>6, <2>1, <2>2 DEF Rows
  <1> QED BY <1>5, <1>6, <1>7, <1>8

(* The list has what is wanted, and nothing else. *)
LEMMA ListingIs ==
    ASSUME PageTypes
    PROVE  /\ Listing \in Seq(Row \cup EntryRow)
           /\ Len(Listing) \in Nat /\ DOMAIN Listing = 1 .. Len(Listing)
           /\ \A k \in 1 .. Len(Listing) : Listing[k].id \in Nat
           /\ Wanted = {Listing[k].id : k \in 1 .. Len(Listing)}
           /\ reader.req.list = "evidence" => Len(Listing) = Cardinality(Entries)
  <1>1. reader.req \in Request
    BY DEF PageTypes, ReaderRow
  <1>2. \A e \in Row \cup EntryRow : e.id \in Nat
    BY PagesAssumption DEF Row, EntryRow
  <1>3. ASSUME NEW S \in SUBSET (Row \cup EntryRow), NEW R, Lists(Listing, S, R),
               Wanted = {e.id : e \in S}
        PROVE  /\ Listing \in Seq(Row \cup EntryRow)
               /\ Len(Listing) \in Nat /\ DOMAIN Listing = 1 .. Len(Listing)
               /\ \A k \in 1 .. Len(Listing) : Listing[k].id \in Nat
               /\ Wanted = {Listing[k].id : k \in 1 .. Len(Listing)}
               /\ Len(Listing) = Cardinality(S)
    <2>1. /\ Listing \in Seq(S) /\ Len(Listing) = Cardinality(S)
          /\ Len(Listing) \in Nat /\ DOMAIN Listing = 1 .. Len(Listing)
          /\ S = {Listing[k] : k \in 1 .. Len(Listing)}
          /\ \A k \in 1 .. Len(Listing) : Listing[k] \in S
      BY <1>3, ListsDomain
    <2>2. Listing \in Seq(Row \cup EntryRow)
      BY <2>1, SeqMonotonic
    <2>3. {e.id : e \in S} = {Listing[k].id : k \in 1 .. Len(Listing)}
      BY <2>1
    <2> QED BY <1>2, <1>3, <2>1, <2>2, <2>3
  <1>4. CASE reader.req.list = "evidence"
    <2>1. Listing = EvidenceRows /\ Wanted = {e.id : e \in Entries}
      BY <1>4 DEF Listing, Wanted
    <2>2. Lists(Listing, Entries, EvidenceOrder) /\ Entries \in SUBSET (Row \cup EntryRow)
      BY <2>1, EvidenceListed, EntriesAre
    <2> QED BY <1>3, <2>1, <2>2
  <1>5. CASE reader.req.list = "feed"
    <2>1. Listing = FeedRows /\ Wanted = {p \in Piece : piece[p].effective}
      BY <1>5 DEF Listing, Wanted
    <2>2. Lists(Listing, FeedEntries, FeedOrder) /\ FeedEntries \in SUBSET (Row \cup EntryRow)
          /\ Wanted = {e.id : e \in FeedEntries}
      BY <2>1, FeedListed
    <2> QED BY <1>3, <1>5, <2>2
  <1>6. CASE reader.req.list \in {"radar", "library"}
    <2> DEFINE req == reader.req
               row(c) == [id |-> c, score |-> card[c].score, momentum |-> card[c].momentum,
                          activity |-> card[c].activity]
               A == {d \in Card : card[d].shown}
               S == {c \in Rows(TrendsRead) : Kept(c, req)}
    <2>1. Listing = Arranged(TrendsRead, req)
      BY <1>6 DEF Listing
    <2>2. TrendsRead \in Seq(Row) /\ Ascending(TrendsRead) /\ Rows(TrendsRead) = {row(c) : c \in A}
      BY CardsRead
    <2>3. Lists(Listing, S, AheadPairs)
      BY <1>1, <1>6, <2>1, <2>2, ArrangedLists DEF Radar
    <2>4. S \in SUBSET (Row \cup EntryRow)
      BY <2>2, RowsListed
    <2>5. Wanted = {c \in Card : card[c].shown /\ Kept(row(c), req)}
      BY <1>6 DEF Wanted, Kept
    <2>6. {e.id : e \in S} = {c \in Card : card[c].shown /\ Kept(row(c), req)}
      <3>1. \A c : row(c).id = c
        OBVIOUS
      <3> HIDE DEF row
      <3> QED BY <2>2, <3>1
    <2> HIDE DEF S
    <2>7. Wanted = {e.id : e \in S}
      BY <2>5, <2>6
    <2> QED BY <1>3, <1>6, <2>3, <2>4, <2>7
  <1> QED BY <1>1, <1>4, <1>5, <1>6 DEF Request

LEMMA SliceIs ==
    ASSUME NEW S, NEW all \in Seq(S), NEW offset \in Nat
    PROVE  LET page == Slice(all, offset)  n == Len(all)
           IN  /\ page \in Seq(S)
               /\ Len(page) = IF n <= offset THEN 0
                              ELSE IF n - offset <= PageSize THEN n - offset ELSE PageSize
               /\ \A k \in 1 .. Len(page) : page[k] = all[offset + k] /\ offset + k \in 1 .. n
  <1> DEFINE page == Slice(all, offset)
             n == Len(all)
             to == IF n <= offset + PageSize THEN n ELSE offset + PageSize
  <1>1. n \in Nat /\ PageSize \in Nat \ {0} /\ \A i \in 1 .. n : all[i] \in S
    BY PagesAssumption
  <1> HIDE DEF n
  <1>2. Min({n, offset + PageSize}) = to
    <2>1. to \in {n, offset + PageSize} /\ \A y \in {n, offset + PageSize} : to <= y
      BY <1>1
    <2>2. \A x \in {n, offset + PageSize} :
            (\A y \in {n, offset + PageSize} : x <= y) => x = to
      BY <1>1
    <2> HIDE DEF to
    <2> QED BY <2>1, <2>2 DEF Min
  <1>3. to \in Int /\ to <= n /\ to <= offset + PageSize
    BY <1>1
  <1>4. page = SubSeq(all, offset + 1, to)
    BY <1>2 DEF Slice, n
  <1>5. \A i \in offset + 1 .. to : i \in 1 .. n
    <2> HIDE DEF to
    <2> QED BY <1>1, <1>3
  <1>6. /\ page \in Seq(S)
        /\ Len(page) = IF offset + 1 <= to THEN to - (offset + 1) + 1 ELSE 0
        /\ \A i \in 1 .. to - (offset + 1) + 1 : page[i] = all[offset + 1 + i - 1]
    <2> HIDE DEF page, to
    <2>1. \A i \in offset + 1 .. to : all[i] \in S
      BY <1>1, <1>5
    <2>2. offset + 1 \in Int
      OBVIOUS
    <2> QED BY <1>3, <1>4, <2>1, <2>2, SubSeqProperties
  <1>7. Len(page) = IF n <= offset THEN 0
                    ELSE IF n - offset <= PageSize THEN n - offset ELSE PageSize
    <2> HIDE DEF page
    <2> QED BY <1>1, <1>6
  <1>8. ASSUME NEW k \in 1 .. Len(page)
        PROVE  page[k] = all[offset + k] /\ offset + k \in 1 .. n
    <2> HIDE DEF page, to
    <2>1. k \in 1 .. to - (offset + 1) + 1 /\ k \in Nat /\ offset + k \in offset + 1 .. to
      BY <1>3, <1>6
    <2>2. offset + 1 + k - 1 = offset + k
      BY <2>1
    <2> QED BY <1>5, <1>6, <2>1, <2>2
  <1> QED BY <1>6, <1>7, <1>8 DEF n

-----------------------------------------------------------------------------
(* The steps *)

LEMMA StoreStands ==
    ASSUME UNCHANGED <<card, piece>>, reader'.req = reader.req
    PROVE  /\ Entries' = Entries /\ Listing' = Listing
           /\ Listed' = Listed /\ ScoresRead' = ScoresRead
           /\ \A n : FirstIds(n)' = FirstIds(n)
  <1>1. card' = card /\ piece' = piece
    OBVIOUS
  <1>2. Alone' = Alone /\ \A kind, id, p : Entry(kind, id, p)' = Entry(kind, id, p)
    BY <1>1 DEF Alone, Entry
  <1>3. Entries' = Entries
    BY <1>1, <1>2 DEF Entries
  <1>4. EvidenceRows' = EvidenceRows
    BY <1>3 DEF EvidenceRows
  <1>5. FeedEntries' = FeedEntries
    BY <1>1, <1>2 DEF FeedEntries
  <1>6. FeedRows' = FeedRows
    BY <1>5 DEF FeedRows
  <1>7. Ids' = Ids
    BY <1>1 DEF Ids
  <1>8. Listed' = Listed /\ ScoresRead' = ScoresRead /\ TrendsRead' = TrendsRead
    BY <1>1, <1>7 DEF Listed, ScoresRead, TrendsRead
  <1>9. Listing' = Listing
    BY <1>4, <1>6, <1>8 DEF Listing
  <1>10. \A n : FirstIds(n)' = FirstIds(n)
    BY <1>9 DEF FirstIds
  <1> QED BY <1>3, <1>8, <1>9, <1>10

LEMMA ReaderFields ==
    ASSUME PageTypes
    PROVE  /\ reader.req \in Request
           /\ reader.phase \in {"start", "scores", "trends", "rows", "over"}
           /\ reader.offset \in Nat /\ reader.cards \in Seq(Row)
           /\ reader.page \in Seq(Row \cup EntryRow) /\ reader.turned \in Seq(Nat)
           /\ reader.total \in Nat /\ reader.quiet \in BOOLEAN
  BY DEF PageTypes, ReaderRow

(* The pages turned and the one that follows are the beginning of the list. *)
LEMMA PageFollows ==
    ASSUME NEW all \in Seq(Row \cup EntryRow), \A k \in 1 .. Len(all) : all[k].id \in Nat,
           NEW offset \in Nat, offset <= Len(all),
           NEW turned \in Seq(Nat), turned = IdsOf(all, offset)
    PROVE  LET page == Slice(all, offset)
           IN  /\ offset + Len(page) \in Nat
               /\ turned \o [k \in DOMAIN page |-> page[k].id] = IdsOf(all, offset + Len(page))
  <1> DEFINE page == Slice(all, offset)
             m == Len(page)
             n == Len(all)
             more == [k \in DOMAIN page |-> page[k].id]
             both == turned \o more
             want == IdsOf(all, offset + m)
  <1>1. /\ page \in Seq(Row \cup EntryRow) /\ m \in Nat /\ DOMAIN page = 1 .. m
        /\ \A k \in 1 .. m : page[k] = all[offset + k] /\ offset + k \in 1 .. n
    BY SliceIs
  <1>2. Len(turned) = offset /\ \A k \in 1 .. offset : turned[k] = all[k].id
    BY DEF IdsOf
  <1>3. n \in Nat
    OBVIOUS
  <1> HIDE DEF m, n, page
  <1>4. /\ more = [k \in 1 .. m |-> more[k]]
        /\ \A k \in 1 .. m : more[k] = all[offset + k].id /\ more[k] \in Nat
    BY <1>1 DEF n
  <1> HIDE DEF more
  <1>5. more \in Seq(Nat) /\ Len(more) = m
    BY <1>1, <1>4, SeqOf
  <1>6. /\ both \in Seq(Nat) /\ Len(both) = offset + m
        /\ \A k \in 1 .. offset + m : both[k] = IF k <= offset THEN turned[k] ELSE more[k - offset]
    <2>1. /\ turned \o more \in Seq(Nat) /\ Len(turned \o more) = Len(turned) + Len(more)
          /\ \A k \in 1 .. Len(turned) + Len(more) : (turned \o more)[k] =
                IF k <= Len(turned) THEN turned[k] ELSE more[k - Len(turned)]
      BY <1>5, ConcatProperties
    <2> QED BY <1>2, <1>5, <2>1, Zenon
  <1> HIDE DEF both
  <1>7. ASSUME NEW k \in 1 .. offset + m PROVE both[k] = all[k].id
    <2>1. CASE k <= offset
      <3>1. k \in 1 .. offset
        BY <1>1, <2>1
      <3> QED BY <1>2, <1>6, <2>1, <3>1
    <2>2. CASE ~(k <= offset)
      <3>1. k - offset \in 1 .. m /\ offset + (k - offset) = k
        BY <1>1, <2>2
      <3> QED BY <1>4, <1>6, <2>2, <3>1
    <2> QED BY <2>1, <2>2
  <1>8. both = [k \in 1 .. offset + m |-> both[k]]
    BY <1>1, <1>6
  <1>9. both = want
    BY <1>7, <1>8 DEF IdsOf
  <1> HIDE DEF want
  <1>10. turned \o [k \in DOMAIN page |-> page[k].id] = want
    BY <1>9, Zenon DEF both, more
  <1>11. offset + Len(page) \in Nat
    BY <1>1 DEF m
  <1> QED BY <1>10, <1>11, Zenon DEF want, m, page

LEMMA TurnHolds ==
    ASSUME PagesInv, UNCHANGED <<card, piece, changes>>,
           NEW all \in Seq(Row \cup EntryRow), NEW total \in Nat, NEW more \in BOOLEAN,
           Turn(Slice(all, reader.offset), total, more),
           reader.phase # "over",
           reader.quiet => /\ all = Listing /\ total = Len(Listing)
                           /\ more => reader.offset + PageSize <= Len(Listing)
                           /\ ~more => Len(Listing) <= reader.offset + PageSize,
           reader.req.list \in {"radar", "library"} =>
               \A i, j \in 1 .. Len(all) : i < j => Ahead(all[i], all[j]),
           reader.req.list = "evidence" =>
               \A i, j \in 1 .. Len(all) :
                   i # j /\ all[i].signal = all[j].signal => all[i].signal = Null
    PROVE  PagesInv'
  <1> DEFINE offset == reader.offset
             page == Slice(all, offset)
             ids == [k \in DOMAIN page |-> page[k].id]
             m == Len(page)
  <1>1. PageTypes
    BY DEF PagesInv
  <1>2. offset \in Nat /\ reader.turned \in Seq(Nat) /\ PageSize \in Nat \ {0}
    BY <1>1, ReaderFields, PagesAssumption
  <1>3. /\ page \in Seq(Row \cup EntryRow) /\ m \in Nat /\ DOMAIN page = 1 .. m
        /\ m = IF Len(all) <= offset THEN 0
               ELSE IF Len(all) - offset <= PageSize THEN Len(all) - offset ELSE PageSize
        /\ \A k \in 1 .. m : page[k] = all[offset + k] /\ offset + k \in 1 .. Len(all)
    BY <1>2, SliceIs
  <1>4. ids \in Seq(Nat)
    <2>1. \A k \in 1 .. m : page[k].id \in Nat
      <3>1. \A e \in Row \cup EntryRow : e.id \in Nat
        BY PagesAssumption DEF Row, EntryRow
      <3>2. \A k \in 1 .. m : page[k] \in Row \cup EntryRow
        BY <1>3, ElementOfSeq
      <3> QED BY <3>1, <3>2
    <2>2. ids = [k \in 1 .. m |-> ids[k]] /\ \A k \in 1 .. m : ids[k] \in Nat
      BY <1>3, <2>1
    <2> HIDE DEF ids
    <2> QED BY <1>3, <2>2, SeqOf
  <1>5. reader' = [reader EXCEPT !.page = page, !.total = total, !.cards = <<>>,
                                 !.turned = reader.turned \o ids,
                                 !.offset = offset + PageSize,
                                 !.phase = IF more THEN "start" ELSE "over"]
    BY DEF Turn
  <1> HIDE DEF page, ids, m
  <1>6. reader.turned \o ids \in Seq(Nat)
    BY <1>2, <1>4, ConcatProperties
  <1>7. /\ reader'.req = reader.req /\ reader'.page = page /\ reader'.total = total
        /\ reader'.cards = <<>> /\ reader'.turned = reader.turned \o ids
        /\ reader'.offset = offset + PageSize /\ reader'.quiet = reader.quiet
        /\ reader'.phase = IF more THEN "start" ELSE "over"
        /\ reader' \in ReaderRow
    <2>1. reader \in ReaderRow
      BY <1>1 DEF PageTypes
    <2>2. offset + PageSize \in Nat
      BY <1>2
    <2>3. <<>> \in Seq(Row)
      BY EmptySeq
    <2> HIDE DEF offset
    <2> QED BY <1>3, <1>5, <1>6, <2>1, <2>2, <2>3 DEF ReaderRow
  <1>8. PageTypes'
    BY <1>1, <1>7 DEF PageTypes
  <1>9. Ascending(reader.cards)'
    BY <1>7 DEF Ascending
  <1>10. ASSUME reader'.quiet PROVE Settled'
    <2>1. reader.quiet /\ Settled
      BY <1>7, <1>10 DEF PagesInv
    <2>2. all = Listing /\ total = Len(Listing)
          /\ (more => offset + PageSize <= Len(Listing))
          /\ (~more => Len(Listing) <= offset + PageSize)
      BY <2>1
    <2>3. /\ Listing \in Seq(Row \cup EntryRow) /\ Len(Listing) \in Nat
          /\ \A k \in 1 .. Len(Listing) : Listing[k].id \in Nat
      BY <1>1, ListingIs
    <2>4. reader.turned = FirstIds(offset) /\ offset <= Len(Listing)
      BY <1>2, <2>1, <2>3 DEF Settled
    <2>5. page = Slice(Listing, offset)
      BY <2>2 DEF page
    <2>6. /\ offset + m \in Nat
          /\ reader.turned \o ids = FirstIds(offset + m)
      <3> HIDE DEF offset
      <3>1. reader.turned = IdsOf(Listing, offset)
        BY <2>4 DEF FirstIds
      <3>2. /\ offset + Len(page) \in Nat
            /\ reader.turned \o [k \in DOMAIN page |-> page[k].id]
                 = IdsOf(Listing, offset + Len(page))
        BY <1>2, <2>3, <2>4, <2>5, <3>1, PageFollows, Zenon
      <3> QED BY <3>2, Zenon DEF FirstIds, ids, m
    <2>7. offset <= Len(Listing)
      BY <2>4
    <2>8. offset + m <= Len(Listing) /\ (more => offset + m = offset + PageSize)
          /\ (~more => offset + m = Len(Listing))
      <3> DEFINE n == Len(Listing)
      <3>1. m = IF n <= offset THEN 0
                ELSE IF n - offset <= PageSize THEN n - offset ELSE PageSize
        BY <1>3, <2>2
      <3>2. /\ n \in Nat /\ offset \in Nat /\ offset <= n /\ PageSize \in Nat /\ PageSize > 0
            /\ (more => offset + PageSize <= n) /\ (~more => n <= offset + PageSize)
        BY <1>2, <2>2, <2>3, <2>7
      <3> HIDE DEF offset, n
      <3>3. offset + m <= n /\ (more => offset + m = offset + PageSize)
            /\ (~more => offset + m = n)
        BY <3>1, <3>2
      <3> QED BY <3>3 DEF n
    <2>9. reader'.turned = FirstIds(offset + m)
      BY <1>7, <2>6
    <2>10. Listing' = Listing /\ \A n : FirstIds(n)' = FirstIds(n)
      BY <1>7, StoreStands
    <2>11. CASE more
      <3>1. /\ reader'.phase = "start" /\ reader'.turned = FirstIds(reader'.offset)
            /\ reader'.offset <= Len(Listing)
        BY <1>7, <2>2, <2>8, <2>9, <2>11
      <3> QED BY <2>10, <3>1 DEF Settled
    <2>12. CASE ~more
      <3>1. /\ reader'.phase = "over" /\ reader'.turned = FirstIds(reader'.total)
            /\ reader'.total = Len(Listing)
        BY <1>7, <2>2, <2>8, <2>9, <2>12
      <3> QED BY <2>10, <3>1 DEF Settled
    <2> QED BY <2>11, <2>12
  <1>11. InOrder'
    <2>1. SUFFICES ASSUME reader'.req.list \in {"radar", "library"},
                          NEW i \in DOMAIN page, NEW j \in DOMAIN page, i < j
                   PROVE  Ahead(page[i], page[j])
      BY <1>7 DEF InOrder, Ahead
    <2>2. /\ offset + i \in 1 .. Len(all) /\ offset + j \in 1 .. Len(all)
          /\ offset + i < offset + j
          /\ page[i] = all[offset + i] /\ page[j] = all[offset + j]
      BY <1>2, <1>3, <2>1
    <2> QED BY <1>7, <2>1, <2>2
  <1>12. SignalStandsOnce'
    <2>1. SUFFICES ASSUME reader'.req.list = "evidence",
                          NEW i \in DOMAIN page, NEW j \in DOMAIN page,
                          i # j, page[i].signal = page[j].signal
                   PROVE  page[i].signal = Null
      BY <1>7 DEF SignalStandsOnce
    <2>2. /\ offset + i \in 1 .. Len(all) /\ offset + j \in 1 .. Len(all)
          /\ offset + i # offset + j
          /\ page[i] = all[offset + i] /\ page[j] = all[offset + j]
      <3>1. i \in 1 .. m /\ j \in 1 .. m /\ i # j
        BY <1>3, <2>1
      <3>2. offset + i # offset + j
        BY <1>2, <1>3, <3>1
      <3> QED BY <1>3, <3>1, <3>2
    <2>3. \A k, n \in 1 .. Len(all) :
             k # n /\ all[k].signal = all[n].signal => all[k].signal = Null
      BY <1>7, <2>1
    <2>4. all[offset + i].signal = all[offset + j].signal
      BY <2>1, <2>2
    <2>5. all[offset + i].signal = Null
      BY <2>2, <2>3, <2>4, Zenon
    <2> QED BY <2>2, <2>5
  <1> QED BY <1>8, <1>9, <1>10, <1>11, <1>12 DEF PagesInv

LEMMA PageStays ==
    ASSUME PagesInv, reader'.page = reader.page, reader'.req = reader.req
    PROVE  InOrder' /\ SignalStandsOnce'
  <1>1. InOrder /\ SignalStandsOnce
    BY DEF PagesInv
  <1>2. InOrder'
    BY <1>1 DEF InOrder, Ahead
  <1>3. SignalStandsOnce'
    BY <1>1 DEF SignalStandsOnce
  <1> QED BY <1>2, <1>3

LEMMA ListActiveHolds ==
    ASSUME PagesInv, ListActive
    PROVE  PagesInv'
  <1>1. PageTypes
    BY DEF PagesInv
  <1>2. reader' = [reader EXCEPT !.cards = Listed, !.phase = "scores"]
    BY DEF ListActive, Listed, Ids
  <1>3. Listed \in Seq(Row) /\ Ascending(Listed)
    BY <1>1, CardsRead
  <1>4. UNCHANGED <<card, piece, changes>> /\ reader.phase = "start"
    BY DEF ListActive, Reading
  <1>5. /\ reader' \in ReaderRow
        /\ reader'.req = reader.req /\ reader'.page = reader.page
        /\ reader'.cards = Listed /\ reader'.phase = "scores" /\ reader'.quiet = reader.quiet
        /\ reader'.turned = reader.turned /\ reader'.offset = reader.offset
    BY <1>1, <1>2, <1>3 DEF PageTypes, ReaderRow
  <1>6. PageTypes'
    BY <1>1, <1>4, <1>5 DEF PageTypes
  <1>7. Ascending(reader.cards)'
    BY <1>3, <1>5 DEF Ascending
  <1>8. ASSUME reader'.quiet PROVE Settled'
    <2>1. Settled
      BY <1>5, <1>8 DEF PagesInv
    <2>2. Listing' = Listing /\ Listed' = Listed /\ \A n : FirstIds(n)' = FirstIds(n)
      BY <1>4, <1>5, StoreStands
    <2> QED BY <1>4, <1>5, <2>1, <2>2 DEF Settled
  <1> QED BY <1>5, <1>6, <1>7, <1>8, PageStays DEF PagesInv

LEMMA ReadScoresHolds ==
    ASSUME PagesInv, ReadScores
    PROVE  PagesInv'
  <1> DEFINE old == reader.cards
             new == [k \in DOMAIN old |->
                       [id |-> old[k].id, score |-> card[old[k].id].score,
                        momentum |-> Null, activity |-> old[k].activity]]
             n == Len(old)
  <1>1. PageTypes
    BY DEF PagesInv
  <1>2. reader' = [reader EXCEPT !.cards = new, !.phase = "trends"]
    BY DEF ReadScores
  <1>3. n \in Nat /\ DOMAIN old = 1 .. n /\ \A k \in 1 .. n : old[k] \in Row
    BY <1>1, ReaderFields
  <1>4. /\ new = [k \in 1 .. n |-> new[k]]
        /\ \A k \in 1 .. n : new[k] \in Row /\ new[k].id = old[k].id
    <2>1. \A k \in 1 .. n : old[k].id \in Card /\ old[k].activity \in Level
      BY <1>3 DEF Row
    <2>2. \A k \in 1 .. n : card[old[k].id].score \in Maybe
      BY <1>1, <2>1, CardFields
    <2>3. Null \in Maybe
      BY DEF Maybe
    <2> HIDE DEF old, n
    <2> QED BY <1>3, <2>1, <2>2, <2>3 DEF Row
  <1> HIDE DEF new
  <1>5. new \in Seq(Row) /\ DOMAIN new = 1 .. n
    BY <1>3, <1>4, SeqOf
  <1>6. Ascending(new)
    <2>1. Ascending(old)
      BY DEF PagesInv
    <2> QED BY <1>3, <1>4, <1>5, <2>1 DEF Ascending
  <1>7. UNCHANGED <<card, piece, changes>> /\ reader.phase = "scores"
    BY DEF ReadScores, Reading
  <1>8. /\ reader' \in ReaderRow
        /\ reader'.req = reader.req /\ reader'.page = reader.page
        /\ reader'.cards = new /\ reader'.phase = "trends" /\ reader'.quiet = reader.quiet
        /\ reader'.turned = reader.turned /\ reader'.offset = reader.offset
    BY <1>1, <1>2, <1>5 DEF PageTypes, ReaderRow
  <1>9. PageTypes'
    BY <1>1, <1>7, <1>8 DEF PageTypes
  <1>10. Ascending(reader.cards)'
    BY <1>6, <1>8 DEF Ascending
  <1>11. ASSUME reader'.quiet PROVE Settled'
    <2>1. Settled
      BY <1>8, <1>11 DEF PagesInv
    <2>2. old = Listed
      BY <1>7, <2>1 DEF Settled
    <2>3. new = ScoresRead
      BY <2>2 DEF new, Listed, ScoresRead
    <2>4. Listing' = Listing /\ ScoresRead' = ScoresRead /\ \A i : FirstIds(i)' = FirstIds(i)
      BY <1>7, <1>8, StoreStands
    <2> QED BY <1>7, <1>8, <2>1, <2>3, <2>4 DEF Settled
  <1> QED BY <1>8, <1>9, <1>10, <1>11, PageStays DEF PagesInv

LEMMA TurnPageHolds ==
    ASSUME PagesInv, TurnPage
    PROVE  PagesInv'
  <1> DEFINE old == reader.cards
             new == [k \in DOMAIN old |-> [old[k] EXCEPT !.momentum = card[old[k].id].momentum]]
             n == Len(old)
             all == Arranged(new, reader.req)
             S == {c \in Rows(new) : Kept(c, reader.req)}
             more == reader.offset + PageSize < Len(all)
  <1>1. PageTypes
    BY DEF PagesInv
  <1>2. Turn(Slice(all, reader.offset), Len(all), more)
    BY DEF TurnPage
  <1>3. /\ UNCHANGED <<card, piece, changes>> /\ reader.phase = "trends"
        /\ reader.req \in Request /\ reader.req.list \in {"radar", "library"}
    BY <1>1, ReaderFields DEF TurnPage, Reading
  <1>4. n \in Nat /\ DOMAIN old = 1 .. n /\ \A k \in 1 .. n : old[k] \in Row
    BY <1>1, ReaderFields
  <1>5. /\ new = [k \in 1 .. n |-> new[k]]
        /\ \A k \in 1 .. n : new[k] \in Row /\ new[k].id = old[k].id
    <2>1. \A k \in 1 .. n : old[k].id \in Card
      BY <1>4 DEF Row
    <2>2. \A k \in 1 .. n : card[old[k].id].momentum \in Maybe
      BY <1>1, <2>1, CardFields
    <2> HIDE DEF old, n
    <2> QED BY <1>4, <2>2 DEF Row
  <1> HIDE DEF new
  <1>6. new \in Seq(Row) /\ DOMAIN new = 1 .. n
    BY <1>4, <1>5, SeqOf
  <1>7. Ascending(new)
    <2>1. Ascending(old)
      BY DEF PagesInv
    <2> QED BY <1>4, <1>5, <1>6, <2>1 DEF Ascending
  <1>8. Lists(all, S, AheadPairs) /\ S \in SUBSET Row
    <2>1. Lists(all, S, AheadPairs)
      BY <1>3, <1>6, <1>7, ArrangedLists DEF Radar
    <2>2. Rows(new) \subseteq Row
      BY <1>6, <1>7, RowsListed
    <2> QED BY <2>1, <2>2
  <1> HIDE DEF all, S
  <1>9. /\ all \in Seq(Row \cup EntryRow) /\ Len(all) \in Nat
        /\ \A i, j \in 1 .. Len(all) : i < j => Ahead(all[i], all[j])
    <2>1. all \in Seq(S) /\ Len(all) \in Nat
          /\ \A i, j \in 1 .. Len(all) : i < j => <<all[i], all[j]>> \in AheadPairs
      BY <1>8, ListsDomain DEF Lists
    <2>2. \A x, y : <<x, y>> \in AheadPairs => Ahead(x, y)
      BY DEF AheadPairs
    <2>3. all \in Seq(Row \cup EntryRow)
      BY <1>8, <2>1, SeqMonotonic
    <2> QED BY <2>1, <2>2, <2>3
  <1>10. reader.quiet => all = Listing
    <2>1. SUFFICES ASSUME reader.quiet PROVE all = Listing
      OBVIOUS
    <2>2. old = ScoresRead
      BY <1>3, <2>1 DEF PagesInv, Settled
    <2>3. new = TrendsRead
      <3>1. DOMAIN ScoresRead = DOMAIN Ids
        BY DEF ScoresRead
      <3>2. \A k \in DOMAIN Ids : [ScoresRead[k] EXCEPT !.momentum = card[ScoresRead[k].id].momentum]
               = [id |-> Ids[k], score |-> card[Ids[k]].score,
                  momentum |-> card[Ids[k]].momentum, activity |-> card[Ids[k]].activity]
        BY DEF ScoresRead
      <3> QED BY <2>2, <3>1, <3>2 DEF new, TrendsRead
    <2> QED BY <1>3, <2>3 DEF Listing, all
  <1>11. /\ more \in BOOLEAN
         /\ more => reader.offset + PageSize <= Len(all)
         /\ ~more => Len(all) <= reader.offset + PageSize
    BY <1>1, <1>9, ReaderFields, PagesAssumption
  <1> HIDE DEF more
  <1> QED BY <1>2, <1>3, <1>9, <1>10, <1>11, TurnHolds

LEMMA CountEvidenceHolds ==
    ASSUME PagesInv, CountEvidence
    PROVE  PagesInv'
  <1>1. PageTypes
    BY DEF PagesInv
  <1>2. reader' = [reader EXCEPT !.total = Cardinality(Entries), !.phase = "rows"]
    BY DEF CountEvidence
  <1>3. UNCHANGED <<card, piece, changes>> /\ reader.phase = "start"
    BY DEF CountEvidence, Reading
  <1>4. Cardinality(Entries) \in Nat
    BY <1>1, EntriesAre, FS_CardinalityType
  <1>5. /\ reader' \in ReaderRow
        /\ reader'.req = reader.req /\ reader'.page = reader.page
        /\ reader'.cards = reader.cards /\ reader'.phase = "rows"
        /\ reader'.quiet = reader.quiet /\ reader'.total = Cardinality(Entries)
        /\ reader'.turned = reader.turned /\ reader'.offset = reader.offset
    BY <1>1, <1>2, <1>4 DEF PageTypes, ReaderRow
  <1>6. PageTypes'
    BY <1>1, <1>3, <1>5 DEF PageTypes
  <1>7. Ascending(reader.cards)'
    BY <1>5 DEF PagesInv, Ascending
  <1>8. ASSUME reader'.quiet PROVE Settled'
    <2>1. Settled
      BY <1>5, <1>8 DEF PagesInv
    <2>2. Listing' = Listing /\ Entries' = Entries /\ \A n : FirstIds(n)' = FirstIds(n)
      BY <1>3, <1>5, StoreStands
    <2> QED BY <1>3, <1>5, <2>1, <2>2 DEF Settled
  <1> QED BY <1>5, <1>6, <1>7, <1>8, PageStays DEF PagesInv

LEMMA ReadEvidenceHolds ==
    ASSUME PagesInv, ReadEvidence
    PROVE  PagesInv'
  <1> DEFINE all == EvidenceRows
             page == Slice(all, reader.offset)
             more == reader.offset + Len(page) < reader.total
  <1>1. PageTypes
    BY DEF PagesInv
  <1>2. Turn(page, reader.total, more)
    BY DEF ReadEvidence
  <1>3. /\ UNCHANGED <<card, piece, changes>> /\ reader.phase = "rows"
        /\ reader.req.list = "evidence"
    BY DEF ReadEvidence, Reading
  <1>4. Lists(all, Entries, EvidenceOrder) /\ Orders(EvidenceOrder, Entries)
        /\ Entries \in SUBSET EntryRow
    BY <1>1, EvidenceListed, EntriesAre
  <1>5. /\ all \in Seq(Row \cup EntryRow) /\ Len(all) \in Nat /\ Len(all) = Cardinality(Entries)
        /\ \A i, j \in 1 .. Len(all) :
              i # j /\ all[i].signal = all[j].signal => all[i].signal = Null
    <2>1. all \in Seq(Entries) /\ Len(all) \in Nat /\ Len(all) = Cardinality(Entries)
          /\ \A k \in 1 .. Len(all) : all[k] \in Entries
      BY <1>4, ListsDomain
    <2>2. all \in Seq(Row \cup EntryRow)
      BY <1>4, <2>1, SeqMonotonic
    <2>3. \A x \in Entries : <<x, x>> \notin EvidenceOrder
      BY <1>4 DEF Orders
    <2>4. \A i, j \in 1 .. Len(all) : i # j => all[i] # all[j]
      BY <1>4, <2>1, <2>3, ListsOnce
    <2> QED BY <1>1, <2>1, <2>2, <2>4, EntryOnce
  <1>6. reader.quiet => all = Listing /\ reader.total = Len(all)
    BY <1>3, <1>5 DEF PagesInv, Settled, Listing
  <1>7. reader.offset \in Nat /\ reader.total \in Nat
    BY <1>1, ReaderFields
  <1> HIDE DEF all
  <1>8. /\ Len(page) \in Nat
        /\ Len(page) = IF Len(all) <= reader.offset THEN 0
                       ELSE IF Len(all) - reader.offset <= PageSize
                            THEN Len(all) - reader.offset ELSE PageSize
    BY <1>5, <1>7, SliceIs
  <1>9. /\ more \in BOOLEAN
        /\ reader.quiet => /\ more => reader.offset + PageSize <= Len(all)
                           /\ ~more => Len(all) <= reader.offset + PageSize
    <2> HIDE DEF page
    <2>1. PageSize \in Nat
      BY PagesAssumption
    <2> QED BY <1>5, <1>6, <1>7, <1>8, <2>1
  <1> HIDE DEF more
  <1> QED BY <1>2, <1>3, <1>5, <1>6, <1>7, <1>9, TurnHolds

LEMMA ReadFeedHolds ==
    ASSUME PagesInv, ReadFeed
    PROVE  PagesInv'
  <1> DEFINE all == FeedRows
             page == Slice(all, reader.offset)
             more == Len(page) = PageSize
  <1>1. PageTypes
    BY DEF PagesInv
  <1>2. Turn(page, Len(all), more)
    BY DEF ReadFeed
  <1>3. /\ UNCHANGED <<card, piece, changes>> /\ reader.phase = "start"
        /\ reader.req.list = "feed"
    BY DEF ReadFeed, Reading
  <1>4. Lists(all, FeedEntries, FeedOrder) /\ FeedEntries \in SUBSET EntryRow
    BY <1>1, FeedListed
  <1>5. all \in Seq(Row \cup EntryRow) /\ Len(all) \in Nat
    <2>1. all \in Seq(FeedEntries) /\ Len(all) \in Nat
      BY <1>4, ListsDomain
    <2> QED BY <1>4, <2>1, SeqMonotonic
  <1>6. all = Listing
    BY <1>3 DEF Listing
  <1>7. reader.offset \in Nat
    BY <1>1, ReaderFields
  <1> HIDE DEF all
  <1>8. /\ Len(page) \in Nat
        /\ Len(page) = IF Len(all) <= reader.offset THEN 0
                       ELSE IF Len(all) - reader.offset <= PageSize
                            THEN Len(all) - reader.offset ELSE PageSize
    BY <1>5, <1>7, SliceIs
  <1>9. /\ more \in BOOLEAN
        /\ more => reader.offset + PageSize <= Len(all)
        /\ ~more => Len(all) <= reader.offset + PageSize
    <2> HIDE DEF page
    <2>1. PageSize \in Nat /\ PageSize > 0
      BY PagesAssumption
    <2> QED BY <1>5, <1>7, <1>8, <2>1
  <1> HIDE DEF more
  <1> QED BY <1>2, <1>3, <1>5, <1>6, <1>9, TurnHolds

(* A reader who has seen something does not count on what comes after; one   *)
(* who has not begins with the store as it is then.                          *)
LEMMA ChangedHolds ==
    ASSUME PagesInv, Changed, PageTypes'
    PROVE  PagesInv'
  <1>1. /\ reader' = [reader EXCEPT !.quiet = reader.quiet /\ reader.phase = "start"
                                              /\ reader.turned = <<>>]
        /\ reader.phase # "over"
    BY DEF Changed
  <1>2. PageTypes
    BY DEF PagesInv
  <1>3. /\ reader'.req = reader.req /\ reader'.page = reader.page
        /\ reader'.cards = reader.cards /\ reader'.phase = reader.phase
        /\ reader'.turned = reader.turned /\ reader'.offset = reader.offset
        /\ reader'.quiet = (reader.quiet /\ reader.phase = "start" /\ reader.turned = <<>>)
    BY <1>1, <1>2 DEF PageTypes, ReaderRow
  <1>4. Ascending(reader.cards)'
    BY <1>3 DEF PagesInv, Ascending
  <1>5. ASSUME reader'.quiet PROVE Settled'
    <2>1. Settled /\ reader.phase = "start" /\ reader.turned = <<>>
      BY <1>3, <1>5 DEF PagesInv
    <2>2. reader.offset \in Nat /\ <<>> = [k \in 1 .. reader.offset |-> Listing[k].id]
      BY <1>2, <2>1, ReaderFields DEF Settled, FirstIds, IdsOf
    <2>3. reader.offset = 0
      <3>1. DOMAIN <<>> = 1 .. reader.offset
        BY <2>2
      <3>2. 1 \notin DOMAIN <<>>
        OBVIOUS
      <3> QED BY <2>2, <3>1, <3>2
    <2>4. FirstIds(0)' = FirstIds(0)
      BY DEF FirstIds, IdsOf
    <2> QED BY <1>3, <2>1, <2>3, <2>4 DEF Settled
  <1> QED BY <1>3, <1>4, <1>5, PageStays DEF PagesInv

LEMMA ChangedTypes ==
    ASSUME PageTypes, Changed
    PROVE  changes' \in Nat /\ reader' \in ReaderRow
  <1>1. changes' \in Nat
    BY DEF PageTypes, Changed
  <1>2. reader' \in ReaderRow
    <2>1. reader' = [reader EXCEPT !.quiet = reader.quiet /\ reader.phase = "start"
                                             /\ reader.turned = <<>>]
      BY DEF Changed
    <2>2. (reader.quiet /\ reader.phase = "start" /\ reader.turned = <<>>) \in BOOLEAN
      OBVIOUS
    <2> QED BY <2>1, <2>2 DEF PageTypes, ReaderRow
  <1> QED BY <1>1, <1>2

LEMMA CardChangesHolds ==
    ASSUME PagesInv, NEW c \in Card, CardChanges(c)
    PROVE  PagesInv'
  <1>1. PageTypes /\ Changed /\ piece' = piece
    BY DEF PagesInv, CardChanges
  <1>2. card' \in [Card -> CardRow]
    <2>1. PICK v \in Level :
            card' \in {[card EXCEPT ![c].score = v], [card EXCEPT ![c].momentum = v],
                       [card EXCEPT ![c].activity = v], [card EXCEPT ![c].shown = ~card[c].shown]}
      BY DEF CardChanges
    <2>2. card \in [Card -> CardRow] /\ v \in Maybe /\ v \in Level
      BY <1>1 DEF PageTypes, Maybe
    <2>3. card[c] \in CardRow /\ (~card[c].shown) \in BOOLEAN
      BY <2>2 DEF CardRow
    <2>4. \E row \in CardRow : card' = [card EXCEPT ![c] = row]
      <3>1. CASE card' = [card EXCEPT ![c].score = v]
        <4>1. [card[c] EXCEPT !.score = v] \in CardRow
          BY <2>2, <2>3 DEF CardRow
        <4> QED BY <3>1, <4>1
      <3>2. CASE card' = [card EXCEPT ![c].momentum = v]
        <4>1. [card[c] EXCEPT !.momentum = v] \in CardRow
          BY <2>2, <2>3 DEF CardRow
        <4> QED BY <3>2, <4>1
      <3>3. CASE card' = [card EXCEPT ![c].activity = v]
        <4>1. [card[c] EXCEPT !.activity = v] \in CardRow
          BY <2>2, <2>3 DEF CardRow
        <4> QED BY <3>3, <4>1
      <3>4. CASE card' = [card EXCEPT ![c].shown = ~card[c].shown]
        <4>1. [card[c] EXCEPT !.shown = ~card[c].shown] \in CardRow
          BY <2>3 DEF CardRow
        <4> QED BY <3>4, <4>1
      <3> QED BY <2>1, <3>1, <3>2, <3>3, <3>4
    <2> QED BY <2>2, <2>4
  <1>3. PageTypes'
    BY <1>1, <1>2, ChangedTypes DEF PageTypes
  <1> QED BY <1>1, <1>3, ChangedHolds

LEMMA PieceChangesHolds ==
    ASSUME PagesInv, NEW p \in Piece, PieceChanges(p)
    PROVE  PagesInv'
  <1>1. PageTypes /\ Changed /\ card' = card
    BY DEF PagesInv, PieceChanges
  <1>2. /\ piece' \in [Piece -> PieceRow]
        /\ \A q \in Piece : piece'[q].notes = piece[q].notes
    <2>1. piece' \in {[piece EXCEPT ![p].effective = ~piece[p].effective],
                      [piece EXCEPT ![p].linked = ~piece[p].linked]}
      BY DEF PieceChanges
    <2>2. piece \in [Piece -> PieceRow]
      BY <1>1 DEF PageTypes
    <2>3. piece[p].effective \in BOOLEAN /\ piece[p].linked \in BOOLEAN /\ piece[p] \in PieceRow
      BY <1>1, <2>2, PieceFields
    <2>4. CASE piece' = [piece EXCEPT ![p].effective = ~piece[p].effective]
      <3>1. (~piece[p].effective) \in BOOLEAN
        BY Zenon
      <3>2. [piece[p] EXCEPT !.effective = ~piece[p].effective] \in PieceRow
        BY <2>3, <3>1 DEF PieceRow
      <3> QED BY <2>2, <2>4, <3>2 DEF PieceRow
    <2>5. CASE piece' = [piece EXCEPT ![p].linked = ~piece[p].linked]
      <3>1. (~piece[p].linked) \in BOOLEAN
        BY Zenon
      <3>2. [piece[p] EXCEPT !.linked = ~piece[p].linked] \in PieceRow
        BY <2>3, <3>1 DEF PieceRow
      <3> QED BY <2>2, <2>5, <3>2 DEF PieceRow
    <2> QED BY <2>1, <2>4, <2>5
  <1>3. PageTypes'
    BY <1>1, <1>2, ChangedTypes DEF PageTypes
  <1> QED BY <1>1, <1>3, ChangedHolds

LEMMA PageInitHolds ==
    ASSUME PageInit
    PROVE  PagesInv
  <1>1. PICK request \in Request : reader = Opened(request)
    BY DEF PageInit
  <1>2. <<>> \in Seq(Row) /\ <<>> \in Seq(Row \cup EntryRow) /\ <<>> \in Seq(Nat)
    BY EmptySeq
  <1>3. reader \in ReaderRow
    BY <1>1, <1>2 DEF Opened, ReaderRow
  <1>4. changes \in Nat
    BY PagesAssumption DEF PageInit
  <1>5. PageTypes
    BY <1>3, <1>4 DEF PageInit, PageTypes
  <1>6. reader.phase = "start" /\ reader.offset = 0 /\ reader.cards = <<>>
        /\ reader.page = <<>> /\ reader.turned = <<>>
    BY <1>1 DEF Opened
  <1>7. FirstIds(0) = <<>>
    <2>1. FirstIds(0) = [k \in 1 .. 0 |-> Listing[k].id]
      BY DEF FirstIds, IdsOf
    <2>2. FirstIds(0) \in Seq(Nat) /\ Len(FirstIds(0)) = 0
      <3>1. FirstIds(0) = [k \in 1 .. 0 |-> FirstIds(0)[k]]
            /\ \A k \in 1 .. 0 : FirstIds(0)[k] \in Nat
        BY <2>1
      <3> QED BY <3>1, SeqOf
    <2> QED BY <2>2, EmptySeq
  <1>8. Settled
    BY <1>6, <1>7 DEF Settled
  <1>9. Ascending(reader.cards) /\ InOrder /\ SignalStandsOnce
    BY <1>6 DEF Ascending, InOrder, SignalStandsOnce
  <1> QED BY <1>5, <1>8, <1>9 DEF PagesInv

LEMMA PageStepHolds ==
    ASSUME PagesInv, [PageStep]_pageVars
    PROVE  PagesInv'
  <1>1. CASE UNCHANGED pageVars
    <2>1. UNCHANGED <<card, piece>> /\ reader' = reader /\ changes' = changes
      BY <1>1 DEF pageVars
    <2>2. PageTypes' /\ Ascending(reader.cards)'
      BY <2>1 DEF PagesInv, PageTypes, Ascending
    <2>3. /\ Entries' = Entries /\ Listing' = Listing
          /\ Listed' = Listed /\ ScoresRead' = ScoresRead
          /\ \A n : FirstIds(n)' = FirstIds(n)
      BY <2>1, StoreStands
    <2>4. reader'.quiet => Settled'
      BY <2>1, <2>3 DEF PagesInv, Settled
    <2> QED BY <2>1, <2>2, <2>4, PageStays DEF PagesInv
  <1>2. CASE \E c \in Card : CardChanges(c)
    BY <1>2, CardChangesHolds
  <1>3. CASE \E p \in Piece : PieceChanges(p)
    BY <1>3, PieceChangesHolds
  <1> QED BY <1>1, <1>2, <1>3, ListActiveHolds, ReadScoresHolds, TurnPageHolds,
             CountEvidenceHolds, ReadEvidenceHolds, ReadFeedHolds DEF PageStep

(* What the pages turned have to do with the store, in every state.          *)
THEOREM PagesInvCorrect == PageSpec => []PagesInv
  <1>1. PageInit => PagesInv
    BY PageInitHolds
  <1>2. PagesInv /\ [PageStep]_pageVars => PagesInv'
    BY PageStepHolds
  <1> QED BY <1>1, <1>2, PTL DEF PageSpec

(* docs/evidence-chain-source-traceability.md, docs/opportunity-library.md,  *)
(* docs/radar-page.md, docs/tasks/TASK-044E.md: paging over unchanged data   *)
(* shows each thing once, in the order asked for, and a signal stands once.  *)
THEOREM PagesFaithfulCorrect == PageSpec => []PagesFaithful
  <1>1. PagesInv => PagesFaithful
    <2>1. SUFFICES ASSUME PagesInv PROVE PagesFaithful
      OBVIOUS
    <2>2. Partition
      <3>1. SUFFICES ASSUME reader.phase = "over", reader.quiet
                     PROVE  /\ {reader.turned[k] : k \in DOMAIN reader.turned} = Wanted
                            /\ Len(reader.turned) = reader.total
        BY DEF Partition
      <3>2. Settled /\ PageTypes
        BY <2>1, <3>1 DEF PagesInv
      <3>3. reader.total = Len(Listing) /\ reader.turned = FirstIds(Len(Listing))
        BY <3>1, <3>2 DEF Settled
      <3>4. Len(Listing) \in Nat /\ Wanted = {Listing[k].id : k \in 1 .. Len(Listing)}
        BY <3>2, ListingIs
      <3>5. reader.turned \in Seq(Nat)
        BY <3>2, ReaderFields
      <3>6. /\ DOMAIN reader.turned = 1 .. Len(Listing)
            /\ \A k \in 1 .. Len(Listing) : reader.turned[k] = Listing[k].id
        BY <3>3 DEF FirstIds, IdsOf
      <3>7. Len(reader.turned) = Len(Listing)
        BY <3>4, <3>5, <3>6
      <3> QED BY <3>3, <3>4, <3>6, <3>7
    <2> QED BY <2>1, <2>2 DEF PagesInv, PagesFaithful
  <1> QED BY <1>1, PagesInvCorrect, PTL
=============================================================================
