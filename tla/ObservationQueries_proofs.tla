---------------------- MODULE ObservationQueries_proofs ----------------------
(***************************************************************************)
(* The queries about the history of shelves, for histories of any length   *)
(* and limits of any size.  Each adapter sorts by an order of its own;     *)
(* both orders have a first element, which is the observation captured     *)
(* last (of SQLite, if there is one offset), and where they are the same   *)
(* order the answers are the same.  Each place in the list of overviews    *)
(* holds its own shelf, or a null for a shelf that is gone (QInv).         *)
(***************************************************************************)
EXTENDS ObservationQueries, WellFoundedInduction, FiniteSetTheorems, TLAPS

-----------------------------------------------------------------------------
(* The first of a list. *)

\* The set of pairs before is a strict order on 1..m.
StrictOrder(before, m) ==
  /\ \A i \in 1..m : <<i, i>> \notin before
  /\ \A i, j, k \in 1..m : <<i, j>> \in before /\ <<j, k>> \in before => <<i, k>> \in before

\* Nothing of 1..n comes before i.
First(before, n, i) == i \in 1..n /\ \A j \in 1..n : <<j, i>> \notin before

\* Induction up to m, over a set.
LEMMA Induction ==
  ASSUME NEW m \in Nat, NEW T, 0 \in T, \A n \in 0..m : n \in T /\ n < m => n + 1 \in T
  PROVE  0..m \subseteq T
<1> SUFFICES ASSUME 0..m \ T # {}
             PROVE  FALSE
  OBVIOUS
<1> DEFINE missing == 0..m \ T
<1>1. missing \subseteq Nat /\ missing # {}
  OBVIOUS
<1> HIDE DEF missing
<1>2. PICK n \in missing : \A k \in missing : ~(<<k, n>> \in OpToRel(<, Nat))
  <2>1. \E n \in missing : \A k \in missing : ~(<<k, n>> \in OpToRel(<, Nat))
    BY <1>1, NatLessThanWellFounded, WFMin, Zenon
  <2>2. QED
    BY <2>1, Zenon
<1>3. \A k \in missing : ~(k < n)
  BY <1>1, <1>2 DEF OpToRel
<1>4. n \in 0..m /\ n \notin T /\ n # 0
  BY DEF missing
<1>5. n - 1 \in 0..m /\ n - 1 < m /\ (n - 1) + 1 = n /\ n - 1 < n
  BY <1>4
<1>6. n - 1 \in T
  BY <1>3, <1>5 DEF missing
<1>7. QED
  BY <1>4, <1>5, <1>6

\* A list that is not empty has a first element in every strict order.
LEMMA FirstExists ==
  ASSUME NEW m \in Nat \ {0}, NEW before, StrictOrder(before, m)
  PROVE  \E i : First(before, m, i)
<1> DEFINE T == {n \in 0..m : n = 0 \/ \E i : First(before, n, i)}
<1>1. ASSUME NEW n \in 0..m, n \in T, n < m
      PROVE  n + 1 \in T
  <2>1. n + 1 \in 0..m /\ n + 1 \in 1..m
    BY <1>1
  <2>2. CASE n = 0
    <3>1. First(before, 1, 1)
      BY <2>1, <2>2 DEF First, StrictOrder
    <3>2. QED
      BY <2>1, <2>2, <3>1
  <2>3. CASE n # 0
    <3>1. PICK i : First(before, n, i)
      BY <1>1, <2>3
    <3>2. \A j \in 1..(n + 1) : j \in 1..m /\ (j \in 1..n \/ j = n + 1)
      BY <1>1
    <3>3. i \in 1..(n + 1) /\ i \in 1..m
      BY <1>1, <3>1 DEF First
    <3>4. CASE <<n + 1, i>> \notin before
      <4>1. First(before, n + 1, i)
        BY <3>1, <3>2, <3>3, <3>4 DEF First
      <4>2. QED
        BY <2>1, <4>1
    <3>5. CASE <<n + 1, i>> \in before
      <4>1. \A j \in 1..(n + 1) : <<j, n + 1>> \notin before
        BY <2>1, <3>1, <3>2, <3>3, <3>5 DEF First, StrictOrder
      <4>2. n + 1 \in 1..(n + 1)
        BY <1>1
      <4>3. First(before, n + 1, n + 1)
        BY <4>1, <4>2 DEF First
      <4>4. QED
        BY <2>1, <4>3
    <3>6. QED
      BY <3>4, <3>5
  <2>4. QED
    BY <2>2, <2>3
<1>2. 0 \in T
  OBVIOUS
<1> HIDE DEF T
<1>3. 0..m \subseteq T
  BY <1>1, <1>2, Induction
<1>4. m \in T /\ m # 0
  BY <1>3
<1>5. QED
  BY <1>4 DEF T

\* The first answer is the first of the list.
LEMMA TakeFirst ==
  ASSUME NEW S, NEW seq \in Seq(S), seq # <<>>
  PROVE  Take(seq, 1)[1] = seq[1] /\ SqlLimit(seq, 1)[1] = seq[1]
<1>1. Len(seq) \in Nat /\ Len(seq) >= 1
  OBVIOUS
<1>2. Shortest(1, Len(seq)) = 1
  <2>1. \A n \in Nat : n >= 1 => Shortest(1, n) = 1
    BY DEF Shortest
  <2>2. QED
    BY <1>1, <2>1
<1>3. SubSeq(seq, 1, 1)[1] = seq[1]
  BY <1>1
<1>4. QED
  BY <1>2, <1>3 DEF Take, SqlLimit

\* Of a history that is not empty, an order puts one first that nothing comes before.
LEMMA InOrderFirst ==
  ASSUME NEW h \in Seq(Captured), h # <<>>, NEW before, StrictOrder(before, Len(h)),
         NEW answer,
         answer = InOrder(h, [i \in DOMAIN h |->
                                Cardinality({j \in DOMAIN h : <<j, i>> \in before})])
  PROVE  \E i \in DOMAIN h :
           /\ Take(answer, 1)[1] = h[i] /\ SqlLimit(answer, 1)[1] = h[i]
           /\ \A j \in DOMAIN h : <<j, i>> \notin before
<1> DEFINE m == Len(h)
           Before(i) == {j \in DOMAIN h : <<j, i>> \in before}
           earlier == [i \in DOMAIN h |-> Cardinality(Before(i))]
<1>1. DOMAIN h = 1..m /\ m \in Nat \ {0} /\ 1 \in 1..m
  OBVIOUS
<1>2. PICK i : First(before, m, i)
  BY <1>1, FirstExists
<1>3. \A k \in 1..m : IsFiniteSet(Before(k)) /\ (Cardinality(Before(k)) = 0 <=> Before(k) = {})
  <2>1. IsFiniteSet(1..m)
    BY <1>1, FS_Interval
  <2>2. \A k \in 1..m : Before(k) \in SUBSET (1..m)
    BY <1>1
  <2>3. \A k \in 1..m : IsFiniteSet(Before(k))
    BY <2>1, <2>2, FS_Subset
  <2>4. QED
    BY <2>3, FS_EmptySet
<1>4. \A k \in 1..m : earlier[k] = 0 <=> First(before, m, k)
  BY <1>1, <1>3 DEF First
<1>5. answer = InOrder(h, earlier)
  OBVIOUS
<1> HIDE DEF earlier
<1>6. \E k \in DOMAIN h : earlier[k] = 1 - 1
  BY <1>1, <1>2, <1>4 DEF First
<1> DEFINE first == CHOOSE k \in DOMAIN h : earlier[k] = 1 - 1
<1>7. first \in DOMAIN h /\ earlier[first] = 1 - 1
  BY <1>6, Zenon
<1>8. answer[1] = h[first]
  BY <1>1, <1>5 DEF InOrder
<1> HIDE DEF first
<1>9. \A j \in DOMAIN h : <<j, first>> \notin before
  BY <1>1, <1>4, <1>7 DEF First
<1> DEFINE S == {answer[k] : k \in DOMAIN h}
<1>10. DOMAIN answer = 1..m /\ answer = [k \in 1..m |-> answer[k]]
  BY <1>1, <1>5 DEF InOrder
<1>11. answer \in [1..m -> S]
  BY <1>1, <1>10
<1> HIDE DEF S
<1>12. answer \in Seq(S) /\ answer # <<>>
  BY <1>1, <1>11
<1>13. Take(answer, 1)[1] = h[first] /\ SqlLimit(answer, 1)[1] = h[first]
  BY <1>8, <1>12, TakeFirst
<1>14. QED
  BY <1>7, <1>9, <1>13

-----------------------------------------------------------------------------
(* The two orders. *)

\* Captured times are integers.
LEMMA CapturedFits ==
  ASSUME NEW h \in Seq(Captured), NEW i \in DOMAIN h
  PROVE  h[i].local \in Int /\ h[i].offset \in Int /\ Instant(h[i]) \in Int /\ i \in Nat
<1>1. h[i] \in Captured /\ i \in Nat
  OBVIOUS
<1>2. \A c \in Captured : c.local \in Int /\ c.offset \in Int /\ Instant(c) \in Int
  <2>1. ASSUME NEW c \in Captured
        PROVE  c.local \in Int /\ c.offset \in Int
    <3>1. c.local \in Times /\ c.offset \in Offsets
      BY DEF Captured
    <3>2. QED
      BY <3>1, QueriesAssumption
  <2>2. QED
    BY <2>1 DEF Instant
<1>3. QED
  BY <1>1, <1>2

\* What the in-memory adapter calls the latest.
LEMMA InMemoryFirstOne ==
  ASSUME NEW h \in Seq(Captured), h # <<>>
  PROVE  \E i \in DOMAIN h :
           Take(InMemoryOrdered(h), 1)[1] = h[i] /\ \A j \in DOMAIN h : ~InMemoryFirst(h, j, i)
<1> DEFINE before == {p \in (DOMAIN h) \X (DOMAIN h) : InMemoryFirst(h, p[1], p[2])}
<1>1. \A i, j \in DOMAIN h : <<j, i>> \in before <=> InMemoryFirst(h, j, i)
  OBVIOUS
<1> HIDE DEF before
<1>2. StrictOrder(before, Len(h))
  <2>1. \A i \in DOMAIN h : ~InMemoryFirst(h, i, i)
    BY CapturedFits DEF InMemoryFirst
  <2>2. \A i, j, k \in DOMAIN h :
          InMemoryFirst(h, i, j) /\ InMemoryFirst(h, j, k) => InMemoryFirst(h, i, k)
    <3>1. \A i \in DOMAIN h : Instant(h[i]) \in Int /\ i \in Nat
      BY CapturedFits
    <3>2. QED
      BY <3>1 DEF InMemoryFirst
  <2>3. DOMAIN h = 1..Len(h)
    OBVIOUS
  <2>4. QED
    BY <1>1, <2>1, <2>2, <2>3 DEF StrictOrder
<1>3. InMemoryOrdered(h) = InOrder(h, [i \in DOMAIN h |->
                                         Cardinality({j \in DOMAIN h : <<j, i>> \in before})])
  <2>1. \A i \in DOMAIN h : {j \in DOMAIN h : <<j, i>> \in before}
                              = {j \in DOMAIN h : InMemoryFirst(h, j, i)}
    BY <1>1
  <2>2. QED
    BY <2>1 DEF InMemoryOrdered
<1>4. QED
  BY <1>1, <1>2, <1>3, InOrderFirst

\* What SQLite calls the latest, where texts compare like times of day.
LEMMA SqliteFirstOne ==
  ASSUME NEW h \in Seq(Captured), h # <<>>,
         \A i, j \in DOMAIN h : h[i].offset = h[j].offset
  PROVE  \E i \in DOMAIN h :
           SqlLimit(SqliteOrdered(h), 1)[1] = h[i] /\ \A j \in DOMAIN h : ~SqliteFirst(h, j, i)
<1> DEFINE before == {p \in (DOMAIN h) \X (DOMAIN h) : SqliteFirst(h, p[1], p[2])}
<1>1. \A i, j \in DOMAIN h : <<j, i>> \in before <=> SqliteFirst(h, j, i)
  OBVIOUS
<1> HIDE DEF before
<1>2. StrictOrder(before, Len(h))
  <2>1. \A i, j \in DOMAIN h : SqliteFirst(h, i, j) <=>
          h[j].local < h[i].local \/ (h[j].local = h[i].local /\ i > j)
    BY CapturedFits DEF SqliteFirst, TextBefore, SameText, OffsetBefore
  <2>2. \A i \in DOMAIN h : h[i].local \in Int /\ i \in Nat
    BY CapturedFits
  <2>3. \A i \in DOMAIN h : ~SqliteFirst(h, i, i)
    BY <2>1, <2>2
  <2>4. ASSUME NEW i \in DOMAIN h, NEW j \in DOMAIN h, NEW k \in DOMAIN h,
               SqliteFirst(h, i, j), SqliteFirst(h, j, k)
        PROVE  SqliteFirst(h, i, k)
    <3>1. /\ h[j].local < h[i].local \/ (h[j].local = h[i].local /\ i > j)
          /\ h[k].local < h[j].local \/ (h[k].local = h[j].local /\ j > k)
      BY <2>1, <2>4
    <3>2. h[k].local < h[i].local \/ (h[k].local = h[i].local /\ i > k)
      BY <2>2, <3>1
    <3>3. QED
      BY <2>1, <3>2
  <2>5. DOMAIN h = 1..Len(h)
    OBVIOUS
  <2>6. QED
    BY <1>1, <2>3, <2>4, <2>5 DEF StrictOrder
<1>3. SqliteOrdered(h) = InOrder(h, [i \in DOMAIN h |->
                                       Cardinality({j \in DOMAIN h : <<j, i>> \in before})])
  <2>1. \A i \in DOMAIN h : {j \in DOMAIN h : <<j, i>> \in before}
                              = {j \in DOMAIN h : SqliteFirst(h, j, i)}
    BY <1>1
  <2>2. QED
    BY <2>1 DEF SqliteOrdered
<1>4. QED
  BY <1>1, <1>2, <1>3, InOrderFirst

\* With one offset, and no instant twice, texts and instants give one order.
LEMMA OrdersAgree ==
  ASSUME NEW h \in Seq(Captured),
         \A i, j \in DOMAIN h : h[i].offset = h[j].offset,
         \A i, j \in DOMAIN h : Instant(h[i]) = Instant(h[j]) => i = j
  PROVE  SqliteOrdered(h) = InMemoryOrdered(h)
<1>1. ASSUME NEW i \in DOMAIN h, NEW j \in DOMAIN h
      PROVE  SqliteFirst(h, j, i) <=> InMemoryFirst(h, j, i)
  <2>1. /\ h[i].offset \in Int /\ h[i].local \in Int /\ h[j].local \in Int
        /\ h[j].offset = h[i].offset
    BY CapturedFits
  <2>2. /\ Instant(h[i]) < Instant(h[j]) <=> h[i].local < h[j].local
        /\ Instant(h[i]) = Instant(h[j]) <=> h[i].local = h[j].local
    BY <2>1 DEF Instant
  <2>3. TextBefore(h[i], h[j]) <=> h[i].local < h[j].local
    BY <2>1 DEF TextBefore, OffsetBefore
  <2>4. Instant(h[i]) \in Int /\ Instant(h[j]) \in Int /\ i \in Nat /\ j \in Nat
    BY CapturedFits
  <2>5. CASE i = j
    BY <2>1, <2>3, <2>4, <2>5 DEF SqliteFirst, InMemoryFirst, SameText
  <2>6. CASE i # j
    <3>1. Instant(h[i]) # Instant(h[j]) /\ ~SameText(h[j], h[i])
      BY <2>2, <2>6 DEF SameText
    <3>2. QED
      BY <2>2, <2>3, <2>4, <3>1 DEF SqliteFirst, InMemoryFirst
  <2>7. QED
    BY <2>5, <2>6
<1>2. \A i \in DOMAIN h : {j \in DOMAIN h : SqliteFirst(h, j, i)}
                            = {j \in DOMAIN h : InMemoryFirst(h, j, i)}
  BY <1>1
<1>3. [i \in DOMAIN h |-> Cardinality({j \in DOMAIN h : SqliteFirst(h, j, i)})]
        = [i \in DOMAIN h |-> Cardinality({j \in DOMAIN h : InMemoryFirst(h, j, i)})]
  BY <1>2
<1>4. QED
  BY <1>3 DEF SqliteOrdered, InMemoryOrdered

-----------------------------------------------------------------------------
(* The invariant. *)

\* The inductive invariant: no more shelves are looked at than were found.
QInv ==
  /\ TypeOK
  /\ Len(overviews) =< Len(listed)
  /\ OnlyDeletedIsMissing

\* The latest observation is one of the shelf's.
LEMMA LatestFits ==
  ASSUME TypeOK, NEW s \in Shelves, history[s] # <<>>
  PROVE  InMemoryLatest(s)[1] \in Captured
<1>1. history[s] \in Seq(Captured)
  BY DEF TypeOK
<1>2. PICK i \in DOMAIN history[s] : InMemoryLatest(s)[1] = history[s][i]
  BY <1>1, InMemoryFirstOne DEF InMemoryLatest
<1>3. QED
  BY <1>1, <1>2

\* The overview of a shelf is its own, or there is no such shelf.
LEMMA OverviewFits ==
  ASSUME TypeOK, NEW s \in Shelves
  PROVE  /\ Overview(s) \in Overviews
         /\ Overview(s).shelf = s \/ (Overview(s).shelf = None /\ s \notin present)
<1>1. CASE s \notin present
  BY <1>1 DEF Overview, Overviews
<1>2. CASE s \in present
  <2> DEFINE latest == IF history[s] = <<>> THEN None ELSE InMemoryLatest(s)[1]
  <2>1. latest \in Captured \cup {None}
    BY LatestFits
  <2>2. Overview(s) = [shelf |-> s, latest |-> latest]
    BY <1>2 DEF Overview
  <2> HIDE DEF latest
  <2>3. QED
    BY <2>1, <2>2 DEF Overviews
<1>3. QED
  BY <1>1, <1>2

\* At first there is nothing to list.
LEMMA QueriesInit == Init => QInv
  BY DEF Init, QInv, TypeOK, OnlyDeletedIsMissing

\* An observation changes no list, and no shelf comes back by it.
LEMMA RecordStep ==
  ASSUME QInv, NEW s \in Shelves, NEW c \in Captured, Record(s, c)
  PROVE  QInv'
<1>1. TypeOK'
  BY DEF QInv, TypeOK, Record
<1>2. UNCHANGED <<present, listed, overviews>>
  BY DEF Record
<1>3. QED
  BY <1>1, <1>2 DEF QInv, OnlyDeletedIsMissing

\* A deletion changes no list, and what was missing stays away.
LEMMA DeleteStep ==
  ASSUME QInv, NEW s \in Shelves, Delete(s)
  PROVE  QInv'
<1>1. TypeOK'
  BY DEF QInv, TypeOK, Delete
<1>2. UNCHANGED <<listed, overviews>> /\ present' \subseteq present
  BY DEF Delete
<1>3. QED
  BY <1>1, <1>2 DEF QInv, OnlyDeletedIsMissing

\* A new list is empty at first.
LEMMA ListStep ==
  ASSUME QInv, ListShelves
  PROVE  QInv'
<1> DEFINE n == Cardinality(present)
<1>1. IsFiniteSet(present) /\ n \in Nat
  BY QueriesAssumption, FS_Subset, FS_CardinalityType DEF QInv, TypeOK
<1>2. listed' \in [1..n -> present]
  BY DEF ListShelves, Bijection, Injection
<1>3. present \subseteq Shelves /\ UNCHANGED <<present, history>> /\ overviews' = <<>>
  BY DEF QInv, TypeOK, ListShelves
<1> HIDE DEF n
<1>4. listed' \in Seq(Shelves)
  BY <1>1, <1>2, <1>3
<1>5. QED
  BY <1>3, <1>4 DEF QInv, TypeOK, OnlyDeletedIsMissing

\* The next overview stands in the place of its shelf.
LEMMA OverviewStep ==
  ASSUME QInv, AddOverview
  PROVE  QInv'
<1> DEFINE n == Len(overviews)
           s == listed[n + 1]
           o == Overview(s)
<1>1. /\ overviews \in Seq(Overviews) /\ n \in Nat /\ n < Len(listed)
      /\ listed \in Seq(Shelves) /\ Len(listed) \in Nat
      /\ UNCHANGED <<present, history, listed>> /\ overviews' = Append(overviews, o)
  BY DEF QInv, TypeOK, AddOverview
<1>2. s \in Shelves
  BY <1>1
<1>3. o \in Overviews /\ (o.shelf = s \/ (o.shelf = None /\ s \notin present))
  BY <1>2, OverviewFits DEF QInv
<1> HIDE DEF o
<1>4. /\ overviews' \in Seq(Overviews) /\ Len(overviews') = n + 1
      /\ DOMAIN overviews' = 1..(n + 1) /\ DOMAIN overviews = 1..n
      /\ overviews'[n + 1] = o /\ \A i \in 1..n : overviews'[i] = overviews[i]
  BY <1>1, <1>3
<1>5. TypeOK' /\ Len(overviews') =< Len(listed')
  BY <1>1, <1>4 DEF QInv, TypeOK
<1>6. OnlyDeletedIsMissing'
  <2> SUFFICES ASSUME NEW i \in 1..(n + 1)
               PROVE  \/ overviews'[i].shelf = listed[i]
                      \/ overviews'[i].shelf = None /\ listed[i] \notin present
    BY <1>1, <1>4 DEF OnlyDeletedIsMissing
  <2>1. CASE i = n + 1
    BY <1>3, <1>4, <2>1
  <2>2. CASE i \in 1..n
    BY <1>4, <2>2 DEF QInv, OnlyDeletedIsMissing
  <2>3. QED
    BY <1>1, <2>1, <2>2
<1>7. QED
  BY <1>5, <1>6 DEF QInv

\* The actions keep the invariant.
LEMMA QueriesStep == QInv /\ [Next]_vars => QInv'
<1> SUFFICES ASSUME QInv, [Next]_vars
             PROVE  QInv'
  OBVIOUS
<1>1. CASE \E s \in Shelves, c \in Captured : Record(s, c)
  BY <1>1, RecordStep
<1>2. CASE \E s \in Shelves : Delete(s)
  BY <1>2, DeleteStep
<1>3. CASE ListShelves
  BY <1>3, ListStep
<1>4. CASE AddOverview
  BY <1>4, OverviewStep
<1>5. CASE UNCHANGED vars
  BY <1>5 DEF vars, QInv, TypeOK, OnlyDeletedIsMissing
<1>6. QED
  BY <1>1, <1>2, <1>3, <1>4, <1>5 DEF Next

\* The invariant holds in every state.
LEMMA QueriesInvariant == Spec => []QInv
  BY QueriesInit, QueriesStep, PTL DEF Spec

-----------------------------------------------------------------------------
(* What the adapters answer. *)

\* However late an observation is recorded, the latest one is the one captured
\* last: of the in-memory adapter always, of SQLite if the devices of the shelf
\* write their times with one offset from UTC.
THEOREM LatestIsNewestTheorem == Spec => []LatestIsNewest
<1>1. TypeOK => LatestIsNewest
  <2> SUFFICES ASSUME TypeOK, NEW s \in Shelves, history[s] # <<>>
               PROVE  /\ OneOffset(s) => Newest(history[s], SqliteLatest(s)[1])
                      /\ Newest(history[s], InMemoryLatest(s)[1])
    BY DEF LatestIsNewest
  <2> DEFINE h == history[s]
  <2>1. h \in Seq(Captured) /\ h # <<>>
    BY DEF TypeOK
  <2> HIDE DEF h
  <2>2. \A i \in DOMAIN h : Instant(h[i]) \in Int
    BY <2>1, CapturedFits
  <2>3. Newest(h, Take(InMemoryOrdered(h), 1)[1])
    <3>1. PICK i \in DOMAIN h :
            Take(InMemoryOrdered(h), 1)[1] = h[i] /\ \A j \in DOMAIN h : ~InMemoryFirst(h, j, i)
      BY <2>1, InMemoryFirstOne
    <3>2. \A j \in DOMAIN h : ~(Instant(h[j]) > Instant(h[i]))
      BY <3>1 DEF InMemoryFirst
    <3>3. QED
      BY <2>2, <3>1, <3>2 DEF Newest
  <2>4. ASSUME \A i, j \in DOMAIN h : h[i].offset = h[j].offset
        PROVE  Newest(h, SqlLimit(SqliteOrdered(h), 1)[1])
    <3>1. PICK i \in DOMAIN h :
            SqlLimit(SqliteOrdered(h), 1)[1] = h[i] /\ \A j \in DOMAIN h : ~SqliteFirst(h, j, i)
      BY <2>1, <2>4, SqliteFirstOne
    <3>2. \A j \in DOMAIN h : ~(h[i].local < h[j].local)
      BY <3>1 DEF SqliteFirst, TextBefore
    <3>3. \A j \in DOMAIN h : /\ h[j].local \in Int /\ h[j].offset \in Int
                              /\ h[i].local \in Int /\ h[i].offset = h[j].offset
      BY <2>1, <2>4, CapturedFits
    <3>4. \A j \in DOMAIN h : Instant(h[i]) >= Instant(h[j])
      BY <3>2, <3>3 DEF Instant
    <3>5. QED
      BY <3>1, <3>4 DEF Newest
  <2>5. QED
    BY <2>3, <2>4 DEF h, OneOffset, SqliteLatest, InMemoryLatest
<1>2. QED
  BY <1>1, QueriesInvariant, PTL DEF QInv

\* Where no two times are the same instant, and all have one offset, both adapters
\* give the same answers to the same questions, whatever the limit.
THEOREM ProvidersAgreeTheorem == Spec => []ProvidersAgree
<1>1. TypeOK => ProvidersAgree
  <2> SUFFICES ASSUME TypeOK, NEW s \in Shelves, OneOffset(s), Distinct(s)
               PROVE  /\ SqliteLatest(s) = InMemoryLatest(s)
                      /\ \A limit \in Limits : SqliteRecent(s, limit) = InMemoryRecent(s, limit)
    BY DEF ProvidersAgree
  <2>1. SqliteOrdered(history[s]) = InMemoryOrdered(history[s])
    <3>1. history[s] \in Seq(Captured)
      BY DEF TypeOK
    <3>2. QED
      BY <3>1, OrdersAgree DEF OneOffset, Distinct
  <2>2. \A seq, n : n \in Int /\ n >= 0 => SqlLimit(seq, n) = Take(seq, n)
    <3>1. \A n : n \in Int /\ n >= 0 => ~(n < 0)
      OBVIOUS
    <3>2. QED
      BY <3>1, Zenon DEF SqlLimit, Take
  <2>3. \A limit \in Limits : Clamp(limit) \in Int /\ Clamp(limit) >= 0
    BY QueriesAssumption DEF Clamp
  <2>4. QED
    BY <2>1, <2>2, <2>3 DEF SqliteLatest, InMemoryLatest, SqliteRecent, InMemoryRecent
<1>2. QED
  BY <1>1, QueriesInvariant, PTL DEF QInv

\* Every place of a list of overviews has its own shelf, or that shelf was deleted
\* since the list was begun, although it is put together under one lock after the
\* other: no shelf comes back, and no overview is of another shelf than its place.
THEOREM OnlyDeletedIsMissingTheorem == Spec => []OnlyDeletedIsMissing
<1>1. QInv => OnlyDeletedIsMissing
  BY DEF QInv
<1>2. QED
  BY <1>1, QueriesInvariant, PTL
=============================================================================
