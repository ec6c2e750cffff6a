------------------------- MODULE ObservationQueries -------------------------
(***************************************************************************)
(* What the two adapters answer to questions about the history of shelves: *)
(* the recent observations, the latest one, and, for the in-memory         *)
(* adapter, the list of overviews.  Both keep the same observations, in    *)
(* the order in which they were recorded; neither orders answers by it.    *)
(*                                                                         *)
(* An observation is a reading and the time its device gives it,           *)
(* CapturedAt: a time of day and the offset from UTC it is written with.   *)
(***************************************************************************)
EXTENDS Integers, Sequences, FiniteSets, Functions

CONSTANTS
  Shelves,
  None,
  Times,       \* times of day devices send
  Offsets,     \* the offsets they send them with
  Readings,    \* what they measure
  MaxHistory,  \* bound: observations of a shelf
  MaxPage,     \* the longest answer; 500 in the code
  Limits       \* limits clients ask for

ASSUME QueriesAssumption ==
  /\ None \notin Shelves /\ IsFiniteSet(Shelves)
  /\ Times \subseteq Int /\ Offsets \subseteq Int /\ Limits \subseteq Int
  /\ MaxHistory \in Nat /\ MaxPage \in Nat \ {0}

VARIABLES
  present,   \* the shelves there are
  history,   \* history[s]: the observations of s, as they were recorded
  listed,    \* the shelves GetOverviewsAsync found, which it looks at one by one
  overviews  \* its result so far

vars == <<present, history, listed, overviews>>

Captured == [local : Times, offset : Offsets, reading : Readings]
Instant(c) == c.local - c.offset

\* A shelf, or the null that GetOverviewAsync returns, with its latest observation.
Overviews == [shelf : Shelves \cup {None}, latest : Captured \cup {None}]

\* The types of the variables.
TypeOK ==
  /\ present \subseteq Shelves
  /\ history \in [Shelves -> Seq(Captured)]
  /\ listed \in Seq(Shelves)
  /\ overviews \in Seq(Overviews)

Init ==
  /\ present = Shelves
  /\ history = [s \in Shelves |-> <<>>]
  /\ listed = <<>>
  /\ overviews = <<>>

-----------------------------------------------------------------------------
(* Answers *)

\* How the text of an offset compares, after a time of day that is the same:
\* "+00:00" < "+01:00" < "-01:00" < "-02:00".
OffsetBefore(a, b) ==
  IF (a >= 0) # (b >= 0) THEN a >= 0 ELSE IF a >= 0 THEN a < b ELSE a > b

\* c comes before d in the order of the column captured_at.
TextBefore(c, d) ==
  c.local < d.local \/ (c.local = d.local /\ OffsetBefore(c.offset, d.offset))

SameText(c, d) == c.local = d.local /\ c.offset = d.offset

\* A mutant: ORDER BY id DESC.
SqliteFirstById(h, i, j) == i > j

\* ORDER BY captured_at DESC, id DESC.
SqliteFirst(h, i, j) ==
  TextBefore(h[j], h[i]) \/ (SameText(h[i], h[j]) /\ i > j)

\* OrderByDescending(CapturedAt), which is stable and compares instants.
InMemoryFirst(h, i, j) ==
  Instant(h[i]) > Instant(h[j]) \/ (Instant(h[i]) = Instant(h[j]) /\ i < j)

\* An answer in order: an observation stands after those that come before it, of
\* which there are earlier[i].
InOrder(h, earlier) == [k \in DOMAIN h |-> h[CHOOSE i \in DOMAIN h : earlier[i] = k - 1]]

SqliteOrdered(h) ==
  InOrder(h, [i \in DOMAIN h |-> Cardinality({j \in DOMAIN h : SqliteFirst(h, j, i)})])
InMemoryOrdered(h) ==
  InOrder(h, [i \in DOMAIN h |-> Cardinality({j \in DOMAIN h : InMemoryFirst(h, j, i)})])

\* A mutant: negative limits and zero are passed on.
ClampAbove(limit) == IF limit > MaxPage THEN MaxPage ELSE limit

\* Math.Clamp(limit, 1, 500).
Clamp(limit) ==
  IF limit < 1 THEN 1 ELSE IF limit > MaxPage THEN MaxPage ELSE limit

Shortest(m, n) == IF m < n THEN m ELSE n

\* SQL: LIMIT n, which is no limit if n is negative.
SqlLimit(seq, n) == IF n < 0 THEN seq ELSE SubSeq(seq, 1, Shortest(n, Len(seq)))

\* LINQ: Take(n), which takes nothing if n is negative.
Take(seq, n) == SubSeq(seq, 1, Shortest(n, Len(seq)))

SqliteRecent(s, limit) == SqlLimit(SqliteOrdered(history[s]), Clamp(limit))
InMemoryRecent(s, limit) == Take(InMemoryOrdered(history[s]), Clamp(limit))

SqliteLatest(s) == SqlLimit(SqliteOrdered(history[s]), 1)
InMemoryLatest(s) == Take(InMemoryOrdered(history[s]), 1)

-----------------------------------------------------------------------------
(* Actions *)

\* RecordAsync: the observation is added at the end, whenever it was captured.
Record(s, c) ==
  /\ s \in present
  /\ Len(history[s]) < MaxHistory
  /\ history' = [history EXCEPT ![s] = Append(@, c)]
  /\ UNCHANGED <<present, listed, overviews>>

\* A shelf is deleted before it has history.
Delete(s) ==
  /\ s \in present
  /\ history[s] = <<>>
  /\ present' = present \ {s}
  /\ UNCHANGED <<history, listed, overviews>>

\* GetOverviewsAsync of the in-memory adapter, once the last one is done: the
\* shelves, under one lock and in the order of their names.
ListShelves ==
  /\ Len(overviews) = Len(listed)
  /\ listed' \in Bijection(1..Cardinality(present), present)
  /\ overviews' = <<>>
  /\ UNCHANGED <<present, history>>

\* A mutant: a shelf without an observation has no overview.
OverviewIfObserved(s) ==
  IF s \notin present \/ history[s] = <<>> THEN [shelf |-> None, latest |-> None]
  ELSE [shelf |-> s, latest |-> InMemoryLatest(s)[1]]

\* The overview of a shelf, with its latest observation; none without the shelf.
Overview(s) ==
  IF s \notin present THEN [shelf |-> None, latest |-> None]
  ELSE [shelf |-> s, latest |-> IF history[s] = <<>> THEN None ELSE InMemoryLatest(s)[1]]

\* GetOverviewAsync of the next of them, under other locks, of which the first one
\* decides whether there is a shelf.
AddOverview ==
  /\ Len(overviews) < Len(listed)
  /\ overviews' = Append(overviews, Overview(listed[Len(overviews) + 1]))
  /\ UNCHANGED <<present, history, listed>>

Next ==
  \/ \E s \in Shelves : Delete(s) \/ \E c \in Captured : Record(s, c)
  \/ ListShelves
  \/ AddOverview

Spec == Init /\ [][Next]_vars

-----------------------------------------------------------------------------
\* The devices of a shelf write their times with one offset, and no two of the same
\* instant.
OneOffset(s) == \A i, j \in DOMAIN history[s] : history[s][i].offset = history[s][j].offset
Distinct(s) ==
  \A i, j \in DOMAIN history[s] : Instant(history[s][i]) = Instant(history[s][j]) => i = j

\* No observation of h was captured after c.
Newest(h, c) == \A i \in DOMAIN h : Instant(c) >= Instant(h[i])

\* However late an observation is recorded, both adapters call the one latest that
\* was captured last (GET .../observations/latest, README.md:303).  Of SQLite, which
\* compares texts, this is so for one offset only.
LatestIsNewest ==
  \A s \in Shelves : history[s] # <<>> =>
    /\ OneOffset(s) => Newest(history[s], SqliteLatest(s)[1])
    /\ Newest(history[s], InMemoryLatest(s)[1])

\* The adapters answer alike, whatever limit is asked for (README.md:266, "the same
\* contracts").  Of one instant SQLite prefers the observation recorded last, the
\* in-memory adapter the one recorded first.
ProvidersAgree ==
  \A s \in Shelves : OneOffset(s) /\ Distinct(s) =>
    /\ SqliteLatest(s) = InMemoryLatest(s)
    /\ \A limit \in Limits : SqliteRecent(s, limit) = InMemoryRecent(s, limit)

\* The list of overviews has the shelves that were found, in their places.  It holds
\* a null, which the "!" of GetOverviewsAsync denies, only in the place of a shelf
\* that was deleted while the list was put together.
OnlyDeletedIsMissing ==
  \A i \in DOMAIN overviews :
    \/ overviews[i].shelf = listed[i]
    \/ overviews[i].shelf = None /\ listed[i] \notin present
=============================================================================
