------------------------- MODULE ShelfCanvas_proofs -------------------------
(***************************************************************************)
(* Each copy on the canvas is what the store holds unless Backspace took   *)
(* something from it since it was made, for every list of resources and    *)
(* bindings.  That addEdge may change the copy while nothing is copied     *)
(* back is harmless because a resource that is connected has its edge.     *)
(* Every edge has the identifier of one binding (RowsInv), so a double     *)
(* click removes one; that this was the only one of the resource needs     *)
(* that devices keep their kinds (KindsInv).  First come the lemmas about  *)
(* Array.filter, by induction over the positions of the list.              *)
(***************************************************************************)
EXTENDS ShelfCanvas, WellFoundedInduction, TLAPS

-----------------------------------------------------------------------------
(* Array.filter *)

\* Induction up to m, over a set.
LEMMA Induction ==
  ASSUME NEW m \in Nat, NEW T, 0 \in T, \A n \in 0..m : n \in T /\ n < m => n + 1 \in T
  PROVE  0..m \subseteq T
<1> SUFFICES ASSUME 0..m \ T # {}
             PROVE  FALSE
  OBVIOUS
<1> DEFINE missing == 0..m \ T
<1>1. missing \subseteq Nat /\ missing # {}
  OBVIOUS
<1> HIDE DEF missing
<1>2. PICK n \in missing : \A k \in missing : ~(<<k, n>> \in OpToRel(<, Nat))
  <2>1. \E n \in missing : \A k \in missing : ~(<<k, n>> \in OpToRel(<, Nat))
    BY <1>1, NatLessThanWellFounded, WFMin, Zenon
  <2>2. QED
    BY <2>1, Zenon
<1>3. \A k \in missing : ~(k < n)
  BY <1>1, <1>2 DEF OpToRel
<1>4. n \in 0..m /\ n \notin T /\ n # 0
  BY DEF missing
<1>5. n - 1 \in 0..m /\ n - 1 < m /\ (n - 1) + 1 = n /\ n - 1 < n
  BY <1>4
<1>6. n - 1 \in T
  BY <1>3, <1>5 DEF missing
<1>7. QED
  BY <1>4, <1>5, <1>6

\* What filter has after n rows, from what it has after n - 1.
Next1(list, kept, f, n) ==
  IF n = 0 THEN <<>>
  ELSE IF n \in kept THEN Append(f[n - 1], list[n]) ELSE f[n - 1]

\* f has what filter has after each of the rows.
FilterSteps(list, kept, f) ==
  /\ filter(list, kept) = f[Len(list)]
  /\ f[0] = <<>>
  /\ \A n \in 0..Len(list) : n < Len(list) =>
       f[n + 1] = IF n + 1 \in kept THEN Append(f[n], list[n + 1]) ELSE f[n]

\* The recursion of filter is well defined.
LEMMA FilterDefined ==
  ASSUME NEW list, NEW kept, Len(list) \in Nat
  PROVE  \E f : FilterSteps(list, kept, f)
<1> DEFINE m == Len(list)
           upTo(k) == \E f : f = [n \in 0..k |-> Next1(list, kept, f, n)]
           T == {k \in 0..m : upTo(k)}
<1>1. 0 \in T
  <2> DEFINE f == [n \in 0..0 |-> <<>>]
  <2>1. f = [n \in 0..0 |-> Next1(list, kept, f, n)]
    BY DEF Next1
  <2>2. QED
    BY <2>1
<1>2. ASSUME NEW k \in 0..m, k \in T, k < m
      PROVE  k + 1 \in T
  <2>1. PICK f : f = [n \in 0..k |-> Next1(list, kept, f, n)]
    BY <1>2
  <2> DEFINE g == [n \in 0..(k + 1) |-> IF n = k + 1 THEN Next1(list, kept, f, n) ELSE f[n]]
  <2>2. \A n \in 0..(k + 1) : Next1(list, kept, g, n) = Next1(list, kept, f, n)
    BY DEF Next1
  <2>3. \A n \in 0..(k + 1) : g[n] = Next1(list, kept, g, n)
    BY <2>1, <2>2
  <2>4. g = [n \in 0..(k + 1) |-> g[n]]
    OBVIOUS
  <2> HIDE DEF g
  <2>5. g = [n \in 0..(k + 1) |-> Next1(list, kept, g, n)]
    BY <2>3, <2>4
  <2>6. k + 1 \in 0..m
    BY <1>2
  <2>7. QED
    BY <2>5, <2>6
<1>3. m \in 0..m
  OBVIOUS
<1> HIDE DEF T
<1>4. 0..m \subseteq T
  BY <1>1, <1>2, Induction
<1>5. upTo(m)
  BY <1>3, <1>4 DEF T
<1> DEFINE F == CHOOSE f : f = [n \in 0..m |-> Next1(list, kept, f, n)]
<1>6. F = [n \in 0..m |-> Next1(list, kept, F, n)]
  BY <1>5
<1>7. filter(list, kept) = F[m]
  BY DEF filter, Next1
<1> HIDE DEF F
<1>8. F[0] = <<>> /\ 0 \in 0..m
  BY <1>6 DEF Next1
<1>9. ASSUME NEW n \in 0..m, n < m
      PROVE  F[n + 1] = IF n + 1 \in kept THEN Append(F[n], list[n + 1]) ELSE F[n]
  <2>1. n + 1 \in 0..m /\ n + 1 # 0 /\ (n + 1) - 1 = n
    BY <1>9
  <2>2. F[n + 1] = Next1(list, kept, F, n + 1)
    BY <1>6, <2>1
  <2>3. QED
    BY <2>1, <2>2 DEF Next1
<1>10. FilterSteps(list, kept, F)
  BY <1>7, <1>8, <1>9 DEF FilterSteps
<1>11. QED
  BY <1>10

\* The rows of a filtered list are rows of the list, each taken once.
LEMMA FilterPicks ==
  ASSUME NEW S, NEW list \in Seq(S), NEW kept
  PROVE  /\ filter(list, kept) \in Seq(S)
         /\ \E from \in [DOMAIN filter(list, kept) -> DOMAIN list \cap kept] :
              /\ \A k \in DOMAIN filter(list, kept) : filter(list, kept)[k] = list[from[k]]
              /\ \A k, l \in DOMAIN filter(list, kept) : from[k] = from[l] => k = l
<1> DEFINE m == Len(list)
<1>1. m \in Nat /\ DOMAIN list = 1..m
  OBVIOUS
<1>2. PICK f : FilterSteps(list, kept, f)
  BY <1>1, FilterDefined
<1> DEFINE Picks(n) ==
             /\ f[n] \in Seq(S)
             /\ \E from \in [DOMAIN f[n] -> 1..n \cap kept] :
                  /\ \A k \in DOMAIN f[n] : f[n][k] = list[from[k]]
                  /\ \A k, l \in DOMAIN f[n] : from[k] = from[l] => k = l
           T == {n \in 0..m : Picks(n)}
<1>3. 0 \in T
  <2>1. f[0] = <<>> /\ 0 \in 0..m
    BY <1>1, <1>2 DEF FilterSteps
  <2>2. <<>> \in Seq(S) /\ DOMAIN <<>> = {}
    OBVIOUS
  <2>3. [k \in {} |-> 0] \in [{} -> 1..0 \cap kept]
    OBVIOUS
  <2>4. QED
    BY <2>1, <2>2, <2>3
<1>4. ASSUME NEW n \in 0..m, n \in T, n < m
      PROVE  n + 1 \in T
  <2>1. n + 1 \in 0..m /\ n + 1 \in 1..m
    BY <1>1, <1>4
  <2>2. f[n + 1] = IF n + 1 \in kept THEN Append(f[n], list[n + 1]) ELSE f[n]
    BY <1>2, <1>4 DEF FilterSteps
  <2>3. PICK from \in [DOMAIN f[n] -> 1..n \cap kept] :
          /\ \A k \in DOMAIN f[n] : f[n][k] = list[from[k]]
          /\ \A k, l \in DOMAIN f[n] : from[k] = from[l] => k = l
    BY <1>4
  <2>4. f[n] \in Seq(S) /\ list[n + 1] \in S
    BY <1>1, <1>4, <2>1
  <2>5. 1..n \subseteq 1..(n + 1) /\ n + 1 \in 1..(n + 1) /\ n + 1 \notin 1..n
    BY <1>4
  <2> HIDE DEF T
  <2>6. CASE n + 1 \notin kept
    <3>1. f[n + 1] = f[n] /\ from \in [DOMAIN f[n] -> 1..(n + 1) \cap kept]
      BY <2>2, <2>3, <2>5, <2>6
    <3>2. Picks(n + 1)
      BY <3>1, <2>3, <2>4
    <3>3. QED
      BY <2>1, <3>2 DEF T
  <2>7. CASE n + 1 \in kept
    <3> DEFINE q == f[n]
               r == Append(q, list[n + 1])
               to == [k \in DOMAIN r |-> IF k = Len(q) + 1 THEN n + 1 ELSE from[k]]
    <3>1. /\ r \in Seq(S) /\ f[n + 1] = r
          /\ DOMAIN q = 1..Len(q) /\ DOMAIN r = 1..(Len(q) + 1) /\ Len(q) \in Nat
          /\ r[Len(q) + 1] = list[n + 1]
          /\ \A k \in DOMAIN q : r[k] = q[k]
      BY <2>2, <2>4, <2>7
    <3>2. \A k \in DOMAIN r : k # Len(q) + 1 => k \in DOMAIN q /\ from[k] \in 1..n \cap kept
      BY <2>3, <3>1
    <3> HIDE DEF q, r
    <3>3. to \in [DOMAIN r -> 1..(n + 1) \cap kept]
      BY <2>5, <2>7, <3>2
    <3>4. \A k \in DOMAIN r : r[k] = list[to[k]]
      BY <2>3, <3>1, <3>2 DEF q
    <3>5. \A k, l \in DOMAIN r : to[k] = to[l] => k = l
      BY <2>3, <2>5, <3>2 DEF q
    <3> HIDE DEF to
    <3>6. Picks(n + 1)
      BY <3>1, <3>3, <3>4, <3>5
    <3>7. QED
      BY <2>1, <3>6 DEF T
  <2>8. QED
    BY <2>6, <2>7
<1> HIDE DEF T
<1>5. 0..m \subseteq T
  BY <1>1, <1>3, <1>4, Induction
<1>6. Picks(m)
  BY <1>1, <1>5 DEF T
<1>7. QED
  BY <1>1, <1>2, <1>6 DEF FilterSteps

\* A list without one of its rows is one row shorter.
LEMMA FilterOne ==
  ASSUME NEW S, NEW list \in Seq(S), NEW d \in DOMAIN list,
         NEW kept, kept = DOMAIN list \ {d}
  PROVE  Len(filter(list, kept)) = Len(list) - 1
<1> DEFINE m == Len(list)
<1>1. m \in Nat /\ DOMAIN list = 1..m /\ d \in 1..m
  OBVIOUS
<1>2. PICK f : FilterSteps(list, kept, f)
  BY <1>1, FilterDefined
<1> DEFINE Counts(n) == f[n] \in Seq(S) /\ Len(f[n]) = IF n < d THEN n ELSE n - 1
           T == {n \in 0..m : Counts(n)}
<1>3. 0 \in T
  <2>1. f[0] = <<>> /\ 0 \in 0..m
    BY <1>1, <1>2 DEF FilterSteps
  <2>2. Counts(0)
    BY <1>1, <2>1
  <2>3. QED
    BY <2>1, <2>2
<1>4. ASSUME NEW n \in 0..m, n \in T, n < m
      PROVE  n + 1 \in T
  <2>1. n + 1 \in 0..m /\ n + 1 \in 1..m
    BY <1>1, <1>4
  <2>2. f[n + 1] = IF n + 1 # d THEN Append(f[n], list[n + 1]) ELSE f[n]
    BY <1>1, <1>2, <1>4, <2>1 DEF FilterSteps
  <2>3. f[n] \in Seq(S) /\ list[n + 1] \in S /\ Len(f[n]) = IF n < d THEN n ELSE n - 1
    BY <1>1, <1>4, <2>1
  <2>4. Counts(n + 1)
    BY <1>1, <2>1, <2>2, <2>3
  <2>5. QED
    BY <2>1, <2>4
<1> HIDE DEF T
<1>5. 0..m \subseteq T
  BY <1>1, <1>3, <1>4, Induction
<1>6. Counts(m)
  BY <1>1, <1>5 DEF T
<1>7. filter(list, kept) = f[m]
  BY <1>2 DEF FilterSteps
<1>8. Len(f[m]) = m - 1
  <2>1. ~(m < d)
    BY <1>1
  <2> HIDE DEF m
  <2>2. QED
    BY <1>6, <2>1
<1>9. QED
  BY <1>7, <1>8

-----------------------------------------------------------------------------
(* The copies. *)

\* addEdge does not touch a copy in which the resource has its edge
\* (ShelfCanvas.tsx, lines 73 and 75).
LEMMA ConnectedHasEdge ==
  ASSUME NEW resource, Connected(bindings, resource), edges = graphEdges(bindings),
         NEW id
  PROVE  addEdge([id |-> id, target |-> resource.id], edges) = edges
<1>1. PICK i \in DOMAIN bindings : bindings[i].resource = resource.id
  BY DEF Connected
<1>2. i \in DOMAIN edges /\ edges[i].target = resource.id
  BY <1>1 DEF graphEdges
<1> QED
  BY <1>2 DEF addEdge

\* The copies follow the store in every step.
LEMMA CanvasStep ==
  ASSUME CanvasShowsBindings, [Next]_vars
  PROVE  CanvasShowsBindings'
<1> USE DEF CanvasShowsBindings
<1>1. ASSUME NEW r \in Resources, ConnectNew(r)
      PROVE  CanvasShowsBindings'
  BY <1>1 DEF ConnectNew, SetBindings, graphNodes, graphEdges
<1>2. ASSUME NEW r \in Resources, ConnectAgain(r)
      PROVE  CanvasShowsBindings'
  <2>1. UNCHANGED <<resources, bindings, nodes, deleted>> /\ Connected(bindings, r)
    BY <1>2 DEF ConnectAgain
  <2>2. "edges" \notin deleted => edges' = edges
    BY <1>2, ConnectedHasEdge DEF ConnectAgain
  <2> QED
    BY <2>1, <2>2 DEF graphNodes, graphEdges
<1>3. ASSUME NEW e \in Edges, DoubleClick(e)
      PROVE  CanvasShowsBindings'
  BY <1>3 DEF DoubleClick, SetBindings, graphNodes, graphEdges
<1>4. ASSUME NEW answer \in Configurations, Replace(answer)
      PROVE  CanvasShowsBindings'
  BY <1>4 DEF Replace, graphNodes, graphEdges
<1>5. CASE Remount
  BY <1>5 DEF Remount, graphNodes, graphEdges
<1>6. ASSUME NEW e \in Edges, DeleteEdge(e)
      PROVE  CanvasShowsBindings'
  BY <1>6 DEF DeleteEdge, graphNodes
<1>7. ASSUME NEW n \in ResourceIds \cup {"shelf"}, DeleteNode(n)
      PROVE  CanvasShowsBindings'
  BY <1>7 DEF DeleteNode
<1>8. CASE UNCHANGED vars
  BY <1>8 DEF vars, graphNodes, graphEdges
<1> QED
  BY <1>1, <1>2, <1>3, <1>4, <1>5, <1>6, <1>7, <1>8 DEF Next

\* What is drawn is what will be saved (the effects of ShelfCanvas.tsx, lines 65
\* and 66, and its onConnect), except for what Backspace took from the copies.
THEOREM CanvasShowsBindingsTheorem == Spec => []CanvasShowsBindings
<1>1. Init => CanvasShowsBindings
  BY DEF Init, CanvasShowsBindings
<1>2. CanvasShowsBindings /\ [Next]_vars => CanvasShowsBindings'
  BY CanvasStep
<1> QED
  BY <1>1, <1>2, PTL DEF Spec

-----------------------------------------------------------------------------
(* The list of bindings and its edges. *)

\* What is filtered out of a list without duplicates has none.
LEMMA FilterRows ==
  ASSUME NEW list \in Seq(BindingRows), UniqueRows(list), NEW kept
  PROVE  /\ filter(list, kept) \in Seq(BindingRows)
         /\ UniqueRows(filter(list, kept))
         /\ \A k \in DOMAIN filter(list, kept) :
              \E i \in DOMAIN list \cap kept : filter(list, kept)[k] = list[i]
<1> DEFINE new == filter(list, kept)
<1>1. new \in Seq(BindingRows)
  BY FilterPicks
<1>2. PICK from \in [DOMAIN new -> DOMAIN list \cap kept] :
        /\ \A k \in DOMAIN new : new[k] = list[from[k]]
        /\ \A k, l \in DOMAIN new : from[k] = from[l] => k = l
  BY FilterPicks
<1> HIDE DEF new
<1>3. \A k \in DOMAIN new : from[k] \in DOMAIN list \cap kept
  BY <1>2
<1>4. UniqueRows(new)
  BY <1>2, <1>3 DEF UniqueRows
<1>5. \A k \in DOMAIN new : \E i \in DOMAIN list \cap kept : new[k] = list[i]
  BY <1>2, <1>3
<1>6. QED
  BY <1>1, <1>4, <1>5 DEF new

\* connectResource adds a row with an identifier and a resource of its own.
LEMMA ConnectRows ==
  ASSUME NEW list \in Seq(BindingRows), UniqueRows(list), NEW r \in Resources,
         ~Connected(list, r), NEW id \in Ids, \A i \in DOMAIN list : list[i].id # id
  PROVE  /\ connectResource(list, r, id) \in Seq(BindingRows)
         /\ UniqueRows(connectResource(list, r, id))
         /\ \A k \in DOMAIN connectResource(list, r, id) :
              LET row == connectResource(list, r, id)[k]
              IN  \/ row.kind = r.kind /\ row.resource = r.id
                  \/ \E i \in DOMAIN list : row = list[i]
<1> DEFINE kept == {i \in DOMAIN list : list[i].kind # r.kind}
           old == IF r.kind \in singletonKinds THEN filter(list, kept) ELSE list
           row == [id |-> id, kind |-> r.kind, resource |-> r.id]
<1>1. /\ old \in Seq(BindingRows) /\ UniqueRows(old)
      /\ \A k \in DOMAIN old : \E i \in DOMAIN list : old[k] = list[i]
  <2> HIDE DEF kept
  <2>1. CASE r.kind \in singletonKinds
    <3>1. old = filter(list, kept)
      BY <2>1
    <3> HIDE DEF old
    <3>2. QED
      BY <3>1, FilterRows
  <2>2. CASE r.kind \notin singletonKinds
    BY <2>2
  <2>3. QED
    BY <2>1, <2>2
<1>2. row \in BindingRows
  BY DEF BindingRows, Kinds, ResourceIds
<1>3. connectResource(list, r, id) = Append(old, row)
  BY DEF connectResource
<1>4. \A i \in DOMAIN list : list[i].id # id /\ ~(list[i].kind = r.kind /\ list[i].resource = r.id)
  BY DEF Connected
<1>5. row.id = id /\ row.kind = r.kind /\ row.resource = r.id
  OBVIOUS
<1> HIDE DEF old, row
<1>6. \A k \in DOMAIN old : old[k].id # id /\ ~(old[k].kind = r.kind /\ old[k].resource = r.id)
  BY <1>1, <1>4
<1> DEFINE new == Append(old, row)
<1>7. /\ new \in Seq(BindingRows)
      /\ DOMAIN new = DOMAIN old \cup {Len(old) + 1}
      /\ new[Len(old) + 1] = row /\ Len(old) + 1 \notin DOMAIN old
      /\ \A k \in DOMAIN old : new[k] = old[k]
  BY <1>1, <1>2
<1> HIDE DEF new
<1>8. UniqueRows(new)
  BY <1>1, <1>5, <1>6, <1>7 DEF UniqueRows
<1>9. \A k \in DOMAIN new :
        \/ new[k].kind = r.kind /\ new[k].resource = r.id
        \/ \E i \in DOMAIN list : new[k] = list[i]
  BY <1>1, <1>5, <1>7
<1>10. QED
  BY <1>3, <1>7, <1>8, <1>9 DEF new

\* The edges that are computed from a list of bindings.
LEMMA GraphEdges ==
  ASSUME NEW list \in Seq(BindingRows)
  PROVE  /\ graphEdges(list) \in Seq(Edges)
         /\ DOMAIN graphEdges(list) = DOMAIN list
         /\ \A i \in DOMAIN list :
              graphEdges(list)[i].id = list[i].id /\ graphEdges(list)[i].target = list[i].resource
<1>1. ASSUME NEW i \in DOMAIN list
      PROVE  [id |-> list[i].id, target |-> list[i].resource] \in Edges
  <2>1. list[i] \in BindingRows
    OBVIOUS
  <2>2. QED
    BY <2>1 DEF Edges, BindingRows
<1>2. DOMAIN list = 1..Len(list) /\ Len(list) \in Nat
  OBVIOUS
<1>3. QED
  BY <1>1, <1>2 DEF graphEdges

-----------------------------------------------------------------------------
(* Identifiers *)

\* The invariant about identifiers.
RowsInv ==
  /\ TypeOK
  /\ UniqueRows(bindings)
  /\ EveryEdgeIsABinding

\* A new list of bindings and the edges computed from it.
LEMMA CopiedRows ==
  ASSUME bindings' \in Seq(BindingRows), UniqueRows(bindings)',
         edges' = graphEdges(bindings'),
         resources' \in SUBSET Resources, nodes' \in SUBSET (ResourceIds \cup {"shelf"}),
         deleted' \in SUBSET {"nodes", "edges"}
  PROVE  RowsInv'
<1>1. /\ edges' \in Seq(Edges) /\ DOMAIN edges' = DOMAIN bindings'
      /\ \A i \in DOMAIN bindings' : edges'[i].id = bindings'[i].id
  BY GraphEdges
<1>2. EveryEdgeIsABinding'
  BY <1>1 DEF EveryEdgeIsABinding
<1>3. QED
  BY <1>1, <1>2 DEF RowsInv, TypeOK

\* Edges that are taken from the copy.
LEMMA FewerEdges ==
  ASSUME RowsInv, NEW kept, edges' = filter(edges, kept), UNCHANGED <<resources, bindings>>,
         nodes' \in SUBSET (ResourceIds \cup {"shelf"}), deleted' \in SUBSET {"nodes", "edges"}
  PROVE  RowsInv'
<1>1. edges \in Seq(Edges)
  BY DEF RowsInv, TypeOK
<1>2. edges' \in Seq(Edges)
  BY <1>1, FilterPicks
<1>3. PICK from \in [DOMAIN edges' -> DOMAIN edges \cap kept] :
        \A k \in DOMAIN edges' : edges'[k] = edges[from[k]]
  BY <1>1, FilterPicks
<1>4. EveryEdgeIsABinding'
  BY <1>3 DEF RowsInv, EveryEdgeIsABinding
<1>5. QED
  BY <1>2, <1>4 DEF RowsInv, TypeOK

\* The page that opens shows what the API answered.
LEMMA RowsInit == Init => RowsInv
<1> SUFFICES ASSUME Init
             PROVE  RowsInv
  OBVIOUS
<1>1. /\ resources \in SUBSET Resources /\ bindings \in Seq(BindingRows) /\ UniqueRows(bindings)
      /\ edges = graphEdges(bindings) /\ deleted \in SUBSET {"nodes", "edges"}
  BY CanvasAssumption DEF Init
<1>2. nodes \in SUBSET (ResourceIds \cup {"shelf"})
  BY <1>1 DEF Init, graphNodes, ResourceIds
<1>3. /\ edges \in Seq(Edges) /\ DOMAIN edges = DOMAIN bindings
      /\ \A i \in DOMAIN bindings : edges[i].id = bindings[i].id
  BY <1>1, GraphEdges
<1>4. QED
  BY <1>1, <1>2, <1>3 DEF RowsInv, TypeOK, EveryEdgeIsABinding

\* onConnect: a new row with its edge, or an edge with the identifier of a row.
LEMMA ConnectKeepsRows ==
  ASSUME RowsInv, NEW r \in Resources, ConnectNew(r) \/ ConnectAgain(r)
  PROVE  RowsInv'
<1>1. CASE ConnectNew(r)
  <2>1. PICK id \in Ids \ UsedIds : SetBindings(connectResource(bindings, r, id))
    BY <1>1 DEF ConnectNew
  <2>2. /\ bindings \in Seq(BindingRows) /\ UniqueRows(bindings) /\ ~Connected(bindings, r)
        /\ id \in Ids /\ \A i \in DOMAIN bindings : bindings[i].id # id
    BY <1>1 DEF RowsInv, TypeOK, ConnectNew, UsedIds
  <2>3. /\ connectResource(bindings, r, id) \in Seq(BindingRows)
        /\ UniqueRows(connectResource(bindings, r, id))
    BY <2>2, ConnectRows
  <2>4. QED
    BY <2>1, <2>3, CopiedRows DEF SetBindings, RowsInv, TypeOK
<1>2. CASE ConnectAgain(r)
  <2> DEFINE last == bindings[Len(bindings)]
             edge == [id |-> last.id, target |-> r.id]
  <2>1. /\ bindings \in Seq(BindingRows) /\ edges \in Seq(Edges)
        /\ \E i \in DOMAIN bindings : bindings[i].kind = r.kind
    BY <1>2 DEF RowsInv, TypeOK, ConnectAgain, Connected
  <2>2. Len(bindings) \in DOMAIN bindings
    BY <2>1
  <2>3. last \in BindingRows
    BY <2>1, <2>2
  <2>4. edge \in Edges
    BY <2>3 DEF Edges, BindingRows, ResourceIds
  <2>5. edges' = edges \/ edges' = Append(edges, edge)
    BY <1>2 DEF ConnectAgain, addEdge
  <2>6. edge.id = last.id
    OBVIOUS
  <2>7. UNCHANGED <<resources, bindings, nodes, deleted>>
    BY <1>2 DEF ConnectAgain
  <2>8. CASE edges' = edges
    BY <2>7, <2>8 DEF RowsInv, TypeOK, EveryEdgeIsABinding
  <2>9. CASE edges' = Append(edges, edge)
    <3> HIDE DEF edge
    <3>1. /\ edges' \in Seq(Edges)
          /\ \A i \in DOMAIN edges' : edges'[i] = edge \/ (i \in DOMAIN edges /\ edges'[i] = edges[i])
      BY <2>1, <2>4, <2>9
    <3>2. EveryEdgeIsABinding'
      BY <3>1, <2>2, <2>6, <2>7 DEF RowsInv, EveryEdgeIsABinding
    <3>3. QED
      BY <3>1, <3>2, <2>7 DEF RowsInv, TypeOK
  <2>10. QED
    BY <2>5, <2>8, <2>9
<1>3. QED
  BY <1>1, <1>2

\* The row of an edge that is double-clicked is the one that goes.
LEMMA RemovedRow ==
  ASSUME RowsInv, NEW e, DoubleClick(e)
  PROVE  /\ \E d \in DOMAIN bindings :
              /\ bindings[d].id = e.id
              /\ bindings' = filter(bindings, DOMAIN bindings \ {d})
         /\ edges' = graphEdges(bindings')
         /\ UNCHANGED <<resources, nodes>> /\ deleted' \subseteq deleted
<1>1. PICK i \in DOMAIN edges : e = edges[i]
  BY DEF DoubleClick, Drawn
<1>2. PICK d \in DOMAIN bindings : bindings[d].id = e.id
  BY <1>1 DEF RowsInv, EveryEdgeIsABinding
<1>3. {k \in DOMAIN bindings : bindings[k].id # e.id} = DOMAIN bindings \ {d}
  BY <1>2 DEF RowsInv, UniqueRows
<1>4. /\ bindings' = filter(bindings, {k \in DOMAIN bindings : bindings[k].id # e.id})
      /\ edges' = graphEdges(bindings')
      /\ UNCHANGED <<resources, nodes>> /\ deleted' \subseteq deleted
  BY DEF DoubleClick, SetBindings, removeBinding
<1>5. QED
  BY <1>2, <1>3, <1>4

\* Every step keeps the invariant.
LEMMA RowsStep ==
  ASSUME RowsInv, [Next]_vars
  PROVE  RowsInv'
<1>1. ASSUME NEW r \in Resources, ConnectNew(r) \/ ConnectAgain(r)
      PROVE  RowsInv'
  BY <1>1, ConnectKeepsRows
<1>2. ASSUME NEW e \in Edges, DoubleClick(e)
      PROVE  RowsInv'
  <2>1. PICK d \in DOMAIN bindings : bindings' = filter(bindings, DOMAIN bindings \ {d})
    BY <1>2, RemovedRow
  <2>2. bindings' \in Seq(BindingRows) /\ UniqueRows(bindings')
    BY <2>1, FilterRows DEF RowsInv, TypeOK
  <2>3. QED
    BY <1>2, <2>2, RemovedRow, CopiedRows DEF RowsInv, TypeOK
<1>3. ASSUME NEW e \in Edges, DeleteEdge(e)
      PROVE  RowsInv'
  BY <1>3, FewerEdges DEF DeleteEdge, RowsInv, TypeOK
<1>4. ASSUME NEW n \in ResourceIds \cup {"shelf"}, DeleteNode(n)
      PROVE  RowsInv'
  BY <1>4, FewerEdges DEF DeleteNode, RowsInv, TypeOK
<1>5. ASSUME NEW answer \in Configurations, Replace(answer)
      PROVE  RowsInv'
  <2>1. /\ answer.resources \in SUBSET Resources /\ answer.bindings \in Seq(BindingRows)
        /\ UniqueRows(answer.bindings)
    BY CanvasAssumption
  <2>2. graphNodes(answer.resources) \in SUBSET (ResourceIds \cup {"shelf"})
    BY <2>1 DEF graphNodes, ResourceIds
  <2>3. QED
    BY <1>5, <2>1, <2>2, CopiedRows DEF Replace
<1>6. CASE Remount
  <2>1. graphNodes(resources) \in SUBSET (ResourceIds \cup {"shelf"})
    BY DEF graphNodes, ResourceIds, RowsInv, TypeOK
  <2>2. QED
    BY <1>6, <2>1, CopiedRows DEF Remount, RowsInv, TypeOK
<1>7. CASE UNCHANGED vars
  BY <1>7 DEF vars, RowsInv, TypeOK, EveryEdgeIsABinding
<1>8. QED
  BY <1>1, <1>2, <1>3, <1>4, <1>5, <1>6, <1>7 DEF Next

\* Every edge that can be double-clicked has a binding to remove: onConnect draws
\* one for a resource that is connected, but with the identifier of a binding
\* (ShelfCanvas.tsx, line 76).
THEOREM EveryEdgeIsABindingTheorem == Spec => []EveryEdgeIsABinding
<1>1. RowsInv => EveryEdgeIsABinding
  BY DEF RowsInv
<1>2. RowsInv /\ [Next]_vars => RowsInv'
  BY RowsStep
<1> QED
  BY <1>1, <1>2, RowsInit, PTL DEF Spec

\* removeBinding filters by an identifier that one binding has, and no other.
THEOREM DoubleClickRemovesOneTheorem == Spec => DoubleClickRemovesOne
<1>1. ASSUME RowsInv, NEW e \in Edges, DoubleClick(e)
      PROVE  Len(bindings') = Len(bindings) - 1
  <2>1. PICK d \in DOMAIN bindings : bindings' = filter(bindings, DOMAIN bindings \ {d})
    BY <1>1, RemovedRow
  <2>2. bindings \in Seq(BindingRows)
    BY <1>1 DEF RowsInv, TypeOK
  <2>3. QED
    BY <2>1, <2>2, FilterOne
<1>2. RowsInv /\ [Next]_vars =>
        /\ RowsInv'
        /\ [(\E e \in Edges : DoubleClick(e)) => Len(bindings') = Len(bindings) - 1]_vars
  BY <1>1, RowsStep
<1> QED
  BY <1>2, RowsInit, PTL DEF Spec, DoubleClickRemovesOne

-----------------------------------------------------------------------------
(* Kinds *)

\* Every binding is of the kind of its resource.
KindsInv ==
  \A i \in DOMAIN bindings, r \in Resources :
    bindings[i].resource = r.id => bindings[i].kind = r.kind

\* The page adds no binding of another kind than the resource has.
LEMMA KindsStep ==
  ASSUME KindsAgree, RowsInv, KindsInv, [Next]_vars
  PROVE  KindsInv'
<1>1. ASSUME NEW r \in Resources, ConnectNew(r)
      PROVE  KindsInv'
  <2>1. PICK id \in Ids \ UsedIds : SetBindings(connectResource(bindings, r, id))
    BY <1>1 DEF ConnectNew
  <2>2. /\ bindings \in Seq(BindingRows) /\ UniqueRows(bindings) /\ ~Connected(bindings, r)
        /\ id \in Ids /\ \A i \in DOMAIN bindings : bindings[i].id # id
    BY <1>1 DEF RowsInv, TypeOK, ConnectNew, UsedIds
  <2>3. bindings' = connectResource(bindings, r, id)
    BY <2>1 DEF SetBindings
  <2>4. \A k \in DOMAIN bindings' :
          \/ bindings'[k].kind = r.kind /\ bindings'[k].resource = r.id
          \/ \E i \in DOMAIN bindings : bindings'[k] = bindings[i]
    BY <2>2, <2>3, ConnectRows
  <2>5. QED
    BY <2>4 DEF KindsInv, KindsAgree
<1>2. ASSUME NEW e \in Edges, DoubleClick(e)
      PROVE  KindsInv'
  <2>1. PICK d \in DOMAIN bindings : bindings' = filter(bindings, DOMAIN bindings \ {d})
    BY <1>2, RemovedRow
  <2>2. \A k \in DOMAIN bindings' : \E i \in DOMAIN bindings : bindings'[k] = bindings[i]
    BY <2>1, FilterRows DEF RowsInv, TypeOK
  <2>3. QED
    BY <2>2 DEF KindsInv
<1>3. ASSUME NEW answer \in Configurations, Replace(answer)
      PROVE  KindsInv'
  BY <1>3 DEF Replace, KindsInv, KindsAgree
<1>4. CASE UNCHANGED bindings
  BY <1>4 DEF KindsInv
<1>5. QED
  BY <1>1, <1>2, <1>3, <1>4
     DEF Next, vars, ConnectAgain, DeleteEdge, DeleteNode, Remount

\* While devices keep their kinds, a double click on an edge that was drawn for its
\* binding leaves no binding to the resource: a resource has one binding at most.
THEOREM DoubleClickRemovesConnectionTheorem ==
  ASSUME KindsAgree
  PROVE  Spec => DoubleClickRemovesConnection
<1>1. Init => KindsInv
  BY CanvasAssumption DEF Init, KindsInv, KindsAgree
<1>2. ASSUME RowsInv, KindsInv, CanvasShowsBindings, NEW e \in Edges, DoubleClick(e),
             "edges" \notin deleted, NEW j \in DOMAIN bindings'
      PROVE  bindings'[j].resource # e.target
  <2>1. bindings \in Seq(BindingRows) /\ UniqueRows(bindings) /\ edges = graphEdges(bindings)
    BY <1>2 DEF RowsInv, TypeOK, CanvasShowsBindings
  <2>2. PICK d \in DOMAIN bindings : /\ bindings[d].id = e.id
                                     /\ bindings' = filter(bindings, DOMAIN bindings \ {d})
    BY <1>2, RemovedRow
  <2>3. PICK i \in DOMAIN bindings : bindings[i].id = e.id /\ bindings[i].resource = e.target
    BY <1>2, <2>1, GraphEdges DEF DoubleClick, Drawn
  <2>4. PICK k \in DOMAIN bindings \ {d} : bindings'[j] = bindings[k]
    BY <1>2, <2>1, <2>2, FilterRows
  <2>5. i = d
    BY <2>1, <2>2, <2>3 DEF UniqueRows
  <2>6. bindings[i] \in BindingRows
    BY <2>1
  <2>7. PICK r \in Resources : bindings[i].resource = r.id
    BY <2>6 DEF BindingRows, ResourceIds
  <2>8. bindings[k].resource = bindings[i].resource => k = i
    BY <1>2, <2>1, <2>7 DEF KindsInv, UniqueRows
  <2>9. QED
    BY <2>3, <2>4, <2>5, <2>8
<1>3. KindsInv /\ RowsInv /\ CanvasShowsBindings /\ [Next]_vars =>
        /\ KindsInv' /\ RowsInv'
        /\ [\A e \in Edges : DoubleClick(e) /\ "edges" \notin deleted =>
              \A j \in DOMAIN bindings' : bindings'[j].resource # e.target]_vars
  BY <1>2, RowsStep, KindsStep
<1> QED
  BY <1>1, <1>3, RowsInit, CanvasShowsBindingsTheorem, PTL DEF Spec, DoubleClickRemovesConnection
=============================================================================
