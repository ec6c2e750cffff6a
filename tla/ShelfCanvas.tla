---------------------------- MODULE ShelfCanvas ----------------------------
(***************************************************************************)
(* The canvas of the configurator (ShelfCanvas.tsx with bindings.ts): the  *)
(* bindings of the store are drawn from a copy that React Flow edits.  The *)
(* nodes and edges are computed from the store and copied whenever that    *)
(* computation yields a new list; in between React Flow applies changes of *)
(* its own to the copy, and onConnect adds an edge.                        *)
(*                                                                         *)
(* One step is an event with the render and the effects that follow.  The  *)
(* rest of the page, which ConfiguratorUi models, shows here as Replace.   *)
(***************************************************************************)
EXTENDS Naturals, Sequences

CONSTANTS
  Resources,      \* resource nodes: records of kind and id
  Ids,            \* identifiers of bindings
  Configurations, \* what the API answers: records of resources and bindings
  Opened,         \* the one the canvas is opened with
  MaxBindings     \* bound: a list this long does not grow any more

singletonKinds == {"Controller", "Camera", "LedOutput"}

ResourceIds == {r.id : r \in Resources}
Kinds       == {r.kind : r \in Resources}

BindingRows == [id : Ids, kind : Kinds, resource : ResourceIds]

\* The primary key and the UNIQUE of shelf_resource_bindings.
UniqueRows(list) ==
  \A i, j \in DOMAIN list :
    \/ list[i].id = list[j].id
    \/ list[i].kind = list[j].kind /\ list[i].resource = list[j].resource
    => i = j

ASSUME CanvasAssumption ==
  /\ Configurations \subseteq [resources : SUBSET Resources, bindings : Seq(BindingRows)]
  /\ \A answer \in Configurations : UniqueRows(answer.bindings)
  /\ Opened \in Configurations
  /\ "shelf" \notin ResourceIds
  /\ MaxBindings \in Nat

VARIABLES
  resources,  \* the resources of the configuration of the store
  bindings,   \* the bindings of the store
  nodes,      \* React Flow's copy: "shelf" and identifiers of resources
  edges,      \* React Flow's copy: identifier and target, all from the shelf
  deleted     \* history: the copies Backspace took from since they were made

vars == <<resources, bindings, nodes, edges, deleted>>

Edges == [id : Ids, target : ResourceIds]

\* The types of the variables.
TypeOK ==
  /\ resources \in SUBSET Resources
  /\ bindings \in Seq(BindingRows)
  /\ nodes \in SUBSET (ResourceIds \cup {"shelf"})
  /\ edges \in Seq(Edges)
  /\ deleted \in SUBSET {"nodes", "edges"}

-----------------------------------------------------------------------------
(* bindings.ts *)

\* Array.filter: what a list has at the positions in kept, in its order.
filter(list, kept) ==
  LET upTo[n \in 0..Len(list)] ==
        IF n = 0 THEN <<>>
        ELSE IF n \in kept THEN Append(upTo[n - 1], list[n]) ELSE upTo[n - 1]
  IN  upTo[Len(list)]

\* connectResource, for a resource that is not connected yet.
connectResource(list, resource, id) ==
  Append(IF resource.kind \in singletonKinds
         THEN filter(list, {i \in DOMAIN list : list[i].kind # resource.kind}) ELSE list,
         [id |-> id, kind |-> resource.kind, resource |-> resource.id])

Connected(list, resource) ==
  \E i \in DOMAIN list : list[i].kind = resource.kind /\ list[i].resource = resource.id

\* A mutant: an edge takes every row of its kind along.
removeBindingOfKind(list, id) ==
  filter(list, {i \in DOMAIN list :
    \A j \in DOMAIN list : list[j].id = id => list[i].kind # list[j].kind})

removeBinding(list, id) == filter(list, {i \in DOMAIN list : list[i].id # id})

-----------------------------------------------------------------------------
(* What is drawn. *)

graphNodes(shown) == {"shelf"} \cup {r.id : r \in shown}

graphEdges(list) ==
  [i \in DOMAIN list |-> [id |-> list[i].id, target |-> list[i].resource]]

\* A mutant: the edge is added to a target that has one.
addEdgeTwice(edge, list) == Append(list, edge)

\* React Flow's addEdge: a second edge between two nodes is not added.
addEdge(edge, list) ==
  IF \E i \in DOMAIN list : list[i].target = edge.target THEN list
  ELSE Append(list, edge)

\* React Flow finds an edge by its identifier, the last of several, and draws it
\* between two nodes that are there.
Drawn ==
  {edges[i] : i \in {i \in DOMAIN edges :
     /\ {"shelf", edges[i].target} \subseteq nodes
     /\ \A j \in DOMAIN edges : edges[j].id = edges[i].id => j =< i}}

Init ==
  /\ resources = Opened.resources
  /\ bindings = Opened.bindings
  /\ nodes = graphNodes(resources)
  /\ edges = graphEdges(bindings)
  /\ deleted = {}

\* A mutant: the effect that copies the edges is missing.
SetBindingsOnly(list) ==
  /\ bindings' = list
  /\ UNCHANGED <<resources, nodes, edges, deleted>>

\* setBindings with a new list: the effect of the edges copies them.
SetBindings(list) ==
  /\ bindings' = list
  /\ edges' = graphEdges(list)
  /\ deleted' = deleted \ {"edges"}
  /\ UNCHANGED <<resources, nodes>>

\* A configuration was loaded or saved, or the canvas is shown again: both memos
\* and both effects run.
Replace(answer) ==
  /\ resources' = answer.resources
  /\ bindings' = answer.bindings
  /\ nodes' = graphNodes(answer.resources)
  /\ edges' = graphEdges(answer.bindings)
  /\ deleted' = {}

Remount ==
  /\ nodes' = graphNodes(resources)
  /\ edges' = graphEdges(bindings)
  /\ deleted' = {}
  /\ UNCHANGED <<resources, bindings>>

-----------------------------------------------------------------------------
(* The user. *)

UsedIds == {bindings[i].id : i \in DOMAIN bindings} \cup {edges[i].id : i \in DOMAIN edges}

\* onConnect for a resource that is not connected: what addEdge returns is
\* overwritten by the effect.
ConnectNew(resource) ==
  /\ {"shelf", resource.id} \subseteq nodes
  /\ resource \in resources
  /\ ~Connected(bindings, resource)
  /\ Len(bindings) < MaxBindings
  /\ \E id \in Ids \ UsedIds : SetBindings(connectResource(bindings, resource, id))

\* onConnect for one that is: the list is the same one, so nothing is copied,
\* and the edge gets the identifier of the last binding of the list.
ConnectAgain(resource) ==
  /\ {"shelf", resource.id} \subseteq nodes
  /\ resource \in resources
  /\ Connected(bindings, resource)
  /\ edges' = addEdge([id |-> bindings[Len(bindings)].id, target |-> resource.id], edges)
  /\ UNCHANGED <<resources, bindings, nodes, deleted>>

\* onEdgeDoubleClick
DoubleClick(edge) ==
  /\ edge \in Drawn
  /\ SetBindings(removeBinding(bindings, edge.id))

\* Backspace, React Flow's default delete key, with an edge or a node selected:
\* onEdgesChange and onNodesChange change the copy, the edges of a node go with it,
\* the store is not told.
DeleteEdge(edge) ==
  /\ edge \in Drawn
  /\ edges' = filter(edges, {i \in DOMAIN edges : edges[i].id # edge.id})
  /\ deleted' = deleted \cup {"edges"}
  /\ UNCHANGED <<resources, bindings, nodes>>

DeleteNode(node) ==
  /\ node \in nodes
  /\ nodes' = nodes \ {node}
  /\ LET gone == {e \in {edges[i] : i \in DOMAIN edges} : node \in {"shelf", e.target}}
     IN  edges' = filter(edges, {i \in DOMAIN edges : \A g \in gone : edges[i].id # g.id})
  /\ deleted' = {"nodes", "edges"}
  /\ UNCHANGED <<resources, bindings>>

Next ==
  \/ \E r \in Resources : ConnectNew(r) \/ ConnectAgain(r)
  \/ \E e \in Edges : DoubleClick(e) \/ DeleteEdge(e)
  \/ \E n \in ResourceIds \cup {"shelf"} : DeleteNode(n)
  \/ \E answer \in Configurations : Replace(answer)
  \/ Remount

Spec == Init /\ [][Next]_vars

-----------------------------------------------------------------------------
\* The copies drift from the store only by Backspace, and only until they are
\* made again: otherwise what is drawn is what will be saved, although onConnect
\* writes to both.
CanvasShowsBindings ==
  /\ "nodes" \notin deleted => nodes = graphNodes(resources)
  /\ "edges" \notin deleted => edges = graphEdges(bindings)

\* Every edge on the canvas carries the identifier of a binding of the store, so
\* that a double click on it has something to remove.
EveryEdgeIsABinding ==
  \A i \in DOMAIN edges : \E j \in DOMAIN bindings : bindings[j].id = edges[i].id

\* A double click takes one binding from the list that will be saved, not more.
DoubleClickRemovesOne ==
  [][ (\E e \in Edges : DoubleClick(e)) => Len(bindings') = Len(bindings) - 1 ]_vars

\* Every row an answer has is of the kind its resource is shown with, now and
\* later; so it is until somebody saves a device with another kind.
KindsAgree ==
  /\ \A r, q \in Resources : r.id = q.id => r.kind = q.kind
  /\ \A answer \in Configurations : \A i \in DOMAIN answer.bindings, r \in Resources :
       answer.bindings[i].resource = r.id => answer.bindings[i].kind = r.kind

\* "Double-click a connection to remove it": afterwards no binding of the list
\* that will be saved leads to the resource the connection led to.  An edge that
\* was deleted by Backspace and drawn again may stand for another binding.
DoubleClickRemovesConnection ==
  [][ \A e \in Edges : DoubleClick(e) /\ "edges" \notin deleted =>
        \A j \in DOMAIN bindings' : bindings'[j].resource # e.target ]_vars
=============================================================================
