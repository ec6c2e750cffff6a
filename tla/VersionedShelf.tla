--------------------------- MODULE VersionedShelf ---------------------------
(***************************************************************************)
(* What optimistic concurrency promises to the clients of the shelf API:   *)
(* every shelf is one register that holds a whole aggregate, and every     *)
(* operation reads and writes it in one indivisible step.  A change adds   *)
(* one to the version, builds on the value that is there, and touches only *)
(* the part it is about.                                                   *)
(***************************************************************************)
EXTENDS ShelfAggregate

CONSTANTS
  ShelfIds,     \* identifiers of shelves
  NoShelf       \* no shelf has this identifier

VARIABLE register

\* Any shelves may be there to begin with.
Init ==
  /\ register \in [ShelfIds -> Shelves \cup {NoShelf}]
  /\ \A s \in ShelfIds : register[s] # NoShelf => SingletonsHold(register[s].bindings)

Exists(s) == register[s] # NoShelf

Create(s, config) ==
  /\ ~Exists(s)
  /\ register' = [register EXCEPT ![s] = NewShelf(config)]

Rename(s, config) ==
  /\ Exists(s)
  /\ register' = [register EXCEPT ![s] = UpdateConfiguration(@, config)]

Switch(s, enabled) ==
  /\ Exists(s)
  /\ register' = [register EXCEPT ![s] = SetEnabled(@, enabled)]

Rebind(s, bound) ==
  /\ Exists(s)
  /\ SingletonsHold(bound)
  /\ bound # register[s].bindings
  /\ register' = [register EXCEPT ![s] =
                    [register[s] EXCEPT !.bindings = bound, !.version = @ + 1]]

Remove(s) ==
  /\ Exists(s)
  /\ register' = [register EXCEPT ![s] = NoShelf]

Next ==
  \E s \in ShelfIds :
    \/ \E c \in Configs : Create(s, c) \/ Rename(s, c)
    \/ \E e \in BOOLEAN : Switch(s, e)
    \/ \E bound \in SUBSET Bindings : Rebind(s, bound)
    \/ Remove(s)

Spec == Init /\ [][Next]_register
=============================================================================
