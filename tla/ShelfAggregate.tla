--------------------------- MODULE ShelfAggregate ---------------------------
(***************************************************************************)
(* The Shelf aggregate of the domain: a value, and the operations that     *)
(* turn one value into the next.  The name and the location of a shelf     *)
(* always change together and are one value here, its config.  Status and  *)
(* LED colour of the entity are never persisted and are left out, as are   *)
(* timestamps and the row identifiers of bindings.                         *)
(***************************************************************************)
EXTENDS Naturals, FiniteSets, Sequences, Functions

CONSTANTS
  Configs,      \* valid name-and-location values
  Blank,        \* a name or location the domain refuses as blank
  ResourceIds,  \* identifiers of products, devices and rules
  Bindings      \* the (kind, resource) pairs clients ask for

DeviceKinds    == {"Controller", "Camera", "Sensor", "LedOutput"}
ResourceKinds  == DeviceKinds \cup {"Product", "EvaluationRule"}
SingletonKinds == {"Controller", "Camera", "LedOutput"}

ASSUME AggregateAssumption ==
  /\ Blank \notin Configs
  /\ Bindings \subseteq [kind : ResourceKinds, id : ResourceIds]

Shelves ==
  [version : Nat, config : Configs \cup {Blank}, enabled : BOOLEAN,
   bindings : SUBSET Bindings]

\* At most one controller, one camera and one LED output.
SingletonsHold(bound) ==
  \A k \in SingletonKinds : \A b, c \in bound : b.kind = k /\ c.kind = k => b = c

-----------------------------------------------------------------------------
NewShelf(config) ==
  [version |-> 1, config |-> config, enabled |-> TRUE, bindings |-> {}]

\* A mutant: a changed configuration forgets MarkChanged.
UpdateConfigurationSilently(shelf, config) == [shelf EXCEPT !.config = config]

\* UpdateConfiguration counts a change even when the values are the same.
UpdateConfiguration(shelf, config) ==
  [shelf EXCEPT !.config = config, !.version = @ + 1]

SetEnabled(shelf, enabled) ==
  IF shelf.enabled = enabled THEN shelf
  ELSE [shelf EXCEPT !.enabled = enabled, !.version = @ + 1]

\* A mutant: the cardinality check forgets the LED output.
BindableWithoutLed(wanted) ==
  /\ \A i, j \in DOMAIN wanted : wanted[i] = wanted[j] => i = j
  /\ \A i, j \in DOMAIN wanted :
       wanted[i].kind = wanted[j].kind
         /\ wanted[i].kind \in SingletonKinds \ {"LedOutput"} => i = j

\* The lists ReplaceBindings accepts: no duplicate, no second singleton.
Bindable(wanted) ==
  /\ \A i, j \in DOMAIN wanted : wanted[i] = wanted[j] => i = j
  /\ \A i, j \in DOMAIN wanted :
       wanted[i].kind = wanted[j].kind /\ wanted[i].kind \in SingletonKinds => i = j

ReplaceBindings(shelf, wanted) ==
  IF Range(wanted) = shelf.bindings THEN shelf
  ELSE [shelf EXCEPT !.bindings = Range(wanted), !.version = @ + 1]
=============================================================================
