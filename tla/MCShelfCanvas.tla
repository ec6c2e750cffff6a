--------------------------- MODULE MCShelfCanvas ---------------------------
(***************************************************************************)
(* Two LED outputs that exclude each other, two products, and answers with *)
(* none, one or two bindings, one of them to a resource that is gone.      *)
(***************************************************************************)
EXTENDS ShelfCanvas

CONSTANTS b1, b2, b3, b4

Led(id) == [kind |-> "LedOutput", id |-> id]
Product(id) == [kind |-> "Product", id |-> id]

MCResources == {Led("led1"), Led("led2"), Product("p1"), Product("p2")}

MCIds == {b1, b2, b3, b4}

Row(id, resource) == [id |-> id, kind |-> resource.kind, resource |-> resource.id]

MCOpened ==
  [resources |-> MCResources, bindings |-> <<Row(b1, Product("p1")), Row(b2, Led("led1"))>>]

MCConfigurations ==
  {MCOpened,
   [resources |-> MCResources, bindings |-> <<>>],
   [resources |-> MCResources \ {Product("p2")},
    bindings |-> <<Row(b3, Product("p2")), Row(b1, Product("p1"))>>]}
\* Nobody changes the kind of a device.
ASSUME MCKindsAgree == KindsAgree
=============================================================================
