-------------------------- MODULE MCConfiguratorUi --------------------------
(***************************************************************************)
(* A small instance of the configurator: two LED outputs that exclude each *)
(* other, and one shelf, which somebody creates on the page.               *)
(***************************************************************************)
EXTENDS ConfiguratorUi, TLC

CONSTANTS led1, led2

MCResourceIds == {led1, led2}

MCLeds == {[kind |-> "LedOutput", id |-> i] : i \in MCResourceIds}

MCNoStock == [s \in ShelfIds |-> NoShelf]

\* Neither the slots of the tasks nor the two outputs are told apart.
PageSymmetry == Permutations(Tasks) \cup Permutations(MCResourceIds)
=============================================================================
