--------------------------- MODULE MCHazardPointers ---------------------------
(* Hazard pointers with and without fences on one instance: which it is is *)
(* chosen when the program is built.                                       *)
EXTENDS HazardPtrAsym, TLC

VARIABLE asym

MCInit == AsymInit /\ asym \in BOOLEAN

(* BOUND: without fences, the program uses three records.                  *)
MCNext ==
    /\ UNCHANGED asym
    /\ \/ ~asym /\ Next /\ UNCHANGED storing
       \/ asym /\ AsymNext /\ Cardinality(pool') + 3 >= Cardinality(Node)

MCSpec == MCInit /\ [][MCNext]_<<asymVars, asym>>

(* Records and cells are interchangeable: no definition names one. *)
Symmetry == Permutations(Node) \union Permutations(Cell)
=============================================================================
