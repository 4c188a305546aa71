------------------------------- MODULE MCHMList -------------------------------
(* Instances of HMList for TLC. *)
EXTENDS HMList, TLC

(* Threads are interchangeable, and so are nodes: no definition names one. *)
Symmetry == Permutations(Node) \union Permutations(Tid)
=============================================================================
