----------------------------- MODULE MCHMListNBR -----------------------------
(* An instance of HMListNBR for TLC. *)
EXTENDS HMListNBR, TLC

(* Threads are interchangeable, and so are nodes: no definition names one. *)
Symmetry == Permutations(Node) \union Permutations(Tid)
=============================================================================
