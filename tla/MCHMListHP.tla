------------------------------ MODULE MCHMListHP ------------------------------
(* An instance of HMListHP for TLC. *)
EXTENDS HMListHP, TLC

(* Threads are interchangeable, and so are nodes: no definition names one. *)
Symmetry == Permutations(Node) \union Permutations(Tid)
=============================================================================
