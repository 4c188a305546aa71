------------------------------ MODULE MCNBRPlus ------------------------------
(* An instance of NBRPlus for TLC, with three threads. *)
EXTENDS NBRPlus, TLC

(* A workload: thread 0 only reads, thread 1 updates, and thread 2 does so *)
(* until its bag is full.  Each behaviour is one of NBRPlus.               *)
ThreeNext ==
    /\ ~isOutOfPatience(2)
    /\ \/ startOp(0)
       \/ \E t \in {1, 2} : client(t) \/ retire(t)
       \/ \E t \in Tid : handler(t)

ThreeSpec == Init /\ [][ThreeNext]_vars

Symmetry == Permutations(Node)
===============================================================================
