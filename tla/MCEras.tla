-------------------------------- MODULE MCEras --------------------------------
(* Interval based reclamation, hazard eras and quiescent states on one     *)
(* instance each: the scheme is chosen when the program is built.  The     *)
(* third has records, links and variables of its own.                      *)
EXTENDS EraReclaimer, TLC

CONSTANTS NONE, QNode, QCell

VARIABLES scheme, lower, low,
          qcell, qpool, qepoch, qreservations, qretired, qretire_counters,
          qalloc_counters, qpc, qe, qobj, qi, minEpoch, waiting

HE == INSTANCE HazardEras
IBR == INSTANCE IntervalReclaimer
QSBR == INSTANCE QuiescentReclaimer
    WITH Node <- QNode, Cell <- QCell, EmptyFreq <- 2,
         cell <- qcell, pool <- qpool, epoch <- qepoch, reservations <- qreservations,
         retired <- qretired, retire_counters <- qretire_counters,
         alloc_counters <- qalloc_counters, pc <- qpc, e <- qe, obj <- qobj, i <- qi

qVars == <<qcell, qpool, qepoch, qreservations, qretired, qretire_counters,
           qalloc_counters, qpc, qe, qobj, qi, minEpoch, waiting>>
vars == <<scheme, eraVars, lower, low, qVars>>

Init ==
    /\ \/ scheme = "HE" /\ HE!Init
       \/ scheme = "IBR" /\ IBR!IBRInit
       \/ scheme = "QSBR" /\ HE!Init /\ QSBR!Init
    /\ scheme # "IBR" => lower = NONE /\ low = NONE
    /\ scheme # "QSBR" =>
          /\ qcell = NONE /\ qpool = NONE /\ qepoch = NONE /\ qreservations = NONE
          /\ qretired = NONE /\ qretire_counters = NONE /\ qalloc_counters = NONE
          /\ qpc = NONE /\ qe = NONE /\ qobj = NONE /\ qi = NONE
          /\ minEpoch = NONE /\ waiting = NONE

(* The workload for IBR and QSBR: both threads look for records, erase     *)
(* them and retire them, and thread 0 is the one that inserts.  Each       *)
(* behaviour is one of the scheme's specification.                         *)
oneInserts(step) == \A t \in Tid \ {0} : step[t] \notin {"created", "link"}

Next ==
    /\ UNCHANGED scheme
    /\ \/ scheme = "HE" /\ HE!Next /\ UNCHANGED <<lower, low, qVars>>
       \/ scheme = "IBR" /\ IBR!IBRNext /\ oneInserts(pc') /\ UNCHANGED qVars
       \/ /\ scheme = "QSBR" /\ QSBR!QuiescentNext /\ oneInserts(qpc')
          /\ UNCHANGED <<eraVars, lower, low>>

Spec == Init /\ [][Next]_vars

(* Every variable holds what the scheme can store in it. *)
TypeOK ==
    CASE scheme = "HE" -> HE!TypeOK
      [] scheme = "IBR" -> IBR!IBRTypeOK
      [] scheme = "QSBR" -> QSBR!TypeOK

(* What is announced meets the life of what it protects; with quiescent    *)
(* states, it is no later than its retirement.                             *)
Covered ==
    CASE scheme = "HE" -> HE!Covered
      [] scheme = "IBR" -> IBR!IBRCovered
      [] scheme = "QSBR" -> QSBR!QuiescentBefore

(* Quiescent states protect a thread that has once been quiescent.         *)
SafeOnceQuiescent == scheme = "QSBR" => QSBR!SafeOnceQuiescent

(* Records are interchangeable, and so are cells: no definition names one. *)
Symmetry == Permutations(Node) \union Permutations(Cell)
            \union Permutations(QNode) \union Permutations(QCell)
=============================================================================
