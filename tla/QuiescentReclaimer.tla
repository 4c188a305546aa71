-------------------------- MODULE QuiescentReclaimer --------------------------
(***************************************************************************)
(* Quiescent state based reclamation, reclaimer_qsbr.h: EpochReclaimer     *)
(* with the announcement moved to the end of an operation.  retire, empty, *)
(* updateAllocCounterAndEpoch and the constructor are the same, word for   *)
(* word; startOp does nothing, and endOp announces the epoch in which the  *)
(* thread was quiescent.                                                   *)
(***************************************************************************)
EXTENDS EpochReclaimer

(* Wrong version of quiescentEnd_store: announces that the thread is done   *)
(* with the epoch it has just loaded.                                      *)
quiescentEnd_storeNext(t) ==
    /\ goto(t, "quiesce", "idle")
    /\ reservations' = [reservations EXCEPT ![t] = e[t] + 1]
    /\ e' = [e EXCEPT ![t] = 0]
    /\ UNCHANGED <<records, epoch, retired, retire_counters, alloc_counters,
                   obj, i, minEpoch, waiting>>

-------------------------------------------------------------------------------
quiescentStart(t) ==
    /\ goto(t, "idle", "op")
    /\ UNCHANGED <<records, reclaimer, locals, waiting>>

(* endOp: the client is done with its pointers.  Load the epoch ... *)
quiescentEnd_load(t) ==
    /\ goto(t, "op", "quiesce")
    /\ e' = [e EXCEPT ![t] = epoch]
    /\ waiting' = [n \in Node |-> waiting[n] \ {t}]
    /\ UNCHANGED <<records, reclaimer, obj, i, minEpoch>>

(* ... and announce it. *)
quiescentEnd_store(t) ==
    /\ goto(t, "quiesce", "idle")
    /\ reservations' = [reservations EXCEPT ![t] = e[t]]
    /\ e' = [e EXCEPT ![t] = 0]
    /\ UNCHANGED <<records, epoch, retired, retire_counters, alloc_counters,
                   obj, i, minEpoch, waiting>>

quiescentClient(t) ==
    \/ quiescentStart(t) \/ quiescentEnd_load(t) \/ quiescentEnd_store(t)
    \/ updateAllocCounterAndEpoch(t)
    \/ \E c \in Cell : insert(t, c) \/ erase(t, c)

QuiescentNext == \E t \in Tid : quiescentClient(t) \/ retire(t)

QuiescentSpec == Init /\ [][QuiescentNext]_vars

-------------------------------------------------------------------------------
(* A thread that has once been quiescent is safe from then on: no record   *)
(* its operation may have a pointer to is freed.                           *)
SafeOnceQuiescent ==
    \A n \in pool : \A t \in waiting[n] : reservations[t] = UINT64_MAX

(* Such a thread last announced an epoch no later than the one in which a  *)
(* record it may have a pointer to was retired.                            *)
QuiescentBefore ==
    \A u \in Tid : \A res \in retired[u] : \A t \in waiting[res.obj] :
        reservations[t] # UINT64_MAX => reservations[t] <= res.epoch
===============================================================================
