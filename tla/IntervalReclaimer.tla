--------------------------- MODULE IntervalReclaimer ---------------------------
(***************************************************************************)
(* Interval based reclamation, reclaimer_2geibr.h: a thread announces the  *)
(* interval of epochs its operation has lived in.  The upper end is the    *)
(* reservation that read raises; the lower end is set once, by startOp.    *)
(* IBR marks the definitions that HazardEras has its own version of.       *)
(***************************************************************************)
EXTENDS EraReclaimer

VARIABLES
    lower,      \* lower_reservs
    low         \* local of empty: the lower end it has just loaded

vars == <<eraVars, lower, low>>

(* The interval of a thread outside any operation. *)
UINT64_MAX == MaxEpoch + 1
upper(t) == reservations[<<t, 1>>]

IBRInit ==
    /\ EraInit(0, UINT64_MAX, "idle")
    /\ lower = [t \in Tid |-> UINT64_MAX]
    /\ low = [t \in Tid |-> UINT64_MAX]

setUpper(t, epo) == reservations' = [reservations EXCEPT ![<<t, 1>>] = epo]

-------------------------------------------------------------------------------
(* A wrong version of ibr_conflict below. *)

(* takes a record created in the last epoch of the interval for younger *)
conflictYounger(t, res) ==
    \E interval \in scanned[t] :
        interval.upper > res.birth /\ interval.lower <= res.retire

-------------------------------------------------------------------------------
(* startOp: load the epoch, store both ends. *)
startOp_load(t) ==
    /\ goto(t, "idle", "startLower")
    /\ e' = [e EXCEPT ![t] = epoch]
    /\ UNCHANGED <<records, reclaimer, newNode, reading, obj, emptying, ref, lower, low>>

startOp_lower(t) ==
    /\ goto(t, "startLower", "startUpper")
    /\ lower' = [lower EXCEPT ![t] = e[t]]
    /\ UNCHANGED <<records, reclaimer, newNode, reading, retiring, emptying, ref, low>>

startOp_upper(t) ==
    /\ goto(t, "startUpper", "op")
    /\ setUpper(t, e[t])
    /\ e' = [e EXCEPT ![t] = 0]
    /\ UNCHANGED <<records, epoch, birth, retired, retire_counters, alloc_counters,
                   newNode, reading, obj, emptying, ref, lower, low>>

(* endOp: upper end first, so that the interval grows before it vanishes. *)
endOp_upper(t) ==
    /\ goto(t, "op", "ending")
    /\ setUpper(t, UINT64_MAX)
    /\ ref' = [ref EXCEPT ![<<t, 1>>] = {}]
    /\ UNCHANGED <<records, epoch, birth, retired, retire_counters, alloc_counters,
                   newNode, reading, retiring, emptying, lower, low>>

endOp_lower(t) ==
    /\ goto(t, "ending", "idle")
    /\ lower' = [lower EXCEPT ![t] = UINT64_MAX]
    /\ UNCHANGED <<records, reclaimer, newNode, reading, retiring, emptying, ref, low>>

(* empty, first loop: "sequence matters", the lower end is loaded first. *)
empty_scanLower(t) ==
    /\ goto(t, "scan", "scanUpper")
    /\ \E u \in toScan[t] :
          /\ \A v \in toScan[t] : u <= v
          /\ low' = [low EXCEPT ![t] = lower[u]]
    /\ UNCHANGED <<records, reclaimer, newNode, reading, retiring, emptying, ref, lower>>

empty_scanUpper(t) ==
    /\ pc[t] = "scanUpper"
    /\ \E u \in toScan[t] :
          /\ \A v \in toScan[t] : u <= v
          /\ scanned' = [scanned EXCEPT
                ![t] = @ \union {[lower |-> low[t], upper |-> upper(u)]}]
          /\ toScan' = [toScan EXCEPT ![t] = @ \ {u}]
          /\ goto(t, "scanUpper", IF toScan[t] = {u} THEN "sweep" ELSE "scan")
    /\ low' = [low EXCEPT ![t] = UINT64_MAX]
    /\ UNCHANGED <<records, reclaimer, newNode, reading, retiring, ref, lower>>

(* Some operation was announced to live while the record did. *)
ibr_conflict(t, res) ==
    \E interval \in scanned[t] :
        interval.upper >= res.birth /\ interval.lower <= res.retire

ibr_retire(t) ==
    \/ retire_push(t, Tid)
    \/ \E res \in retired[t] : ~ibr_conflict(t, res) /\ empty_free(t, res)
    \/ (\A res \in retired[t] : ibr_conflict(t, res)) /\ empty_return(t)

(* An interval protects what any read of the operation has returned. *)
ibr_client(t) == \E c \in Cell : read_call(t, <<t, 1>>, c, ref[<<t, 1>>])

IBRNext ==
    \E t \in Tid :
        \/ (shared(t) \/ ibr_client(t) \/ ibr_retire(t)) /\ UNCHANGED <<lower, low>>
        \/ startOp_load(t) \/ startOp_lower(t) \/ startOp_upper(t)
        \/ endOp_upper(t) \/ endOp_lower(t)
        \/ empty_scanLower(t) \/ empty_scanUpper(t)

IBRSpec == IBRInit /\ [][IBRNext]_vars

-------------------------------------------------------------------------------
Reservation == Epoch \union {UINT64_MAX}

(* Every variable holds what the code can store in it. *)
IBRTypeOK ==
    /\ RecordsTypeOK
    /\ epoch \in Epoch
    /\ birth \in [Node -> Epoch]
    /\ reservations \in [Slot -> Reservation] /\ lower \in [Tid -> Reservation]
    /\ retired \in [Tid -> SUBSET Info]
    /\ retire_counters \in [Tid -> 0 .. EmptyFreq - 1]
    /\ alloc_counters \in [Tid -> 0 .. AllocPeriod - 1]
    /\ pc \in [Tid -> {"idle", "startLower", "startUpper", "op", "ending", "load", "check",
                       "announce", "created", "link", "retire", "push", "scan",
                       "scanUpper", "sweep"}]
    /\ newNode \in [Tid -> Pointer] /\ ret \in [Tid -> Pointer] /\ obj \in [Tid -> Pointer]
    /\ idx \in [Tid -> Slot] /\ \A t \in Tid : idx[t] \in slotsOf(t)
    /\ src \in [Tid -> Cell \union {NULL}]
    /\ e \in [Tid -> Epoch]
    /\ toScan \in [Tid -> SUBSET Tid]
    /\ scanned \in [Tid -> SUBSET [lower : Reservation, upper : Reservation]]
    /\ low \in [Tid -> Reservation]
    /\ ref \in [Slot -> SUBSET Node]

(* The interval argument: the announced interval of an operation meets the *)
(* life of every record the operation has a pointer to.                    *)
IBRCovered ==
    \A t \in Tid : \A n \in ref[<<t, 1>>] :
        /\ birth[n] <= upper(t)
        /\ \A u \in Tid : \A res \in retired[u] : res.obj = n => lower[t] <= res.retire
=============================================================================
