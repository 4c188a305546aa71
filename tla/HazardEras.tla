------------------------------ MODULE HazardEras ------------------------------
(***************************************************************************)
(* Hazard eras, reclaimer_he.h: a thread has a few slots, each with the    *)
(* epoch that was current when its last read for the slot returned.        *)
(***************************************************************************)
EXTENDS EraReclaimer

(* An empty slot; the epoch starts at 1 so that no epoch looks like one. *)
NONE_RESERVED == 0

Init == EraInit(1, NONE_RESERVED, "op")

-------------------------------------------------------------------------------
(* A wrong version of conflict below. *)

(* takes an epoch for one outside when it is the record's last *)
conflictOpenEnd(t, res) ==
    \E epo \in scanned[t] : epo # NONE_RESERVED /\ epo >= res.birth /\ epo < res.retire

-------------------------------------------------------------------------------
(* startOp does nothing; endOp empties the slots, which protect nothing by *)
(* then.                                                                   *)
endOp(t) ==
    /\ goto(t, "op", "op")
    /\ reservations' = [s \in Slot |-> IF s \in slotsOf(t) THEN NONE_RESERVED
                                       ELSE reservations[s]]
    /\ ref' = [s \in Slot |-> IF s \in slotsOf(t) THEN {} ELSE ref[s]]
    /\ UNCHANGED <<records, epoch, birth, retired, retire_counters, alloc_counters,
                   newNode, reading, retiring, emptying>>

(* empty, first loop: the slots are copied one by one, in order. *)
before(s, r) == s[1] < r[1] \/ (s[1] = r[1] /\ s[2] < r[2])

empty_scan(t) ==
    /\ pc[t] = "scan"
    /\ \E s \in toScan[t] :
          /\ \A r \in toScan[t] \ {s} : before(s, r)
          /\ scanned' = [scanned EXCEPT ![t] = @ \union {reservations[s]}]
          /\ toScan' = [toScan EXCEPT ![t] = @ \ {s}]
          /\ goto(t, "scan", IF toScan[t] = {s} THEN "sweep" ELSE "scan")
    /\ UNCHANGED <<records, reclaimer, newNode, reading, retiring, ref>>

(* isFreeable, negated: some slot named an epoch of the record's life. *)
conflict(t, res) ==
    \E epo \in scanned[t] : epo # NONE_RESERVED /\ epo >= res.birth /\ epo <= res.retire

retire(t) ==
    \/ retire_push(t, Slot)
    \/ empty_scan(t)
    \/ \E res \in retired[t] : ~conflict(t, res) /\ empty_free(t, res)
    \/ (\A res \in retired[t] : conflict(t, res)) /\ empty_return(t)

(* A read for a slot gives up what the slot protected before. *)
client(t) ==
    \/ endOp(t)
    \/ \E s \in slotsOf(t), c \in Cell : read_call(t, s, c, {})

Next == \E t \in Tid : shared(t) \/ client(t) \/ retire(t)

Spec == Init /\ [][Next]_eraVars

-------------------------------------------------------------------------------
(* Every variable holds what the code can store in it. *)
TypeOK ==
    /\ RecordsTypeOK
    /\ epoch \in Epoch \ {0}
    /\ birth \in [Node -> Epoch]
    /\ reservations \in [Slot -> Epoch]
    /\ retired \in [Tid -> SUBSET Info]
    /\ retire_counters \in [Tid -> 0 .. EmptyFreq - 1]
    /\ alloc_counters \in [Tid -> 0 .. AllocPeriod - 1]
    /\ pc \in [Tid -> {"op", "load", "check", "announce", "created", "link", "retire",
                       "push", "scan", "sweep"}]
    /\ newNode \in [Tid -> Pointer] /\ ret \in [Tid -> Pointer] /\ obj \in [Tid -> Pointer]
    /\ idx \in [Tid -> Slot] /\ \A t \in Tid : idx[t] \in slotsOf(t)
    /\ src \in [Tid -> Cell \union {NULL}]
    /\ e \in [Tid -> Epoch]
    /\ toScan \in [Tid -> SUBSET Slot]
    /\ scanned \in [Tid -> SUBSET Epoch]
    /\ ref \in [Slot -> SUBSET Node]

(* The era argument: the epoch in a slot is one of the life of the record  *)
(* that it protects, from the record's creation on, and the record is not  *)
(* retired with an earlier one.                                            *)
Covered ==
    \A s \in Slot : \A n \in ref[s] :
        /\ birth[n] <= reservations[s]
        /\ \A t \in Tid : \A res \in retired[t] : res.obj = n => reservations[s] <= res.retire
=============================================================================
