---------------------------- MODULE HazardPointers ----------------------------
(***************************************************************************)
(* Hazard pointers, reclaimer_ibr_hp.h.  A thread publishes the record it  *)
(* is about to use in one of its slots and then loads the link again; a    *)
(* thread that empties its list copies all slots, one after the other, and *)
(* frees what the copy does not name.                                      *)
(***************************************************************************)
EXTENDS LinkedRecords

CONSTANTS
    SlotsPerThread,     \* slotsPerThread: 3 in the code
    EmptyFreq           \* empty_freq: retires between two calls of empty

ASSUME HazardPointersAssumption ==
    /\ SlotsPerThread \in Nat \ {0}
    /\ EmptyFreq \in Nat \ {0}

NumSlots == NumProcess * SlotsPerThread
Slot == 0 .. NumSlots - 1
slotsOf(t) == {s \in Slot : \E k \in 0 .. SlotsPerThread - 1 : s = t * SlotsPerThread + k}

VARIABLES
    slots,              \* the published hazard pointers
    retired,            \* per thread, its list of records to free
    cntrs,              \* per thread, the retires since the last empty
    pc,                 \* per thread, the step it takes next
    idx, src, ret,      \* argument and local of read
    obj,                \* argument of retire
    i, scanned,         \* locals of empty: loop index, temp_local_slots
    ref                 \* per slot, the record its owner uses under its protection

reclaimer == <<slots, retired, cntrs>>
reading == <<idx, src, ret>>
emptying == <<i, scanned>>
vars == <<cell, pool, slots, retired, cntrs, pc, idx, src, ret, obj, i, scanned, ref>>

Pointer == Node \union {NULL}

Init ==
    /\ RecordsInit
    /\ slots = [s \in Slot |-> NULL]
    /\ retired = [t \in Tid |-> {}]
    /\ cntrs = [t \in Tid |-> 0]
    /\ pc = [t \in Tid |-> "op"]
    /\ idx = [t \in Tid |-> 0]
    /\ src = [t \in Tid |-> NULL]
    /\ ret = [t \in Tid |-> NULL]
    /\ obj = [t \in Tid |-> NULL]
    /\ i = [t \in Tid |-> 0]
    /\ scanned = [t \in Tid |-> {}]
    /\ ref = [s \in Slot |-> NULL]

goto(t, from, to) == pc[t] = from /\ pc' = [pc EXCEPT ![t] = to]

-------------------------------------------------------------------------------
(* Wrong versions of steps below, which the properties must tell from the  *)
(* right ones.                                                             *)

(* does not start a new period *)
retire_noReset(t) ==
    /\ retired' = [retired EXCEPT ![t] = @ \union {obj[t]}]
    /\ IF cntrs[t] = EmptyFreq
       THEN goto(t, "retire", "scan") /\ UNCHANGED cntrs
       ELSE goto(t, "retire", "op") /\ cntrs' = [cntrs EXCEPT ![t] = @ + 1]
    /\ obj' = [obj EXCEPT ![t] = NULL]
    /\ UNCHANGED <<records, slots, reading, emptying, ref>>

(* leaves out the last slot *)
empty_scanTooShort(t) ==
    /\ scanned' = [scanned EXCEPT ![t] = @ \union ({slots[i[t]]} \ {NULL})]
    /\ IF i[t] + 2 < NumSlots
       THEN pc[t] = "scan" /\ UNCHANGED pc /\ i' = [i EXCEPT ![t] = @ + 1]
       ELSE goto(t, "scan", "sweep") /\ i' = [i EXCEPT ![t] = 0]
    /\ UNCHANGED <<records, reclaimer, reading, obj, ref>>

-------------------------------------------------------------------------------
(* startOp does nothing, so a thread between operations is one whose slots *)
(* are empty.  endOp empties them; by then it has let go of its pointers,  *)
(* so the order of the stores is of no consequence.                        *)
endOp(t) ==
    /\ pc[t] = "op"
    /\ slots' = [s \in Slot |-> IF s \in slotsOf(t) THEN NULL ELSE slots[s]]
    /\ ref' = [s \in Slot |-> IF s \in slotsOf(t) THEN NULL ELSE ref[s]]
    /\ UNCHANGED <<records, retired, cntrs, pc, reading, obj, emptying>>

(* The client calls read for slot s and link c; with that it is done with  *)
(* the record slot s protected before.                                     *)
read_call(t, s, c) ==
    /\ goto(t, "op", "load")
    /\ idx' = [idx EXCEPT ![t] = s]
    /\ src' = [src EXCEPT ![t] = c]
    /\ ref' = [ref EXCEPT ![s] = NULL]
    /\ UNCHANGED <<records, reclaimer, ret, obj, emptying>>

read_load(t) ==
    /\ goto(t, "load", "reserve")
    /\ ret' = [ret EXCEPT ![t] = cell[src[t]]]
    /\ UNCHANGED <<records, reclaimer, idx, src, obj, emptying, ref>>

reserve(t) ==
    /\ goto(t, "reserve", "validate")
    /\ slots' = [slots EXCEPT ![idx[t]] = ret[t]]
    /\ UNCHANGED <<records, retired, cntrs, reading, obj, emptying, ref>>

(* The link still holds what was published, or read starts over. *)
read_validate(t) ==
    /\ \/ /\ goto(t, "validate", "op")
          /\ cell[src[t]] = ret[t]
          /\ ref' = [ref EXCEPT ![idx[t]] = ret[t]]
          /\ src' = [src EXCEPT ![t] = NULL]
       \/ /\ goto(t, "validate", "load")
          /\ cell[src[t]] # ret[t]
          /\ UNCHANGED <<ref, src>>
    /\ ret' = [ret EXCEPT ![t] = NULL]
    /\ UNCHANGED <<records, reclaimer, idx, obj, emptying>>

insert(t, c) ==
    /\ pc[t] = "op"
    /\ link(c)
    /\ UNCHANGED <<reclaimer, pc, reading, obj, emptying, ref>>

(* erase unlinks a record that its search has found and calls retire. *)
erase(t, c) ==
    /\ goto(t, "op", "retire")
    /\ cell[c] # NULL
    /\ \E s \in slotsOf(t) : ref[s] = cell[c]
    /\ unlink(c, cell[c])
    /\ obj' = [obj EXCEPT ![t] = cell[c]]
    /\ UNCHANGED <<reclaimer, reading, emptying, ref>>

-------------------------------------------------------------------------------
(* The counter is compared before and incremented after the call of empty. *)
retire_push(t) ==
    /\ retired' = [retired EXCEPT ![t] = @ \union {obj[t]}]
    /\ IF cntrs[t] = EmptyFreq
       THEN goto(t, "retire", "scan") /\ cntrs' = [cntrs EXCEPT ![t] = 0]
       ELSE goto(t, "retire", "op") /\ cntrs' = [cntrs EXCEPT ![t] = @ + 1]
    /\ obj' = [obj EXCEPT ![t] = NULL]
    /\ UNCHANGED <<records, slots, reading, emptying, ref>>

(* empty, first loop: copy the slots, one load a step. *)
empty_scan(t) ==
    /\ scanned' = [scanned EXCEPT ![t] = @ \union ({slots[i[t]]} \ {NULL})]
    /\ IF i[t] + 1 < NumSlots
       THEN pc[t] = "scan" /\ UNCHANGED pc /\ i' = [i EXCEPT ![t] = @ + 1]
       ELSE goto(t, "scan", "sweep") /\ i' = [i EXCEPT ![t] = 0]
    /\ UNCHANGED <<records, reclaimer, reading, obj, ref>>

(* empty, second loop: free what the copy does not name. *)
conflict(t, n) == n \in scanned[t]

empty_free(t) ==
    /\ pc[t] = "sweep"
    /\ \E n \in retired[t] :
          /\ ~conflict(t, n)
          /\ retired' = [retired EXCEPT ![t] = @ \ {n}]
          /\ poolAdd(n)
    /\ UNCHANGED <<slots, cntrs, pc, reading, obj, emptying, ref>>

empty_return(t) ==
    /\ goto(t, "sweep", "op")
    /\ \A n \in retired[t] : conflict(t, n)
    /\ scanned' = [scanned EXCEPT ![t] = {}]
    /\ cntrs' = [cntrs EXCEPT ![t] = @ + 1]
    /\ UNCHANGED <<records, slots, retired, reading, obj, i, ref>>

-------------------------------------------------------------------------------
client(t) ==
    \/ endOp(t) \/ read_load(t) \/ reserve(t) \/ read_validate(t)
    \/ \E c \in Cell :
          \/ insert(t, c) \/ erase(t, c)
          \/ \E s \in slotsOf(t) : read_call(t, s, c)

retire(t) == retire_push(t) \/ empty_scan(t) \/ empty_free(t) \/ empty_return(t)

Next == \E t \in Tid : client(t) \/ retire(t)

Spec == Init /\ [][Next]_vars

-------------------------------------------------------------------------------
(* Every variable holds what the code can store in it. *)
TypeOK ==
    /\ RecordsTypeOK
    /\ slots \in [Slot -> Pointer]
    /\ retired \in [Tid -> SUBSET Node]
    /\ cntrs \in [Tid -> 0 .. EmptyFreq]
    /\ pc \in [Tid -> {"op", "load", "reserve", "validate", "retire", "scan", "sweep"}]
    /\ idx \in [Tid -> Slot]
    /\ src \in [Tid -> Cell \union {NULL}]
    /\ ret \in [Tid -> Pointer]
    /\ obj \in [Tid -> Pointer]
    /\ i \in [Tid -> Slot]
    /\ scanned \in [Tid -> SUBSET Node]
    /\ ref \in [Slot -> Pointer]

(* pool->add frees no record that read has returned and that its caller    *)
(* still protects with the slot it gave to read.                           *)
NoUseAfterFree == \A s \in Slot : ref[s] \notin pool

(* The bound that sets hazard pointers apart from epochs: however long a   *)
(* thread stays in an operation, no list is ever longer than all slots and *)
(* one period together.                                                    *)
BoundedGarbage == \A t \in Tid : Cardinality(retired[t]) <= NumSlots + EmptyFreq

(* The reclaimer keeps the contract of SafeReclamation. *)
status ==
    [n \in Node |->
        IF n \in pool THEN "free"
        ELSE IF n \in Linked THEN "linked"
        ELSE IF \E t \in Tid : n \in retired[t] THEN "retired"
        ELSE "unlinked"]

held == [t \in Tid |-> {n \in Node : \E s \in slotsOf(t) : ref[s] = n}]

Contract == INSTANCE SafeReclamation WITH Thread <- Tid
Reclamation == Contract!Spec
===============================================================================
