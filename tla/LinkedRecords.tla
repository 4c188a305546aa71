---------------------------- MODULE LinkedRecords ----------------------------
(***************************************************************************)
(* The memory a reclaimer and its client share: a set of link cells (the   *)
(* head and next fields of a list, the child fields of a tree), each       *)
(* holding a record or NULL, and the allocator's free records (pool_none   *)
(* over allocator_new: pool->add is delete, allocate is new, so an address *)
(* that has been freed is handed out again).                               *)
(*                                                                         *)
(* The client is the data structures of ds/, reduced to what a reclaimer   *)
(* can tell apart: a record becomes reachable by one CAS on a cell, stops  *)
(* being reachable by one CAS on a cell, and only the thread whose CAS     *)
(* unlinked it passes it to retire.                                        *)
(***************************************************************************)
EXTENDS Naturals, FiniteSets

CONSTANTS
    NumProcess,     \* threads taking part, num_process in the code
    Node,           \* the records (addresses) the allocator has
    Cell,           \* the shared link cells
    NULL

ASSUME LinkedRecordsAssumption ==
    /\ NumProcess \in Nat \ {0}
    /\ NULL \notin Node

Tid == 0 .. NumProcess - 1

VARIABLES
    cell,           \* what each shared link holds
    pool            \* the records the allocator may hand out

records == <<cell, pool>>

RecordsTypeOK ==
    /\ cell \in [Cell -> Node \union {NULL}]
    /\ pool \subseteq Node

(* A data structure nobody has inserted into yet. *)
RecordsInit ==
    /\ cell = [c \in Cell |-> NULL]
    /\ pool = Node

Linked == {n \in Node : \E c \in Cell : cell[c] = n}

(* doInsert: new_node and the CAS that links it.  The record is private in *)
(* between, and a record that loses the race is deallocated unshared.      *)
link(c) ==
    /\ cell[c] = NULL
    /\ \E n \in pool :
          /\ cell' = [cell EXCEPT ![c] = n]
          /\ pool' = pool \ {n}

(* erase, list_search: the CAS that takes n out of the structure. *)
unlink(c, n) ==
    /\ cell[c] = n
    /\ cell' = [cell EXCEPT ![c] = NULL]
    /\ UNCHANGED pool

(* pool->add: the record's memory goes back to the allocator. *)
poolAdd(n) ==
    /\ pool' = pool \union {n}
    /\ UNCHANGED cell
=============================================================================
