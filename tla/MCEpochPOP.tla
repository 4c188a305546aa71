------------------------------ MODULE MCEpochPOP ------------------------------
(* EpochPOP where a thread holds two records, and pings while it does.     *)
EXTENDS EpochPOP

(***************************************************************************)
(* The workload: each thread is in one long operation.  Thread 0 links,    *)
(* reads and unlinks, and looks for a record with its first slot that      *)
(* protects none; thread 1 reads and unlinks at most two records, of which *)
(* the first takes it past the low watermark.  Each behaviour is one of    *)
(* EpochSpec.                                                              *)
(***************************************************************************)
search(t, c) ==
    /\ cell[c] # NULL
    /\ \A s \in slotsOf(t) : ref[s] # cell[c]
    /\ \E s \in slotsOf(t) :
          /\ ref[s] = NULL /\ \A r \in slotsOf(t) : ref[r] = NULL => s <= r
          /\ read_call(t, s, c)

update(t) ==
    \/ startOp_load(t) \/ startOp_store(t) \/ epochRetire(t)
    \/ /\ \/ read_load(t) \/ reserve(t) \/ read_validate(t)
          \/ lo_save(t) \/ hi_ping(t) \/ signal(t)
          \/ \E c \in Cell : search(t, c) \/ erase(t, c)
       /\ UNCHANGED epochs

insert_any(t) ==
    \/ (\E c \in Cell : cell[c] = NULL) /\ updateAllocCounterAndEpoch(t)
    \/ \E c \in Cell : insert_link(t, c)

MCNext ==
    \/ update(0) \/ insert_any(0)
    \/ (pc[1] = "op" => Len(retired[1]) < 2) /\ update(1)
    \/ signal(1) /\ UNCHANGED epochs

MCSpec == EpochInit /\ [][MCNext]_epochVars

(* Records are interchangeable: no definition names one. *)
Symmetry == Permutations(Node)
===============================================================================
