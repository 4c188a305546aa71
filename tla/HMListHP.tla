------------------------------- MODULE HMListHP -------------------------------
(***************************************************************************)
(* Michael's list over hazard pointers, hmlist_ibr_hp_impl.h on top of     *)
(* reclaimer_ibr_hp.h, as the difference to HMList: list_search loads next *)
(* fields with read(tid, slot, field), which protects what it returns, and *)
(* a retired node is freed when no slot holds it, whoever still uses it.   *)
(*                                                                         *)
(* Behaviours end where a thread would load or change a field of a freed   *)
(* node: what happens then is undefined.  What is checked is what goes     *)
(* wrong before, in memory that is allocated.                              *)
(***************************************************************************)
EXTENDS HMList

VARIABLES
    slots,          \* per thread, its three hazard pointers
    ret,            \* local of read: the field's value as first loaded
    at              \* per thread, the step of read it takes next

hp == <<slots, ret, at>>
hpVars == <<vars, hp>>

Slot == 0 .. 2

HPInit ==
    /\ Init
    /\ slots = [t \in Tid |-> [s \in Slot |-> NULL]]
    /\ ret = [t \in Tid |-> pointTo(NULL)]
    /\ at = [t \in Tid |-> "load"]

-------------------------------------------------------------------------------
(* The reads of list_search: where it reads, which field, and which slot   *)
(* is to protect the result.                                               *)
reading(t) == pc[t] \in {"search", "load", "reload", "check"}
field(t) == CASE pc[t] = "search" -> Root [] pc[t] = "check" -> prev[t] [] OTHER -> curr[t]
slotOf(t) == CASE pc[t] = "load" -> 0 [] pc[t] = "check" -> 2 [] OTHER -> 1

readStep(t, from, to) == at[t] = from /\ at' = [at EXCEPT ![t] = to]

read_load(t) ==
    /\ reading(t)
    /\ readStep(t, "load", "reserve")
    /\ ret' = [ret EXCEPT ![t] = next[field(t)]]
    /\ UNCHANGED <<vars, slots>>

reserve(t) ==
    /\ readStep(t, "reserve", "validate")
    /\ slots' = [slots EXCEPT ![t][slotOf(t)] = ret[t].ptr]
    /\ UNCHANGED <<vars, ret>>

(* The second load finds the same value, and the search goes on as HMList  *)
(* does after its one load; or it does not, and read tries again.          *)
read_validate(t) ==
    /\ readStep(t, "validate", "load")
    /\ \/ /\ holds(field(t), ret[t])
          /\ search_start(t) \/ search_load(t) \/ search_reload(t) \/ search_check(t)
          /\ ret' = [ret EXCEPT ![t] = pointTo(NULL)]
       \/ ~holds(field(t), ret[t]) /\ UNCHANGED <<vars, ret>>
    /\ UNCHANGED slots

endOp_clear(t) ==
    /\ endOp(t)
    /\ slots' = [slots EXCEPT ![t] = [s \in Slot |-> NULL]]
    /\ UNCHANGED <<ret, at>>

(* The steps that read nothing through a slot are HMList's. *)
update(t) ==
    /\ \/ startOp(t) \/ search_unlink(t) \/ search_retire(t)
       \/ insert_link(t) \/ erase_mark(t) \/ erase_unlink(t) \/ erase_retire(t)
       \/ insert_readVal(t)
    /\ UNCHANGED hp

(* empty copies all slots at one moment (the code takes one by one, and    *)
(* may find no slot where this finds none) and frees what they do not hold.*)
conflict(n) == \E t \in Tid, s \in Slot : slots[t][s] = n

empty(n) ==
    /\ status[n] = "retired" /\ ~conflict(n)
    /\ status' = [status EXCEPT ![n] = "free"]
    /\ next' = [next EXCEPT ![n] = pointTo(NULL)]
    /\ key' = [key EXCEPT ![n] = KEY_MIN]
    /\ UNCHANGED <<reclaimer, pc, call, seen, search, hp>>

(* The nodes whose fields thread t's next step loads or changes. *)
dereferenced(t) ==
    CASE pc[t] \in {"load", "reload"} /\ at[t] # "reserve" -> {curr[t]}
      [] pc[t] = "check" /\ at[t] = "load" -> {curr[t], prev[t]}
      [] pc[t] = "check" /\ at[t] = "validate" -> {prev[t]}
      [] pc[t] \in {"unlink", "link", "eraseUnlink"} -> {prev[t]}
      [] pc[t] = "mark" -> {curr[t]}
      [] OTHER -> {}

defined == \A t \in Tid : \A n \in dereferenced(t) \cap Node : status[n] # "free"

HPNext ==
    /\ defined
    /\ \/ \E t \in Tid : read_load(t) \/ reserve(t) \/ read_validate(t)
                         \/ endOp_clear(t) \/ update(t)
       \/ \E n \in Node : empty(n)

HPSpec == HPInit /\ [][HPNext]_hpVars

-------------------------------------------------------------------------------
(* The set holds what the operations' return values say, as the harness    *)
(* validates at the end of a trial: a linearizable set, that is.           *)
ValidReturnValues == AbstractSet!Spec
=============================================================================
