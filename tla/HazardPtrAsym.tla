---------------------------- MODULE HazardPtrAsym ----------------------------
(***************************************************************************)
(* HPAsym, reclaimer_ibr_hpasyf.h: hazard pointers whose readers go        *)
(* without the fence between the store to the slot and the second load of  *)
(* the link.  The store may stay in the processor's store buffer, where    *)
(* only its own thread sees it; before a thread copies the slots it calls  *)
(* membarrier, and that returns when every thread has passed a fence.      *)
(*                                                                         *)
(* Stated as the difference to HazardPointers.  A store buffer is what x86 *)
(* has: first in, first out, and emptied by fences and locked instructions *)
(* (compare-and-swap, sequentially consistent stores).                     *)
(***************************************************************************)
EXTENDS HazardPointers, Sequences

CONSTANT MaxBuffer      \* BOUND: stores in one buffer

VARIABLES
    buffer,             \* per thread, the stores others do not see yet
    unfenced            \* per thread, whom its membarrier still waits for

storing == <<buffer, unfenced>>
asymVars == <<vars, storing>>

AsymInit ==
    /\ Init
    /\ buffer = [t \in Tid |-> <<>>]
    /\ unfenced = [t \in Tid |-> {}]

-------------------------------------------------------------------------------
(* A wrong version of callMembarrier below. *)

(* an ordinary fence, of the calling thread alone *)
callFence(t) ==
    unfenced' = [unfenced EXCEPT ![t] = IF pc'[t] = "scan" THEN {t} ELSE {}]

-------------------------------------------------------------------------------
fenced(t) == buffer[t] = <<>>

(* reserve: a relaxed store. *)
reserve_relaxed(t) ==
    /\ goto(t, "reserve", "validate")
    /\ Len(buffer[t]) < MaxBuffer
    /\ buffer' = [buffer EXCEPT ![t] = Append(@, [slot |-> idx[t], ptr |-> ret[t]])]
    /\ UNCHANGED <<records, reclaimer, reading, obj, emptying, ref, unfenced>>

(* The processor writes the oldest store of t to memory. *)
drain(t) ==
    /\ ~fenced(t)
    /\ LET store == Head(buffer[t]) IN slots' = [slots EXCEPT ![store.slot] = store.ptr]
    /\ buffer' = [buffer EXCEPT ![t] = Tail(@)]
    /\ UNCHANGED <<records, retired, cntrs, pc, reading, obj, emptying, ref, unfenced>>

(* membarrier, called by empty before it copies the slots. *)
callMembarrier(t) ==
    unfenced' = [unfenced EXCEPT ![t] = IF pc'[t] = "scan" THEN Tid ELSE {}]

membarrier(t, u) ==
    /\ u \in unfenced[t] /\ fenced(u)
    /\ unfenced' = [unfenced EXCEPT ![t] = @ \ {u}]
    /\ UNCHANGED <<vars, buffer>>

AsymNext ==
    \E t \in Tid :
        \/ reserve_relaxed(t) \/ drain(t)
        \/ \E u \in Tid : membarrier(t, u)
        \/ retire_push(t) /\ callMembarrier(t) /\ UNCHANGED buffer
        \/ /\ \/ read_load(t) \/ read_validate(t)
              \/ \E s \in slotsOf(t), c \in Cell : read_call(t, s, c)
              \/ fenced(t) /\ (endOp(t) \/ \E c \in Cell : insert(t, c) \/ erase(t, c))
              \/ unfenced[t] = {} /\ empty_scan(t)
              \/ empty_free(t) \/ empty_return(t)
           /\ UNCHANGED storing

AsymSpec == AsymInit /\ [][AsymNext]_asymVars
===============================================================================
