------------------------------- MODULE MCABTree -------------------------------
(* A tree that one thread has filled with the keys 1 .. prefill, as        *)
(* thread_prefill_with_updates or prefillWithInserts do, and the calls     *)
(* that work on it then.                                                   *)
EXTENDS ABTree

CONSTANTS
    Prefills,       \* how many keys there can be at the start
    WorkKeys,       \* BOUND: keys of the calls that follow; inserts take the
                    \* two keys after prefill as well
    MaxCalls        \* BOUND: so many calls

VARIABLES prefill, calls

MCvars == <<vars, prefill, calls>>

MCInit == Init /\ prefill \in Prefills /\ calls = 0

MCStart(t) ==
    /\ calls' = calls + 1
    /\ calls <= prefill => idle
    /\ \E o \in Operation :
          /\ startOp(t, o)
          /\ IF calls < prefill
             THEN o = [kind |-> "insert", key |-> calls + 1]
             ELSE /\ calls < prefill + MaxCalls
                  /\ \/ o.key \in WorkKeys
                     \/ o.kind = "insert" /\ o.key \in prefill + 1 .. prefill + 2

MCNext ==
    /\ UNCHANGED prefill
    /\ \E t \in Tid : MCStart(t) \/ (step(t) /\ UNCHANGED calls)

MCSpec == MCInit /\ [][MCNext]_MCvars

(* The tree is a linearizable set: between its first and its last step each *)
(* call has one at which the set changes or is as the result says.         *)
AbstractSet == INSTANCE ConcurrentSet WITH Thread <- Tid
Linearizable == AbstractSet!Spec

Symmetry == Permutations(Tid)
=============================================================================
