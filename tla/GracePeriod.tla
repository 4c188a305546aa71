------------------------------ MODULE GracePeriod ------------------------------
(***************************************************************************)
(* What the reclaimers that know operations but not pointers promise       *)
(* (EBR, QSBR): a record that was taken out of the data structure is freed *)
(* only when every operation that was running at that time has ended.      *)
(* Those are the operations that can have found the record, or can still   *)
(* find it through another record that was taken out.  Which reservations  *)
(* tell the reclaimer so, and when it looks, is left open.                 *)
(***************************************************************************)
CONSTANTS Thread, Node

VARIABLES
    status,     \* where each record is in its life
    active,     \* the threads between startOp and endOp
    waiting     \* per record, the threads whose operations it must outlive

vars == <<status, active, waiting>>

Status == {"free", "linked", "unlinked", "retired"}

TypeOK ==
    /\ status \in [Node -> Status]
    /\ active \subseteq Thread
    /\ waiting \in [Node -> SUBSET active]

Init ==
    /\ status = [n \in Node |-> "free"]
    /\ active = {}
    /\ waiting = [n \in Node |-> {}]

move(S, from, to) ==
    /\ \A n \in S : status[n] = from
    /\ status' = [n \in Node |-> IF n \in S THEN to ELSE status[n]]

StartOp(t) ==
    /\ t \notin active
    /\ active' = active \union {t}
    /\ UNCHANGED <<status, waiting>>

EndOp(t) ==
    /\ active' = active \ {t}
    /\ waiting' = [n \in Node |-> waiting[n] \ {t}]
    /\ UNCHANGED status

(* One store can put several records into the data structure, or take      *)
(* several out: a chain of erased nodes, a leaf with its parent.           *)
Link(S) == move(S, "free", "linked") /\ UNCHANGED <<active, waiting>>

Unlink(S) ==
    /\ move(S, "linked", "unlinked")
    /\ waiting' = [n \in Node |-> IF n \in S THEN active ELSE waiting[n]]
    /\ UNCHANGED active

Retire(n) == move({n}, "unlinked", "retired") /\ UNCHANGED <<active, waiting>>

Free(n) ==
    /\ waiting[n] = {}
    /\ move({n}, "retired", "free")
    /\ UNCHANGED <<active, waiting>>

Next ==
    \/ \E t \in Thread : StartOp(t) \/ EndOp(t)
    \/ \E S \in SUBSET Node : Link(S) \/ Unlink(S)
    \/ \E n \in Node : Retire(n) \/ Free(n)

Spec == Init /\ [][Next]_vars

(* No operation outlives a record it can have a pointer to. *)
NoDanglingPointer == \A n \in Node : status[n] = "free" => waiting[n] = {}
=============================================================================
