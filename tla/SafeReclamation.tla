--------------------------- MODULE SafeReclamation ---------------------------
(***************************************************************************)
(* What every reclaimer promises the data structures that use it: a record *)
(* handed to retire is freed, and so may be handed out again, only when no *)
(* thread has a pointer to it any more.  When it is freed, by whom and how *)
(* the reclaimer finds out is left open, and so is whether it ever is.     *)
(***************************************************************************)
CONSTANTS Thread, Node

VARIABLES
    status,     \* where each record is in its life
    held        \* per thread, the records it may dereference

vars == <<status, held>>

Status == {"free", "linked", "unlinked", "retired"}

TypeOK ==
    /\ status \in [Node -> Status]
    /\ held \in [Thread -> SUBSET Node]

Init ==
    /\ status = [n \in Node |-> "free"]
    /\ held = [t \in Thread |-> {}]

move(n, from, to) ==
    /\ status[n] = from
    /\ status' = [status EXCEPT ![n] = to]

(* A thread finds a record that is still part of the data structure. *)
Hold(t, n) ==
    /\ status[n] = "linked"
    /\ held' = [held EXCEPT ![t] = @ \union {n}]
    /\ UNCHANGED status

(* Threads drop pointers: one of them some, or all at the end of its       *)
(* operation; or several, whose announcements have become too old.         *)
Drop ==
    /\ held' \in [Thread -> SUBSET Node]
    /\ \A t \in Thread : held'[t] \subseteq held[t]
    /\ UNCHANGED status

Link(n) == move(n, "free", "linked") /\ UNCHANGED held

(* Only a thread that has found the record can take it out, *)
Unlink(t, n) == n \in held[t] /\ move(n, "linked", "unlinked") /\ UNCHANGED held

(* and hand it over.  It may do so for good, or use it to the end of its   *)
(* operation: that differs from one reclaimer to the next.                 *)
Retire(t, n) ==
    /\ move(n, "unlinked", "retired")
    /\ UNCHANGED held \/ held' = [held EXCEPT ![t] = @ \ {n}]

Free(n) ==
    /\ \A t \in Thread : n \notin held[t]
    /\ move(n, "retired", "free")
    /\ UNCHANGED held

Next ==
    \/ \E n \in Node : Link(n) \/ Free(n)
    \/ Drop
    \/ \E t \in Thread, n \in Node : Hold(t, n) \/ Unlink(t, n) \/ Retire(t, n)

Spec == Init /\ [][Next]_vars

(* No thread has a pointer to a record that has been freed. *)
NoDanglingPointer == \A t \in Thread : \A n \in held[t] : status[n] # "free"
=============================================================================
