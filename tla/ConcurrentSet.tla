----------------------------- MODULE ConcurrentSet -----------------------------
(***************************************************************************)
(* A linearizable set, what every data structure of ds/ promises.  An      *)
(* operation that changes the set does so in one step between its call and *)
(* its return; one that does not must have an answer that was right at     *)
(* some moment in between.  seen[t] collects what could be answered at     *)
(* these moments: whether the key was present.                             *)
(***************************************************************************)
CONSTANTS Thread, Key, NONE

VARIABLES
    set,        \* the keys in the set
    op,         \* per thread, the operation that is running, or NONE
    seen,       \* per thread, was its key present?  all answers since the call
    answer      \* per thread, what its operation is going to return, or NONE

vars == <<set, op, seen, answer>>

Operation == [kind : {"contains", "insert", "erase"}, key : Key]

Init ==
    /\ set = {}
    /\ op = [t \in Thread |-> NONE]
    /\ seen = [t \in Thread |-> {}]
    /\ answer = [t \in Thread |-> NONE]

Call(t, o) ==
    /\ op[t] = NONE
    /\ op' = [op EXCEPT ![t] = o]
    /\ seen' = [seen EXCEPT ![t] = {(o.key \in set)}]
    /\ UNCHANGED <<set, answer>>

running(t, kind) == op[t] # NONE /\ op[t].kind = kind /\ answer[t] = NONE

(* After key k came or went, the operations on k may say so. *)
notice(k, present) ==
    seen' = [t \in Thread |->
                IF op[t] # NONE /\ op[t].key = k THEN seen[t] \union {present} ELSE seen[t]]

Add(t) ==
    /\ running(t, "insert")
    /\ op[t].key \notin set
    /\ set' = set \union {op[t].key}
    /\ notice(op[t].key, TRUE)
    /\ answer' = [answer EXCEPT ![t] = TRUE]
    /\ UNCHANGED op

Remove(t) ==
    /\ running(t, "erase")
    /\ op[t].key \in set
    /\ set' = set \ {op[t].key}
    /\ notice(op[t].key, FALSE)
    /\ answer' = [answer EXCEPT ![t] = TRUE]
    /\ UNCHANGED op

(* contains; an insert that found the key; an erase that did not. *)
Answer(t) ==
    /\ \/ running(t, "contains") /\ answer' \in {[answer EXCEPT ![t] = b] : b \in seen[t]}
       \/ running(t, "insert") /\ TRUE \in seen[t] /\ answer' = [answer EXCEPT ![t] = FALSE]
       \/ running(t, "erase") /\ FALSE \in seen[t] /\ answer' = [answer EXCEPT ![t] = FALSE]
    /\ UNCHANGED <<set, op, seen>>

Return(t) ==
    /\ answer[t] # NONE
    /\ op' = [op EXCEPT ![t] = NONE]
    /\ seen' = [seen EXCEPT ![t] = {}]
    /\ answer' = [answer EXCEPT ![t] = NONE]
    /\ UNCHANGED set

Next ==
    \E t \in Thread :
        \/ \E o \in Operation : Call(t, o)
        \/ Add(t) \/ Remove(t) \/ Answer(t) \/ Return(t)

Spec == Init /\ [][Next]_vars
=============================================================================
