------------------------------- MODULE LazyList -------------------------------
(***************************************************************************)
(* The lazy list, lazylist_ooi_impl.h: searches take no lock; an update    *)
(* locks the node it is going to change and, to erase, its successor, and  *)
(* then makes sure that neither has been erased and that they still follow *)
(* each other.                                                             *)
(***************************************************************************)
EXTENDS ListClient

VARIABLES next, marked, lock    \* fields of the nodes

list == <<next, marked, lock>>
vars == <<clientVars, next, marked, lock>>

Init ==
    /\ ClientInit
    /\ next = [n \in Node \union {Head} |-> IF n = Head THEN Tail ELSE NULL]
    /\ marked = [n \in Node \union {Head, Tail} |-> FALSE]
    /\ lock = [n \in Node \union {Head, Tail} |-> FALSE]

(* The keys in the set are those of the linked nodes without a mark. *)
set == {key[n] : n \in {m \in LinkedNodes : ~marked[m]}}

setPosition(t, p, c) ==
    /\ pred' = [pred EXCEPT ![t] = p]
    /\ curr' = [curr EXCEPT ![t] = c]

acquireLock(n) == ~lock[n] /\ lock' = [lock EXCEPT ![n] = TRUE]
releaseLock(n) == lock' = [lock EXCEPT ![n] = FALSE]

-------------------------------------------------------------------------------
(* Wrong versions of steps below, which the properties must tell from the  *)
(* right ones.                                                             *)

(* retires the node before it is unlinked *)
erase_markAndRetire(t) ==
    /\ goto(t, "mark", "unlink")
    /\ marked' = [marked EXCEPT ![curr[t]] = TRUE]
    /\ takeEffect(t, FALSE)
    /\ retireNode(curr[t])
    /\ UNCHANGED <<active, op, position, next, lock>>

-------------------------------------------------------------------------------
validateLinks(t) == ~marked[pred[t]] /\ ~marked[curr[t]] /\ next[pred[t]] = curr[t]

search_start(t) ==
    /\ goto(t, "search", "walk")
    /\ setPosition(t, Head, next[Head])
    /\ UNCHANGED <<nodes, call, list>>

search_walk(t) ==
    /\ goto(t, "walk", "walk")
    /\ keyOf(curr[t]) < op[t].key
    /\ setPosition(t, curr[t], next[curr[t]])
    /\ UNCHANGED <<nodes, call, list>>

(* The search is over.  contains looks at the mark, an erase whose key is  *)
(* not there returns, the others lock pred.                                *)
search_return(t) ==
    /\ pc[t] = "walk"
    /\ keyOf(curr[t]) >= op[t].key
    /\ LET found == keyOf(curr[t]) = op[t].key IN
          \/ /\ is(t, "contains")
             /\ goto(t, "walk", "end")
             /\ decide(t, found /\ ~marked[curr[t]])
          \/ /\ is(t, "erase") /\ ~found
             /\ goto(t, "walk", "end")
             /\ decide(t, FALSE)
          \/ /\ is(t, "insert") \/ (is(t, "erase") /\ found)
             /\ goto(t, "walk", "lockPred")
             /\ UNCHANGED answer
    /\ UNCHANGED <<nodes, active, op, seen, position, list>>

lockPred(t) ==
    /\ goto(t, "lockPred", IF is(t, "insert") THEN "validate" ELSE "lockCurr")
    /\ acquireLock(pred[t])
    /\ UNCHANGED <<nodes, call, position, next, marked>>

erase_lockCurr(t) ==
    /\ goto(t, "lockCurr", "validate")
    /\ acquireLock(curr[t])
    /\ UNCHANGED <<nodes, call, position, next, marked>>

(* Under the lock of pred, none of this changes once it holds. *)
validate(t) ==
    /\ pc[t] = "validate"
    /\ \/ /\ ~validateLinks(t)
          /\ goto(t, "validate", IF is(t, "insert") THEN "unlockPred" ELSE "unlockCurr")
          /\ UNCHANGED answer
       \/ /\ validateLinks(t) /\ is(t, "insert") /\ keyOf(curr[t]) = op[t].key
          /\ goto(t, "validate", "unlockPred")
          /\ decide(t, FALSE)
       \/ /\ validateLinks(t) /\ is(t, "insert") /\ keyOf(curr[t]) # op[t].key
          /\ goto(t, "validate", "link")
          /\ UNCHANGED answer
       \/ /\ validateLinks(t) /\ is(t, "erase")
          /\ goto(t, "validate", "mark")
          /\ UNCHANGED answer
    /\ UNCHANGED <<nodes, active, op, seen, position, list>>

insert_link(t) ==
    /\ goto(t, "link", "unlockPred")
    /\ \E n \in Node :
          /\ link([m \in {n} |-> op[t].key])
          /\ next' = [next EXCEPT ![n] = curr[t], ![pred[t]] = n]
    /\ takeEffect(t, TRUE)
    /\ UNCHANGED <<active, op, position, marked, lock>>

(* "LINEARIZATION POINT" *)
erase_mark(t) ==
    /\ goto(t, "mark", "unlink")
    /\ marked' = [marked EXCEPT ![curr[t]] = TRUE]
    /\ takeEffect(t, FALSE)
    /\ UNCHANGED <<nodes, active, op, position, next, lock>>

erase_unlink(t) ==
    /\ goto(t, "unlink", "retire")
    /\ next' = [next EXCEPT ![pred[t]] = next[curr[t]]]
    /\ unlink({curr[t]})
    /\ UNCHANGED <<call, position, marked, lock>>

erase_retire(t) ==
    /\ goto(t, "retire", "unlockCurr")
    /\ retireNode(curr[t])
    /\ UNCHANGED <<call, position, list>>

erase_unlockCurr(t) ==
    /\ goto(t, "unlockCurr", "unlockPred")
    /\ releaseLock(curr[t])
    /\ UNCHANGED <<nodes, call, position, next, marked>>

(* The call returns or starts over. *)
unlockPred(t) ==
    /\ goto(t, "unlockPred", IF answer[t] = NONE THEN "search" ELSE "end")
    /\ releaseLock(pred[t])
    /\ UNCHANGED <<nodes, call, position, next, marked>>

(* A freed node is as new: new_node clears lock and mark. *)
freeNode(n) ==
    /\ free(n)
    /\ next' = [next EXCEPT ![n] = NULL]
    /\ marked' = [marked EXCEPT ![n] = FALSE]
    /\ UNCHANGED lock

-------------------------------------------------------------------------------
step(t) ==
    \/ search_start(t) \/ search_walk(t) \/ search_return(t)
    \/ lockPred(t) \/ erase_lockCurr(t) \/ validate(t)
    \/ insert_link(t)
    \/ erase_mark(t) \/ erase_unlink(t) \/ erase_retire(t)
    \/ erase_unlockCurr(t) \/ unlockPred(t)

Next ==
    \/ \E t \in Tid :
          \/ step(t)
          \/ (startOp(t, "search", set, 1) \/ endOp(t)) /\ UNCHANGED list
    \/ \E n \in Node : freeNode(n)

Spec == Init /\ [][Next]_vars

-------------------------------------------------------------------------------
(* Every variable holds what the code can store in it. *)
TypeOK ==
    /\ ClientTypeOK
    /\ pred \in [Tid -> Node \union {Head, NULL}]
    /\ curr \in [Tid -> Node \union {Tail, NULL}]
    /\ next \in [Node \union {Head} -> Node \union {Tail, NULL}]
    /\ {marked, lock} \subseteq [Node \union {Head, Tail} -> BOOLEAN]

(* The pointers a thread works with. *)
pointers(t) == {pred[t], curr[t]}

(* The linked nodes are one list from Head to Tail, sorted. *)
Ordered ==
    /\ \A n \in LinkedNodes \union {Head} :
          next[n] \in LinkedNodes \union {Tail} /\ keyOf(n) < keyOf(next[n])
    /\ \A n \in LinkedNodes \union {Tail} :
          Cardinality({m \in LinkedNodes \union {Head} : next[m] = n}) = 1

(* When no call is running, nothing is locked and nothing marked is left. *)
Tidy ==
    (\A t \in Tid : pc[t] = "idle") =>
        /\ \A n \in Node \union {Head, Tail} : ~lock[n]
        /\ \A n \in LinkedNodes : ~marked[n]

(* Whose lock it is: from lockPred to unlockPred a call holds the lock of  *)
(* pred, and an erase from lockCurr to unlockCurr that of curr.            *)
UnderPred == {"lockCurr", "validate", "link", "mark", "unlink", "retire", "unlockCurr",
              "unlockPred"}
UnderCurr == {"mark", "unlink", "retire", "unlockCurr"}

owns(t, n) ==
    \/ pc[t] \in UnderPred /\ n = pred[t]
    \/ n = curr[t] /\ (pc[t] \in UnderCurr \/ (pc[t] = "validate" /\ op[t].kind = "erase"))

awaited(t) == IF pc[t] = "lockPred" THEN pred[t] ELSE curr[t]
waits(t) == pc[t] \in {"lockPred", "lockCurr"} /\ lock[awaited(t)]

(* Calls never wait for each other in a circle: an erase takes the locks   *)
(* of two nodes in the order in which they are linked.                     *)
NoLockCycle ==
    \A S \in SUBSET active : S # {} =>
        \E t \in S : ~waits(t) \/ \A u \in S : ~owns(u, awaited(t))

(* While calls are running, one of them does not wait for a lock.          *)
OneProceeds == active # {} => \E t \in active : ~waits(t)

(* No pointer of a running call leads to memory that was freed; searches   *)
(* walk through nodes that others have taken out and retired.              *)
NoUseAfterFree ==
    \A t \in active, n \in Node : n \in pointers(t) => status[n] # "free"

(* The list is a linearizable set, *)
AbstractSet == INSTANCE ConcurrentSet WITH Thread <- Tid
Linearizable == AbstractSet!Spec

(* and a client the reclaimer may trust: a node is retired once, by one    *)
(* thread, and after it was unlinked.                                      *)
Contract == INSTANCE GracePeriod WITH Thread <- Tid
Reclamation == Contract!Spec
=============================================================================
