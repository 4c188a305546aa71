------------------------------ MODULE HarrisList ------------------------------
(***************************************************************************)
(* Harris's list, harrislist_ooi_impl.h.  A search passes marked nodes     *)
(* without unlinking them one by one: it remembers the last node without a *)
(* mark, pred (left_node in the code), and what followed it, and then      *)
(* unlinks all nodes from there to curr (t, then right_node) by one CAS.   *)
(***************************************************************************)
EXTENDS ListClient

VARIABLES
    next,           \* the next fields: pointer and mark
    predNext,       \* local of list_search: left_node_next
    nxt,            \* t_next; right_succ in erase
    cur             \* the node that is retired next

search == <<predNext, nxt, cur>>
vars == <<clientVars, next, predNext, nxt, cur>>

Field == [ptr : Node \union {Tail, NULL}, mark : BOOLEAN]
pointTo(n) == [ptr |-> n, mark |-> FALSE]
get_marked_ref(f) == [f EXCEPT !.mark = TRUE]

Init ==
    /\ ClientInit
    /\ next = [n \in Node \union {Head} |-> pointTo(IF n = Head THEN Tail ELSE NULL)]
    /\ predNext = [t \in Tid |-> NULL]
    /\ nxt = [t \in Tid |-> pointTo(NULL)]
    /\ cur = [t \in Tid |-> NULL]

(* The keys in the set are those of the linked nodes without a mark. *)
set == {key[n] : n \in {m \in LinkedNodes : ~next[m].mark}}

(* CASB on n's next field. *)
holds(n, old) == next[n] = old
store(n, new) == next' = [next EXCEPT ![n] = new]

isMarked(n) == n # Tail /\ next[n].mark

-------------------------------------------------------------------------------
(* Wrong versions of steps below, which the properties must tell from the  *)
(* right ones.                                                             *)

(* retires only the first node of the chain it has unlinked *)
search_retireFirst(t) ==
    /\ goto(t, "retire", "recheck")
    /\ retireNode(cur[t])
    /\ cur' = [cur EXCEPT ![t] = NULL]
    /\ UNCHANGED <<call, position, next, predNext, nxt>>

(* retires a node that it has marked even when it could not unlink it *)
erase_unlinkAndRetire(t) ==
    /\ goto(t, "unlink", "eraseRetire")
    /\ IF holds(pred[t], pointTo(curr[t]))
       THEN store(pred[t], nxt[t]) /\ unlink({curr[t]})
       ELSE UNCHANGED <<next, nodes>>
    /\ UNCHANGED <<call, position, search>>

(* goes by the pointer and overwrites a mark that was set since *)
insert_linkIgnoringMark(t) ==
    /\ pc[t] = "link"
    /\ IF next[pred[t]].ptr = curr[t]
       THEN /\ goto(t, "link", "end")
            /\ \E n \in Node :
                  /\ link([m \in {n} |-> op[t].key])
                  /\ next' = [next EXCEPT ![n] = pointTo(curr[t]), ![pred[t]] = pointTo(n)]
            /\ takeEffect(t, TRUE)
       ELSE goto(t, "link", "search") /\ UNCHANGED <<next, nodes, answer, seen>>
    /\ UNCHANGED <<active, op, position, search>>

-------------------------------------------------------------------------------
(* list_search: t = head; t_next = head->next. *)
search_start(t) ==
    /\ goto(t, "search", "walk")
    /\ pred' = [pred EXCEPT ![t] = Head]
    /\ curr' = [curr EXCEPT ![t] = Head]
    /\ nxt' = [nxt EXCEPT ![t] = next[Head]]
    /\ predNext' = [predNext EXCEPT ![t] = NULL]
    /\ UNCHANGED <<nodes, call, next, cur>>

(* The loop goes on past marked nodes and past smaller keys, up to Tail. *)
goesOn(t) == curr[t] # Tail /\ (nxt[t].mark \/ keyOf(curr[t]) < op[t].key)

search_walk(t) ==
    /\ goto(t, "walk", "walk")
    /\ goesOn(t)
    /\ IF nxt[t].mark
       THEN UNCHANGED <<pred, predNext>>
       ELSE /\ pred' = [pred EXCEPT ![t] = curr[t]]
            /\ predNext' = [predNext EXCEPT ![t] = nxt[t].ptr]
    /\ curr' = [curr EXCEPT ![t] = nxt[t].ptr]
    /\ nxt' = [nxt EXCEPT ![t] = IF nxt[t].ptr = Tail THEN pointTo(NULL)
                                 ELSE next[nxt[t].ptr]]
    /\ UNCHANGED <<nodes, call, next, cur>>

(* What the callers do with the result of list_search.  An erase that has  *)
(* marked its node and could not unlink it ignores it.                     *)
search_return(t, from) ==
    LET found == keyOf(curr[t]) = op[t].key IN
    /\ pc[t] = from
    /\ ~isMarked(curr[t])
    /\ \/ /\ answer[t] # NONE
          /\ goto(t, from, "end")
          /\ UNCHANGED answer
       \/ /\ answer[t] = NONE
          /\ is(t, "contains") \/ (is(t, "insert") /\ found) \/ (is(t, "erase") /\ ~found)
          /\ goto(t, from, "end")
          /\ decide(t, is(t, "contains") /\ found)
       \/ /\ answer[t] = NONE
          /\ is(t, "insert") /\ ~found
          /\ goto(t, from, "link")
          /\ UNCHANGED answer
       \/ /\ answer[t] = NONE
          /\ is(t, "erase") /\ found
          /\ goto(t, from, "succ")
          /\ UNCHANGED answer
    /\ UNCHANGED <<nodes, active, op, seen, position, search, next>>

(* The node on the right was marked since it was passed: search again. *)
search_retry(t, from) ==
    /\ goto(t, from, "search")
    /\ isMarked(curr[t])
    /\ UNCHANGED <<nodes, call, position, search, next>>

(* No marked node in between. *)
search_adjacent(t) ==
    /\ pc[t] = "walk" /\ ~goesOn(t) /\ predNext[t] = curr[t]
    /\ search_return(t, "walk") \/ search_retry(t, "walk")

(* The marked nodes between pred and curr. *)
chain(t) == {n \in LinkedNodes : keyOf(pred[t]) < key[n] /\ key[n] < keyOf(curr[t])}

search_unlink(t) ==
    /\ pc[t] = "walk" /\ ~goesOn(t) /\ predNext[t] # curr[t]
    /\ IF holds(pred[t], pointTo(predNext[t]))
       THEN /\ goto(t, "walk", "retire")
            /\ store(pred[t], pointTo(curr[t]))
            /\ unlink(chain(t))
            /\ cur' = [cur EXCEPT ![t] = predNext[t]]
       ELSE goto(t, "walk", "search") /\ UNCHANGED <<next, nodes, cur>>
    /\ UNCHANGED <<call, position, predNext, nxt>>

(* The loop that retires them follows their links, which are for good. *)
search_retire(t) ==
    LET succ == next[cur[t]].ptr IN
    /\ goto(t, "retire", IF succ = curr[t] THEN "recheck" ELSE "retire")
    /\ retireNode(cur[t])
    /\ cur' = [cur EXCEPT ![t] = IF succ = curr[t] THEN NULL ELSE succ]
    /\ UNCHANGED <<call, position, next, predNext, nxt>>

search_recheck(t) == search_return(t, "recheck") \/ search_retry(t, "recheck")

insert_link(t) ==
    /\ pc[t] = "link"
    /\ IF holds(pred[t], pointTo(curr[t]))
       THEN /\ goto(t, "link", "end")
            /\ \E n \in Node :
                  /\ link([m \in {n} |-> op[t].key])
                  /\ next' = [next EXCEPT ![n] = pointTo(curr[t]), ![pred[t]] = pointTo(n)]
            /\ takeEffect(t, TRUE)
       ELSE goto(t, "link", "search") /\ UNCHANGED <<next, nodes, answer, seen>>
    /\ UNCHANGED <<active, op, position, search>>

erase_loadSucc(t) ==
    /\ goto(t, "succ", IF isMarked(curr[t]) THEN "search" ELSE "mark")
    /\ nxt' = [nxt EXCEPT ![t] = next[curr[t]]]
    /\ UNCHANGED <<nodes, call, position, next, predNext, cur>>

erase_mark(t) ==
    /\ pc[t] = "mark"
    /\ IF holds(curr[t], nxt[t])
       THEN /\ goto(t, "mark", "unlink")
            /\ store(curr[t], get_marked_ref(nxt[t]))
            /\ takeEffect(t, FALSE)
       ELSE goto(t, "mark", "search") /\ UNCHANGED <<next, answer, seen>>
    /\ UNCHANGED <<nodes, active, op, position, search>>

(* Unlink the node, or search again: that unlinks it. *)
erase_unlink(t) ==
    /\ pc[t] = "unlink"
    /\ IF holds(pred[t], pointTo(curr[t]))
       THEN /\ goto(t, "unlink", "eraseRetire")
            /\ store(pred[t], nxt[t])
            /\ unlink({curr[t]})
       ELSE goto(t, "unlink", "search") /\ UNCHANGED <<next, nodes>>
    /\ UNCHANGED <<call, position, search>>

erase_retire(t) ==
    /\ goto(t, "eraseRetire", "end")
    /\ retireNode(curr[t])
    /\ UNCHANGED <<call, position, search, next>>

end(t) ==
    /\ endOp(t)
    /\ predNext' = [predNext EXCEPT ![t] = NULL]
    /\ nxt' = [nxt EXCEPT ![t] = pointTo(NULL)]
    /\ UNCHANGED <<next, cur>>

freeNode(n) ==
    /\ free(n)
    /\ next' = [next EXCEPT ![n] = pointTo(NULL)]
    /\ UNCHANGED search

-------------------------------------------------------------------------------
step(t) ==
    \/ search_start(t) \/ search_walk(t) \/ search_adjacent(t)
    \/ search_unlink(t) \/ search_retire(t) \/ search_recheck(t)
    \/ insert_link(t)
    \/ erase_loadSucc(t) \/ erase_mark(t) \/ erase_unlink(t) \/ erase_retire(t)
    \/ end(t)

Next ==
    \/ \E t \in Tid :
          \/ step(t)
          \/ startOp(t, "search", set, 1) /\ UNCHANGED <<search, next>>
    \/ \E n \in Node : freeNode(n)

Spec == Init /\ [][Next]_vars

-------------------------------------------------------------------------------
(* Every variable holds what a pointer, a field or a call can be.          *)
TypeOK ==
    /\ ClientTypeOK
    /\ {pred, curr, predNext, cur} \subseteq [Tid -> Node \union {Head, Tail, NULL}]
    /\ next \in [Node \union {Head} -> Field]
    /\ nxt \in [Tid -> Field]

(* The pointers a thread works with. *)
pointers(t) == {pred[t], curr[t], predNext[t], nxt[t].ptr, cur[t]}

(* The linked nodes are one list from Head to Tail, sorted. *)
Ordered ==
    /\ \A n \in LinkedNodes \union {Head} :
          next[n].ptr \in LinkedNodes \union {Tail} /\ keyOf(n) < keyOf(next[n].ptr)
    /\ \A n \in LinkedNodes \union {Tail} :
          Cardinality({m \in LinkedNodes \union {Head} : next[m].ptr = n}) = 1

(* When no call is running, nothing marked is left, and nothing that was   *)
(* unlinked has been forgotten.                                            *)
Tidy ==
    (\A t \in Tid : pc[t] = "idle") =>
        /\ \A n \in LinkedNodes : ~next[n].mark
        /\ \A n \in Node : status[n] # "unlinked"

(* No pointer of a running call leads to memory that was freed; searches   *)
(* walk along chains that others have taken out and retired.               *)
NoUseAfterFree ==
    \A t \in active, n \in Node : n \in pointers(t) => status[n] # "free"

(* The list is a linearizable set, *)
AbstractSet == INSTANCE ConcurrentSet WITH Thread <- Tid
Linearizable == AbstractSet!Spec

(* and a client the reclaimer may trust: of a chain that is cut out, each  *)
(* node is retired once, by one thread.                                    *)
Contract == INSTANCE GracePeriod WITH Thread <- Tid
Reclamation == Contract!Spec
=============================================================================
