------------------------------- MODULE HMList -------------------------------
(***************************************************************************)
(* Michael's list, hmlist_ooi_impl.h: a sorted list of nodes whose next    *)
(* field holds a pointer and a mark.  erase marks a node, which takes its  *)
(* key out of the set, and then unlinks it; a search unlinks the marked    *)
(* nodes it meets.  Whoever unlinks a node retires it.                     *)
(*                                                                         *)
(* Every load and CAS of a next field is a step of its own.  The reclaimer *)
(* is the one GracePeriod describes: free(n) may happen as soon as no      *)
(* operation is left that was running when n was unlinked.                 *)
(***************************************************************************)
EXTENDS Naturals, FiniteSets

CONSTANTS
    Tid,            \* the threads
    Node,           \* the nodes the allocator has
    MaxKey,         \* BOUND: keys are 1 .. MaxKey
    Root,           \* the list's member head, as the field prev points to first
    Head, Tail,     \* the sentinels
    NULL,
    NONE

Key == 1 .. MaxKey
Operation == [kind : {"contains", "insert", "erase"}, key : Key]

ASSUME HMListAssumption ==
    /\ MaxKey \in Nat
    /\ {Root, Head, Tail, NULL} \cap Node = {}
    /\ Root \notin {Head, Tail, NULL} /\ Head \notin {Tail, NULL} /\ Tail # NULL
    /\ NONE \notin BOOLEAN \union Operation

VARIABLES
    next,           \* the next fields: pointer and mark
    key,            \* the key fields
    status,         \* of each node: free, linked, unlinked or retired
    active,         \* the threads between startOp and endOp
    waiting,        \* per node, the operations running when it was unlinked
    pc,             \* per thread, the step it takes next
    op,             \* per thread, the call that is running, or NONE
    newNode,        \* local of doInsert
    prev, curr, nxt, cmark,     \* locals of list_search and its callers
    answer,         \* per thread, the result once it is decided
    seen            \* per thread, whether its key was present, since the call

list == <<next, key, status>>
reclaimer == <<active, waiting>>
search == <<prev, curr, nxt, cmark>>
call == <<op, newNode, answer>>
vars == <<next, key, status, active, waiting, pc, op, newNode, prev, curr, nxt,
          cmark, answer, seen>>

Field == [ptr : Node \union {Head, Tail, NULL}, mark : BOOLEAN]
pointTo(n) == [ptr |-> n, mark |-> FALSE]
marked(n) == [ptr |-> n, mark |-> TRUE]

KEY_MIN == 0
KEY_MAX == MaxKey + 1
keyOf(n) == CASE n = Head -> KEY_MIN [] n = Tail -> KEY_MAX [] OTHER -> key[n]

Init ==
    /\ next = [n \in Node \union {Root, Head, Tail} |->
                  pointTo(CASE n = Root -> Head [] n = Head -> Tail [] OTHER -> NULL)]
    /\ key = [n \in Node |-> KEY_MIN]
    /\ status = [n \in Node |-> "free"]
    /\ active = {}
    /\ waiting = [n \in Node |-> {}]
    /\ pc = [t \in Tid |-> "idle"]
    /\ op = [t \in Tid |-> NONE]
    /\ newNode = [t \in Tid |-> NULL]
    /\ prev = [t \in Tid |-> NULL]
    /\ curr = [t \in Tid |-> NULL]
    /\ nxt = [t \in Tid |-> NULL]
    /\ cmark = [t \in Tid |-> FALSE]
    /\ answer = [t \in Tid |-> NONE]
    /\ seen = [t \in Tid |-> {}]

goto(t, from, to) == pc[t] = from /\ pc' = [pc EXCEPT ![t] = to]

(* The keys in the set are those of the linked nodes without a mark. *)
InList(n) == status[n] = "linked" /\ ~next[n].mark
set == {key[n] : n \in {m \in Node : InList(m)}}

(* For seen: the operations on k that run now see k come or go. *)
notice(k, present) ==
    seen' = [t \in Tid |->
                IF op[t] # NONE /\ op[t].key = k THEN seen[t] \union {present} ELSE seen[t]]

(* compare_exchange_strong on n's next field. *)
holds(n, old) == next[n] = old
store(n, new) == next' = [next EXCEPT ![n] = new]

(* A node is taken out, and must outlive the operations running now. *)
unlink(n) ==
    /\ status' = [status EXCEPT ![n] = "unlinked"]
    /\ waiting' = [waiting EXCEPT ![n] = active]

-------------------------------------------------------------------------------
(* Wrong versions of steps below, which the properties must tell from the  *)
(* right ones.                                                             *)

(* compares the pointer only, not the mark: insert behind an erased node, *)
insert_linkIgnoringMark(t) ==
    /\ pc[t] = "link"
    /\ IF next[prev[t]].ptr = curr[t]
       THEN /\ goto(t, "link", "end")
            /\ next' = [next EXCEPT ![newNode[t]] = pointTo(curr[t]),
                                    ![prev[t]] = pointTo(newNode[t])]
            /\ status' = [status EXCEPT ![newNode[t]] = "linked"]
            /\ newNode' = [newNode EXCEPT ![t] = NULL]
            /\ answer' = [answer EXCEPT ![t] = TRUE]
            /\ notice(op[t].key, TRUE)
       ELSE goto(t, "link", "search") /\ UNCHANGED <<next, status, newNode, answer, seen>>
    /\ UNCHANGED <<key, reclaimer, op, search>>

(* and erase a node twice *)
erase_markIgnoringMark(t) ==
    /\ pc[t] = "mark"
    /\ IF next[curr[t]].ptr = nxt[t]
       THEN /\ goto(t, "mark", "eraseUnlink")
            /\ store(curr[t], marked(nxt[t]))
            /\ answer' = [answer EXCEPT ![t] = TRUE]
            /\ notice(op[t].key, FALSE)
       ELSE goto(t, "mark", "search") /\ UNCHANGED <<next, answer, seen>>
    /\ UNCHANGED <<key, status, reclaimer, op, newNode, search>>

(* gives its node back before it tries again *)
insert_linkDeallocating(t) ==
    /\ pc[t] = "link"
    /\ newNode' = [newNode EXCEPT ![t] = NULL]
    /\ IF holds(prev[t], pointTo(curr[t]))
       THEN /\ goto(t, "link", "end")
            /\ next' = [next EXCEPT ![newNode[t]] = pointTo(curr[t]),
                                    ![prev[t]] = pointTo(newNode[t])]
            /\ status' = [status EXCEPT ![newNode[t]] = "linked"]
            /\ answer' = [answer EXCEPT ![t] = TRUE]
            /\ notice(op[t].key, TRUE)
       ELSE goto(t, "link", "search") /\ UNCHANGED <<next, status, answer, seen>>
    /\ UNCHANGED <<key, reclaimer, op, search>>

(* retires the node although another thread has changed prev *)
search_unlinkAndRetire(t) ==
    /\ goto(t, "unlink", "retire")
    /\ IF holds(prev[t], pointTo(curr[t]))
       THEN store(prev[t], pointTo(nxt[t])) /\ unlink(curr[t])
       ELSE UNCHANGED <<next, status, waiting>>
    /\ UNCHANGED <<key, active, search, call, seen>>

erase_unlinkAndRetire(t) ==
    /\ goto(t, "eraseUnlink", "eraseRetire")
    /\ IF holds(prev[t], pointTo(curr[t]))
       THEN store(prev[t], pointTo(nxt[t])) /\ unlink(curr[t])
       ELSE UNCHANGED <<next, status, waiting>>
    /\ UNCHANGED <<key, active, search, call, seen>>

(* does not search again for the node it could not unlink *)
erase_unlinkOnce(t) ==
    /\ pc[t] = "eraseUnlink"
    /\ IF holds(prev[t], pointTo(curr[t]))
       THEN /\ goto(t, "eraseUnlink", "eraseRetire")
            /\ store(prev[t], pointTo(nxt[t]))
            /\ unlink(curr[t])
       ELSE goto(t, "eraseUnlink", "end") /\ UNCHANGED <<next, status, waiting>>
    /\ UNCHANGED <<key, active, search, call, seen>>

(* waits for the eraser to unlink its node *)
search_unlinkNever(t) ==
    /\ goto(t, "unlink", "search")
    /\ UNCHANGED <<list, reclaimer, search, call, seen>>

-------------------------------------------------------------------------------
(* contains, doInsert, erase: startOp; doInsert allocates its node, too.   *)
startOp(t) ==
    /\ goto(t, "idle", "search")
    /\ \E k \in Key :
          /\ \/ /\ op' \in {[op EXCEPT ![t] = [kind |-> kind, key |-> k]] :
                               kind \in {"contains", "erase"}}
                /\ UNCHANGED <<newNode, key>>
             \/ \E n \in Node :
                  /\ status[n] = "free" /\ \A u \in Tid : newNode[u] # n
                  /\ op' = [op EXCEPT ![t] = [kind |-> "insert", key |-> k]]
                  /\ newNode' = [newNode EXCEPT ![t] = n]
                  /\ key' = [key EXCEPT ![n] = k]
          /\ seen' = [seen EXCEPT ![t] = {(k \in set)}]
    /\ active' = active \union {t}
    /\ UNCHANGED <<next, status, waiting, search, answer>>

(* list_search (re)starts: prev = &head; curr = prev->load(). *)
search_start(t) ==
    /\ goto(t, "search", "load")
    /\ prev' = [prev EXCEPT ![t] = Root]
    /\ curr' = [curr EXCEPT ![t] = next[Root].ptr]
    /\ nxt' = [nxt EXCEPT ![t] = NULL]
    /\ cmark' = [cmark EXCEPT ![t] = FALSE]
    /\ UNCHANGED <<list, reclaimer, call, seen>>

search_load(t) ==
    /\ goto(t, "load", "reload")
    /\ nxt' = [nxt EXCEPT ![t] = next[curr[t]].ptr]
    /\ cmark' = [cmark EXCEPT ![t] = next[curr[t]].mark]
    /\ UNCHANGED <<list, reclaimer, call, seen, prev, curr>>

(* The next field is loaded again, and the key. *)
search_reload(t) ==
    /\ pc[t] = "reload"
    /\ IF holds(curr[t], [ptr |-> nxt[t], mark |-> cmark[t]])
       THEN goto(t, "reload", "check")
       ELSE goto(t, "reload", "search")
    /\ UNCHANGED <<list, reclaimer, call, seen, search>>

(* What the callers do with the result of list_search.  An erase that has  *)
(* marked its node and could not unlink it ignores it.                     *)
search_return(t, found) ==
    \/ /\ answer[t] # NONE
       /\ goto(t, "check", "end")
       /\ UNCHANGED <<answer, newNode>>
    \/ /\ answer[t] = NONE /\ op[t].kind = "contains"
       /\ goto(t, "check", "end")
       /\ answer' = [answer EXCEPT ![t] = found]
       /\ UNCHANGED newNode
    \/ /\ answer[t] = NONE /\ op[t].kind = "insert" /\ found
       /\ goto(t, "check", "end")
       /\ answer' = [answer EXCEPT ![t] = FALSE]
       /\ newNode' = [newNode EXCEPT ![t] = NULL]       \* deallocate
    \/ /\ answer[t] = NONE /\ op[t].kind = "insert" /\ ~found
       /\ goto(t, "check", "link")
       /\ UNCHANGED <<answer, newNode>>
    \/ /\ answer[t] = NONE /\ op[t].kind = "erase" /\ ~found
       /\ goto(t, "check", "end")
       /\ answer' = [answer EXCEPT ![t] = FALSE]
       /\ UNCHANGED newNode
    \/ /\ answer[t] = NONE /\ op[t].kind = "erase" /\ found
       /\ goto(t, "check", "mark")
       /\ UNCHANGED <<answer, newNode>>

(* prev is loaded again: curr must still follow it.  Then the search ends, *)
(* or goes on, or has a marked node to unlink.                             *)
search_check(t) ==
    /\ pc[t] = "check"
    /\ IF ~holds(prev[t], pointTo(curr[t]))
       THEN goto(t, "check", "search") /\ UNCHANGED <<search, answer, newNode>>
       ELSE \/ /\ ~cmark[t] /\ keyOf(curr[t]) >= op[t].key
               /\ search_return(t, keyOf(curr[t]) = op[t].key)
               /\ UNCHANGED search
            \/ /\ ~cmark[t] /\ keyOf(curr[t]) < op[t].key
               /\ goto(t, "check", "load")
               /\ prev' = [prev EXCEPT ![t] = curr[t]]
               /\ curr' = [curr EXCEPT ![t] = nxt[t]]
               /\ UNCHANGED <<nxt, cmark, answer, newNode>>
            \/ /\ cmark[t]
               /\ goto(t, "check", "unlink")
               /\ UNCHANGED <<search, answer, newNode>>
    /\ UNCHANGED <<list, reclaimer, op, seen>>

(* curr is marked: unlink it, *)
search_unlink(t) ==
    /\ pc[t] = "unlink"
    /\ IF holds(prev[t], pointTo(curr[t]))
       THEN /\ goto(t, "unlink", "retire")
            /\ store(prev[t], pointTo(nxt[t]))
            /\ unlink(curr[t])
       ELSE goto(t, "unlink", "search") /\ UNCHANGED <<next, status, waiting>>
    /\ UNCHANGED <<key, active, search, call, seen>>

(* retire it and go on behind it. *)
search_retire(t) ==
    /\ goto(t, "retire", "load")
    /\ status' = [status EXCEPT ![curr[t]] = "retired"]
    /\ curr' = [curr EXCEPT ![t] = nxt[t]]
    /\ UNCHANGED <<next, key, reclaimer, call, seen, prev, nxt, cmark>>

(* doInsert: link the new node between prev and curr, or search again. *)
insert_link(t) ==
    /\ pc[t] = "link"
    /\ IF holds(prev[t], pointTo(curr[t]))
       THEN /\ goto(t, "link", "end")
            /\ next' = [next EXCEPT ![newNode[t]] = pointTo(curr[t]),
                                    ![prev[t]] = pointTo(newNode[t])]
            /\ status' = [status EXCEPT ![newNode[t]] = "linked"]
            /\ newNode' = [newNode EXCEPT ![t] = NULL]
            /\ answer' = [answer EXCEPT ![t] = TRUE]
            /\ notice(op[t].key, TRUE)
       ELSE goto(t, "link", "search") /\ UNCHANGED <<next, status, newNode, answer, seen>>
    /\ UNCHANGED <<key, reclaimer, op, search>>

(* erase: mark curr, or search again; *)
erase_mark(t) ==
    /\ pc[t] = "mark"
    /\ IF holds(curr[t], pointTo(nxt[t]))
       THEN /\ goto(t, "mark", "eraseUnlink")
            /\ store(curr[t], marked(nxt[t]))
            /\ answer' = [answer EXCEPT ![t] = TRUE]
            /\ notice(op[t].key, FALSE)
       ELSE goto(t, "mark", "search") /\ UNCHANGED <<next, answer, seen>>
    /\ UNCHANGED <<key, status, reclaimer, op, newNode, search>>

(* unlink curr, or leave that to another search, *)
erase_unlink(t) ==
    /\ pc[t] = "eraseUnlink"
    /\ IF holds(prev[t], pointTo(curr[t]))
       THEN /\ goto(t, "eraseUnlink", "eraseRetire")
            /\ store(prev[t], pointTo(nxt[t]))
            /\ unlink(curr[t])
       ELSE goto(t, "eraseUnlink", "search") /\ UNCHANGED <<next, status, waiting>>
    /\ UNCHANGED <<key, active, search, call, seen>>

(* and retire it. *)
erase_retire(t) ==
    /\ goto(t, "eraseRetire", "end")
    /\ status' = [status EXCEPT ![curr[t]] = "retired"]
    /\ UNCHANGED <<next, key, reclaimer, call, seen, search>>

(* endOp and return; an insert that found its key reads curr->val between  *)
(* the two.                                                                *)
endOp(t) ==
    /\ goto(t, "end", IF op[t].kind = "insert" /\ ~answer[t] THEN "readVal" ELSE "idle")
    /\ active' = active \ {t}
    /\ waiting' = [n \in Node |-> waiting[n] \ {t}]
    /\ op' = [op EXCEPT ![t] = NONE]
    /\ answer' = [answer EXCEPT ![t] = NONE]
    /\ seen' = [seen EXCEPT ![t] = {}]
    /\ prev' = [prev EXCEPT ![t] = NULL]
    /\ curr' = [curr EXCEPT ![t] = IF op[t].kind = "insert" /\ ~answer[t] THEN @ ELSE NULL]
    /\ nxt' = [nxt EXCEPT ![t] = NULL]
    /\ cmark' = [cmark EXCEPT ![t] = FALSE]
    /\ UNCHANGED <<list, newNode>>

insert_readVal(t) ==
    /\ goto(t, "readVal", "idle")
    /\ curr' = [curr EXCEPT ![t] = NULL]
    /\ UNCHANGED <<list, reclaimer, call, seen, prev, nxt, cmark>>

(* The reclaimer; the contents of a freed node mean nothing any more. *)
free(n) ==
    /\ status[n] = "retired" /\ waiting[n] = {}
    /\ status' = [status EXCEPT ![n] = "free"]
    /\ next' = [next EXCEPT ![n] = pointTo(NULL)]
    /\ key' = [key EXCEPT ![n] = KEY_MIN]
    /\ UNCHANGED <<reclaimer, pc, call, seen, search>>

-------------------------------------------------------------------------------
(* The steps inside an operation. *)
step(t) ==
    \/ search_start(t) \/ search_load(t) \/ search_reload(t) \/ search_check(t)
    \/ search_unlink(t) \/ search_retire(t)
    \/ insert_link(t) \/ erase_mark(t) \/ erase_unlink(t) \/ erase_retire(t)
    \/ endOp(t) \/ insert_readVal(t)

Next == (\E t \in Tid : startOp(t) \/ step(t)) \/ (\E n \in Node : free(n))

Spec == Init /\ [][Next]_vars

(* A thread inside an operation is scheduled. *)
FairSpec == Spec /\ \A t \in Tid : WF_vars(step(t))

-------------------------------------------------------------------------------
(* Every variable holds what the code can store in it; in particular curr  *)
(* "can never be null" in a search, and doInsert has a node to link.       *)
TypeOK ==
    /\ next \in [Node \union {Root, Head, Tail} -> Field]
    /\ key \in [Node -> Key \union {KEY_MIN}]
    /\ status \in [Node -> {"free", "linked", "unlinked", "retired"}]
    /\ active \subseteq Tid
    /\ waiting \in [Node -> SUBSET Tid]
    /\ pc \in [Tid -> {"idle", "search", "load", "reload", "check", "unlink", "retire",
                       "link", "mark", "eraseUnlink", "eraseRetire", "end", "readVal"}]
    /\ op \in [Tid -> Operation \union {NONE}]
    /\ newNode \in [Tid -> Node \union {NULL}]
    /\ prev \in [Tid -> Node \union {Root, Head, NULL}]
    /\ curr \in [Tid -> Node \union {Head, Tail, NULL}]
    /\ nxt \in [Tid -> Node \union {Head, Tail, NULL}]
    /\ cmark \in [Tid -> BOOLEAN]
    /\ answer \in [Tid -> BOOLEAN \union {NONE}]
    /\ seen \in [Tid -> SUBSET BOOLEAN]
    /\ \A t \in Tid :
          /\ pc[t] \notin {"idle", "search", "end"} => curr[t] # NULL
          /\ pc[t] = "link" => newNode[t] # NULL

(* No pointer a search works with leads to a freed node, through marked    *)
(* and unlinked nodes though it may have come.                             *)
NoUseAfterFree ==
    \A t \in active : \A n \in {prev[t], curr[t], nxt[t]} \cap Node : status[n] # "free"

(* The linked nodes are one list from Head to Tail, sorted, each node the  *)
(* successor of one other.                                                 *)
LinkedNodes == {n \in Node : status[n] = "linked"}

Sorted ==
    /\ \A n \in LinkedNodes \union {Head} :
          LET m == next[n].ptr IN
          /\ m \in LinkedNodes \union {Tail}
          /\ keyOf(n) < keyOf(m)
    /\ \A n \in LinkedNodes \union {Tail} :
          Cardinality({m \in LinkedNodes \union {Head} : next[m].ptr = n}) = 1

(* debugKeySum asserts that it meets no marked node once the threads have  *)
(* stopped: no erase returns before its node is unlinked.                  *)
NoMarkedWhenIdle ==
    (\A t \in Tid : pc[t] = "idle") => \A n \in LinkedNodes : ~next[n].mark

(* Lock freedom: while an operation runs, some operation will complete,    *)
(* its own or one that got in its way.                                     *)
LockFree == (\E t \in Tid : pc[t] = "search") ~> (\E t \in Tid : pc[t] = "end")

(* The list implements a linearizable set, *)
AbstractSet == INSTANCE ConcurrentSet WITH Thread <- Tid
Linearizable == AbstractSet!Spec

(* and is a client the reclaimer may trust: it unlinks each node once,     *)
(* retires it once, after that, and never uses one it has let go of.       *)
Contract == INSTANCE GracePeriod WITH Thread <- Tid
Reclamation == Contract!Spec
=============================================================================
