------------------------------ MODULE TicketTree ------------------------------
(***************************************************************************)
(* The external binary search tree with ticket locks, ticket_ooi_impl.h.   *)
(* Keys are in the leaves.  Each side of an inner node has a lock of its   *)
(* own, a version and a ticket that are equal when it is free.  A search   *)
(* reads the lock word of a node before it goes on to a child; an update   *)
(* then gets the lock only if the version is still the one its search saw. *)
(***************************************************************************)
EXTENDS SetClient

CONSTANTS
    Root, MinLeaf, MaxLeaf,     \* the nodes the constructor makes
    MaxVersion                  \* BOUND: no lock is taken more often.  In the code a
                                \* version is 16 bits wide and wraps.

VARIABLES
    child,              \* per node and side, a child; NULL in a leaf
    lock,               \* per node and side, version and ticket
    ppred,              \* local of bst_tk_delete: the parent of pred
    predVer, ppredVer,  \* the lock words the search has read
    right, pright       \* the sides on which it went on

tree == <<child, lock>>
search == <<ppred, predVer, ppredVer, right, pright>>
vars == <<clientVars, child, lock, ppred, predVer, ppredVer, right, pright>>

Side == {"left", "right"}
other(side) == IF side = "left" THEN "right" ELSE "left"

Ticket == 0 .. MaxVersion + 2
Lock == [Side -> [version : Ticket, ticket : Ticket]]
unlocked(version) == [version |-> version, ticket |-> version]
both(l) == [side \in Side |-> l]

(* TLN_REMOVED: no ticket is ever served that is so far ahead. *)
TLN_REMOVED == both([version |-> 0, ticket |-> MaxVersion + 2])

Inner == Node \union {Root}
Leaf == Node \union {MinLeaf, MaxLeaf}

keyOf(n) == CASE n = MinLeaf -> KEY_MIN [] n \in {Root, MaxLeaf} -> KEY_MAX [] OTHER -> key[n]
isLeaf(n) == n \in Inner => child[n]["left"] = NULL
sideOf(n, k) == IF k < keyOf(n) THEN "left" ELSE "right"

Init ==
    /\ ClientInit
    /\ child = [n \in Inner |->
                  IF n = Root
                  THEN [side \in Side |-> IF side = "left" THEN MinLeaf ELSE MaxLeaf]
                  ELSE both(NULL)]
    /\ lock = [n \in Inner |-> both(unlocked(0))]
    /\ ppred = [t \in Tid |-> NULL]
    /\ predVer = [t \in Tid |-> both(unlocked(0))]
    /\ ppredVer = [t \in Tid |-> both(unlocked(0))]
    /\ right = [t \in Tid |-> "left"]
    /\ pright = [t \in Tid |-> "left"]

(* The keys in the set are those of the leaves. *)
set == {key[n] : n \in {m \in LinkedNodes : isLeaf(m)}}

lockSide(n, side) == lock' = [lock EXCEPT ![n][side].ticket = @ + 1]
unlockSide(n, side) == lock' = [lock EXCEPT ![n][side].version = @ + 1]
revertSide(n, side) == lock' = [lock EXCEPT ![n][side].ticket = @ - 1]

-------------------------------------------------------------------------------
(* Wrong versions of steps below, which the properties must tell from the  *)
(* right ones.                                                             *)

(* takes any free lock, whatever the version *)
canLockAny(n, old, side) ==
    LET now == lock[n][side] IN now.version = now.ticket /\ now.version < MaxVersion

(* puts back the ticket of a lock it did not get *)
erase_revertPred(t) ==
    /\ goto(t, "revert", "search")
    /\ revertSide(pred[t], right[t])
    /\ UNCHANGED <<nodes, call, position, search, child>>

-------------------------------------------------------------------------------
(* tl_trylock_version and tl_trylock_version_both: whether the compare and *)
(* swap succeeds, given the word read before.                              *)
isFree(old, side) == old[side].version = old[side].ticket
canLock(n, old, side) ==
    isFree(old, side) /\ lock[n][side] = old[side] /\ old[side].version < MaxVersion
canLockBoth(n, old) == \A side \in Side : canLock(n, old, side)

(* (Re)start at the root.  That pred and right keep their values from the  *)
(* attempt before is of no effect: bst_tk_delete uses ppred only when it   *)
(* has found its key, and that is never in a child of the root.            *)
search_start(t) ==
    /\ goto(t, "search", IF is(t, "contains") THEN "find" ELSE "version")
    /\ curr' = [curr EXCEPT ![t] = Root]
    /\ pred' = [pred EXCEPT ![t] = NULL]
    /\ ppred' = [ppred EXCEPT ![t] = NULL]
    /\ predVer' = [predVer EXCEPT ![t] = both(unlocked(0))]
    /\ ppredVer' = [ppredVer EXCEPT ![t] = both(unlocked(0))]
    /\ right' = [right EXCEPT ![t] = "left"]
    /\ pright' = [pright EXCEPT ![t] = "left"]
    /\ UNCHANGED <<nodes, call, tree>>

(* bst_tk_find: down to a leaf. *)
find(t) ==
    LET next == child[curr[t]][sideOf(curr[t], op[t].key)] IN
    /\ goto(t, "find", IF isLeaf(next) THEN "end" ELSE "find")
    /\ curr' = [curr EXCEPT ![t] = next]
    /\ IF isLeaf(next) THEN decide(t, keyOf(next) = op[t].key) ELSE UNCHANGED answer
    /\ UNCHANGED <<nodes, active, op, seen, pred, search, tree>>

(* The searches of updates: load the lock word, *)
search_version(t) ==
    /\ goto(t, "version", "child")
    /\ IF is(t, "erase")
       THEN /\ ppred' = [ppred EXCEPT ![t] = pred[t]]
            /\ ppredVer' = [ppredVer EXCEPT ![t] = predVer[t]]
            /\ pright' = [pright EXCEPT ![t] = right[t]]
       ELSE UNCHANGED <<ppred, ppredVer, pright>>
    /\ pred' = [pred EXCEPT ![t] = curr[t]]
    /\ predVer' = [predVer EXCEPT ![t] = lock[curr[t]]]
    /\ right' = [right EXCEPT ![t] = sideOf(curr[t], op[t].key)]
    /\ UNCHANGED <<nodes, call, curr, tree>>

(* then the child. *)
search_child(t) ==
    LET next == child[pred[t]][right[t]]
        found == keyOf(next) = op[t].key
    IN  /\ pc[t] = "child"
        /\ curr' = [curr EXCEPT ![t] = next]
        /\ \/ /\ ~isLeaf(next)
              /\ goto(t, "child", "version")
              /\ UNCHANGED answer
           \/ /\ isLeaf(next) /\ found = is(t, "insert")
              /\ goto(t, "child", "end")
              /\ decide(t, FALSE)
           \/ /\ isLeaf(next) /\ found # is(t, "insert")
              /\ goto(t, "child", IF is(t, "insert") THEN "lockPred" ELSE "lockPpred")
              /\ UNCHANGED answer
        /\ UNCHANGED <<nodes, active, op, seen, pred, search, tree>>

insert_lock(t) ==
    /\ pc[t] = "lockPred"
    /\ IF canLock(pred[t], predVer[t], right[t])
       THEN goto(t, "lockPred", "link") /\ lockSide(pred[t], right[t])
       ELSE goto(t, "lockPred", "search") /\ UNCHANGED lock
    /\ UNCHANGED <<nodes, call, position, search, child>>

(* A new leaf nn and a new inner node nr above it and curr. *)
insert_link(t) ==
    LET k == op[t].key
        least == k < keyOf(curr[t])
    IN  /\ goto(t, "link", "unlock")
        /\ \E nn, nr \in Node :
              /\ nn # nr
              /\ link(nn :> k @@ nr :> IF least THEN keyOf(curr[t]) ELSE k)
              /\ child' = [child EXCEPT
                    ![nr] = [side \in Side |->
                                IF (side = "left") = least THEN nn ELSE curr[t]],
                    ![pred[t]][right[t]] = nr]
        /\ takeEffect(t, TRUE)
        /\ UNCHANGED <<active, op, position, search, lock>>

erase_lockPpred(t) ==
    /\ pc[t] = "lockPpred"
    /\ IF canLock(ppred[t], ppredVer[t], pright[t])
       THEN goto(t, "lockPpred", "lockBoth") /\ lockSide(ppred[t], pright[t])
       ELSE goto(t, "lockPpred", "search") /\ UNCHANGED lock
    /\ UNCHANGED <<nodes, call, position, search, child>>

erase_lockBoth(t) ==
    /\ pc[t] = "lockBoth"
    /\ IF canLockBoth(pred[t], predVer[t])
       THEN goto(t, "lockBoth", "splice") /\ lock' = [lock EXCEPT ![pred[t]] = TLN_REMOVED]
       ELSE goto(t, "lockBoth", "revert") /\ UNCHANGED lock
    /\ UNCHANGED <<nodes, call, position, search, child>>

erase_revert(t) ==
    /\ goto(t, "revert", "search")
    /\ revertSide(ppred[t], pright[t])
    /\ UNCHANGED <<nodes, call, position, search, child>>

(* The other child of pred takes the place of pred. *)
erase_splice(t) ==
    /\ goto(t, "splice", "unlock")
    /\ child' = [child EXCEPT ![ppred[t]][pright[t]] = child[pred[t]][other(right[t])]]
    /\ unlink({curr[t], pred[t]})
    /\ takeEffect(t, FALSE)
    /\ UNCHANGED <<active, op, position, search, lock>>

unlock(t) ==
    /\ goto(t, "unlock", IF is(t, "insert") THEN "end" ELSE "retireLeaf")
    /\ IF is(t, "insert")
       THEN unlockSide(pred[t], right[t])
       ELSE unlockSide(ppred[t], pright[t])
    /\ UNCHANGED <<nodes, call, position, search, child>>

erase_retireLeaf(t) ==
    /\ goto(t, "retireLeaf", "retireInner")
    /\ retireNode(curr[t])
    /\ UNCHANGED <<call, position, search, tree>>

erase_retireInner(t) ==
    /\ goto(t, "retireInner", "end")
    /\ retireNode(pred[t])
    /\ UNCHANGED <<call, position, search, tree>>

end(t) ==
    /\ endOp(t)
    /\ ppred' = [ppred EXCEPT ![t] = NULL]
    /\ predVer' = [predVer EXCEPT ![t] = both(unlocked(0))]
    /\ ppredVer' = [ppredVer EXCEPT ![t] = both(unlocked(0))]
    /\ right' = [right EXCEPT ![t] = "left"]
    /\ pright' = [pright EXCEPT ![t] = "left"]
    /\ UNCHANGED tree

(* new_node clears the lock. *)
freeNode(n) ==
    /\ free(n)
    /\ child' = [child EXCEPT ![n] = both(NULL)]
    /\ lock' = [lock EXCEPT ![n] = both(unlocked(0))]
    /\ UNCHANGED search

-------------------------------------------------------------------------------
step(t) ==
    \/ search_start(t) \/ find(t) \/ search_version(t) \/ search_child(t)
    \/ insert_lock(t) \/ insert_link(t)
    \/ erase_lockPpred(t) \/ erase_lockBoth(t) \/ erase_revert(t) \/ erase_splice(t)
    \/ unlock(t) \/ erase_retireLeaf(t) \/ erase_retireInner(t)
    \/ end(t)

Next ==
    \/ \E t \in Tid :
          \/ step(t)
          \/ startOp(t, "search", set, 2) /\ UNCHANGED <<search, tree>>
    \/ \E n \in Node : freeNode(n)

Spec == Init /\ [][Next]_vars

-------------------------------------------------------------------------------
(* Every variable holds what the code can store in it: no ticket is given  *)
(* back that was not taken.                                                *)
TypeOK ==
    /\ ClientTypeOK
    /\ {pred, ppred} \subseteq [Tid -> Inner \union {NULL}]
    /\ curr \in [Tid -> Inner \union Leaf \union {NULL}]
    /\ child \in [Inner -> [Side -> Node \union {MinLeaf, MaxLeaf, NULL}]]
    /\ lock \in [Inner -> Lock]
    /\ {predVer, ppredVer} \subseteq [Tid -> Lock]
    /\ {right, pright} \subseteq [Tid -> Side]

(* The pointers a thread works with. *)
pointers(t) == {ppred[t], pred[t], curr[t]}

(* The way a search for k goes, if nothing changes meanwhile; it is not    *)
(* longer than the tree has nodes.                                         *)
pathEnd(k) ==
    LET down[d \in Nat] ==
            IF d = 0 THEN Root
            ELSE IF isLeaf(down[d - 1]) THEN down[d - 1]
            ELSE child[down[d - 1]][sideOf(down[d - 1], k)]
    IN  down[Cardinality(Node) + 1]

(* The linked nodes are a search tree: each has one parent, which is       *)
(* linked, and a search for the key of a leaf ends there.                  *)
Ordered ==
    LET linkedInner == {n \in LinkedNodes : ~isLeaf(n)} \union {Root} IN
    /\ \A n \in linkedInner, side \in Side :
          child[n][side] \in LinkedNodes \union {MinLeaf, MaxLeaf}
    /\ \A n \in LinkedNodes \union {MinLeaf, MaxLeaf} :
          Cardinality({p \in linkedInner \X Side : child[p[1]][p[2]] = n}) = 1
    /\ \A n \in LinkedNodes : isLeaf(n) => pathEnd(key[n]) = n

(* When no call is running, every lock in the tree is free, and nothing    *)
(* that was unlinked has been forgotten.                                   *)
Tidy ==
    (\A t \in Tid : pc[t] = "idle") =>
        /\ \A n \in LinkedNodes \union {Root}, side \in Side : isFree(lock[n], side)
        /\ \A n \in Node : status[n] # "unlinked"
=============================================================================
