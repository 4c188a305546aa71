-------------------------------- MODULE ABTree --------------------------------
(***************************************************************************)
(* The relaxed (a,b)-tree, brown_ext_abtree_lf_ooi_impl.h.  An update      *)
(* replaces a leaf by a new one, or by a small tree, in one SCX.  That can *)
(* leave a violation of the (a,b)-tree behind: an inner node of weight 0,  *)
(* which does not count as a level, or a node with less than a children or *)
(* keys.  The thread then goes after this violation until it is gone or    *)
(* its node has left the tree, in which case the one that took it out does *)
(* the rest.                                                               *)
(*                                                                         *)
(* A thread reads one pointer per step, takes all its LLX in one step and  *)
(* does the SCX in another.  When the SCX succeeds, no node has changed    *)
(* since its LLX, and they might as well have been taken together; when it *)
(* does not, the attempt has no effect.                                    *)
(***************************************************************************)
EXTENDS Naturals, FiniteSets, SequencesExt

CONSTANTS
    Tid,            \* the threads
    DEGREE,         \* most children of an inner node, most keys of a leaf
    MaxKey,         \* BOUND: keys are 1 .. MaxKey
    MaxNode,        \* BOUND: nodes that exist at a time
    NONE

Key == 1 .. MaxKey
KEY_ANY == 0
NodeId == 1 .. MaxNode
entry == 1
NULL == 0

b == DEGREE
a == IF DEGREE \div 4 > 2 THEN DEGREE \div 4 ELSE 2

VARIABLES
    heap,           \* the nodes that exist
    marked,         \* inner nodes that were taken out of the tree: FINALIZED
    retired,        \* nodes handed to the reclaimer
    pc,             \* per thread, the step it takes next
    op,             \* per thread, the call that is running, or NONE
    answer,         \* per thread, its result once it is decided
    seen,           \* per thread, whether its key was present, since the call
    at,             \* per thread, where its search is: gp, p and l, and the
                    \* positions ixToP of p in gp and ixToL of l in p, from 1
    snap,           \* per thread, the nodes of its LLXs and their ptrs then
    todo            \* per thread, the calls of fixWeightViolation and of
                    \* fixDegreeViolation that are running or come next

vars == <<heap, marked, retired, pc, op, answer, seen, at, snap, todo>>
tree == <<heap, marked, retired>>
call == <<op, answer, seen>>

Operation == [kind : {"contains", "insert", "erase"}, key : Key]
is(t, kind) == op[t] # NONE /\ op[t].kind = kind

-------------------------------------------------------------------------------
(* Nodes.  A leaf has no pointers: the values it keeps there are left out. *)
leafNode(keys, searchKey) ==
    [leaf |-> TRUE, weight |-> 1, keys |-> keys, ptrs |-> <<>>, searchKey |-> searchKey]
innerNode(weight, keys, ptrs, searchKey) ==
    [leaf |-> FALSE, weight |-> weight, keys |-> keys, ptrs |-> ptrs, searchKey |-> searchKey]

root == heap[entry].ptrs[1]
getABDegree(n) == IF heap[n].leaf THEN Len(heap[n].keys) ELSE Len(heap[n].ptrs)
rank(k, keys) == 1 + Cardinality({i \in DOMAIN keys : keys[i] < k})
getChildIndex(n, k) == rank(k + 1, heap[n].keys)
has(n, k) == k \in ToSet(heap[n].keys)

(* The nodes that can be reached from some. *)
RECURSIVE reachable(_)
reachable(from) ==
    LET children == UNION {ToSet(heap[n].ptrs) : n \in from} IN
    IF children \subseteq from THEN from ELSE reachable(from \union children)

set == UNION {ToSet(heap[n].keys) : n \in {m \in reachable({entry}) : heap[m].leaf}}

nowhere == [gp |-> NULL, p |-> NULL, l |-> NULL, ixToP |-> 0, ixToL |-> 0]

Init ==
    /\ heap = 1 :> innerNode(1, <<>>, <<2>>, KEY_ANY) @@ 2 :> leafNode(<<>>, KEY_ANY)
    /\ marked = {}
    /\ retired = {}
    /\ pc = [t \in Tid |-> "idle"]
    /\ op = [t \in Tid |-> NONE]
    /\ answer = [t \in Tid |-> NONE]
    /\ seen = [t \in Tid |-> {}]
    /\ at = [t \in Tid |-> nowhere]
    /\ snap = [t \in Tid |-> <<>>]
    /\ todo = [t \in Tid |-> <<>>]

-------------------------------------------------------------------------------
goto(t, from, to) == pc[t] = from /\ pc' = [pc EXCEPT ![t] = to]

decide(t, result) == answer' = [answer EXCEPT ![t] = result]

notice(k, present) ==
    seen' = [t \in Tid |->
                IF op[t] # NONE /\ op[t].key = k THEN seen[t] \union {present} ELSE seen[t]]

-------------------------------------------------------------------------------
(* Wrong versions of steps below, which the properties must tell from the  *)
(* right ones.                                                             *)

(* an SCX that is a mere CAS of the pointer *)
unchangedPointer(t) ==
    LET s == at[t] IN
    IF todo[t] = <<>> THEN heap[s.p].ptrs[s.ixToL] = s.l ELSE heap[s.gp].ptrs[s.ixToP] = s.p

(* retires no leaves *)
replace_retireInner(parent, ix, top, new, old) ==
    /\ heap' = [heap EXCEPT ![parent].ptrs[ix] = top] @@ new
    /\ marked' = marked \union {n \in old : ~heap[n].leaf}
    /\ retired' = retired \union {n \in old : ~heap[n].leaf}

(* gives up when p or l was replaced above viol *)
degree_giveUp(t) ==
    /\ goto(t, "walk", "fix")
    /\ todo[t] # <<>> /\ at[t].l = Head(todo[t]).viol /\ Head(todo[t]).fix = "degree"
    /\ at[t].gp \in marked \/ heap[at[t].gp].ptrs[at[t].ixToP] # at[t].p
    /\ todo' = [todo EXCEPT ![t] = Tail(@)]
    /\ UNCHANGED <<tree, call, at, snap>>

-------------------------------------------------------------------------------
startOp(t, o) ==
    /\ goto(t, "idle", "search")
    /\ op' = [op EXCEPT ![t] = o]
    /\ seen' = [seen EXCEPT ![t] = {(o.key \in set)}]
    /\ UNCHANGED <<tree, answer, at, snap, todo>>

(* What a thread can still reach. *)
pointers(t) ==
    ({at[t].gp, at[t].p, at[t].l} \ {NULL}) \union DOMAIN snap[t]
        \union {todo[t][i].viol : i \in DOMAIN todo[t]}

(* The guard goes.  Then the reclaimer may free what was retired and what  *)
(* no other operation can reach: no reclaimer does more, or sooner.        *)
endOp(t) ==
    LET needed == reachable({entry} \union UNION {pointers(u) : u \in Tid \ {t}})
        free == retired \ needed
    IN  /\ goto(t, "end", "idle")
        /\ heap' = [n \in DOMAIN heap \ free |-> heap[n]]
        /\ retired' = retired \ free
        /\ marked' = marked \ free
        /\ op' = [op EXCEPT ![t] = NONE]
        /\ answer' = [answer EXCEPT ![t] = NONE]
        /\ seen' = [seen EXCEPT ![t] = {}]
        /\ at' = [at EXCEPT ![t] = nowhere]
        /\ snap' = [snap EXCEPT ![t] = <<>>]
        /\ UNCHANGED todo

(* A search, for the key of the call or, to repair, for the searchKey of   *)
(* viol.                                                                   *)
fixing(t) == todo[t] # <<>>
viol(t) == Head(todo[t]).viol
target(t) == IF fixing(t) THEN heap[viol(t)].searchKey ELSE op[t].key

search_start(t) ==
    /\ goto(t, "search", "walk")
    /\ at' = [at EXCEPT ![t] =
                [gp |-> NULL, p |-> entry, l |-> root, ixToP |-> 0, ixToL |-> 1]]
    /\ snap' = [snap EXCEPT ![t] = <<>>]
    /\ UNCHANGED <<tree, call, todo>>

arrived(t) == heap[at[t].l].leaf \/ (fixing(t) /\ at[t].l = viol(t))

search_walk(t) ==
    LET s == at[t]
        ix == getChildIndex(s.l, target(t))
    IN  /\ goto(t, "walk", "walk")
        /\ ~arrived(t)
        /\ at' = [at EXCEPT ![t] = [gp |-> s.p, p |-> s.l, l |-> heap[s.l].ptrs[ix],
                                    ixToP |-> s.ixToL, ixToL |-> ix]]
        /\ UNCHANGED <<tree, call, snap, todo>>

(* The leaf shows that there is nothing to do, *)
search_return(t) ==
    LET found == has(at[t].l, op[t].key) IN
    /\ pc[t] = "walk" /\ arrived(t) /\ ~fixing(t)
    /\ \/ is(t, "contains")
       \/ is(t, "insert") /\ found
       \/ is(t, "erase") /\ ~found
    /\ decide(t, is(t, "contains") /\ found)
    /\ goto(t, "walk", "end")
    /\ UNCHANGED <<tree, op, seen, at, snap, todo>>

(* or it is to be replaced: LLX of its parent, which must still be its     *)
(* parent.                                                                 *)
linked(parent, ix, child) == parent \notin marked /\ heap[parent].ptrs[ix] = child

llx(t, nodes) == snap' = [snap EXCEPT ![t] = [n \in nodes |-> heap[n].ptrs]]

update_llx(t) ==
    LET s == at[t] IN
    /\ pc[t] = "walk" /\ arrived(t) /\ ~fixing(t)
    /\ is(t, "insert") \/ is(t, "erase")
    /\ has(s.l, op[t].key) = is(t, "erase")
    /\ IF linked(s.p, s.ixToL, s.l)
       THEN goto(t, "walk", "scx") /\ llx(t, {s.p})
       ELSE goto(t, "walk", "search") /\ UNCHANGED snap
    /\ UNCHANGED <<tree, call, at, todo>>

(* SCX.  It does nothing if one of the nodes has changed since its LLX.    *)
(* Else it puts the new nodes in the place of old ones, which the thread   *)
(* retires, and there may be calls to make then.                           *)
unchanged(t) == \A n \in DOMAIN snap[t] : n \notin marked /\ heap[n].ptrs = snap[t][n]

fresh == SelectSeq([n \in NodeId |-> n], LAMBDA n : n \notin DOMAIN heap)

replace(parent, ix, top, new, old) ==
    /\ heap' = [heap EXCEPT ![parent].ptrs[ix] = top] @@ new
    /\ marked' = marked \union {n \in old : ~heap[n].leaf}
    /\ retired' = retired \union old

(* The weight of an inner node in the place of a full one: at the root it  *)
(* is a new level at once.                                                 *)
newWeightOne(parent) == 1   \* (wrong: a level anywhere)
newWeight(parent) == IF parent = entry THEN 1 ELSE 0

fixWeight(n) == [fix |-> "weight", viol |-> n, checked |-> FALSE]
fixDegree(n) == [fix |-> "degree", viol |-> n, checked |-> FALSE]
thenDo(t, calls) ==
    /\ todo' = [todo EXCEPT ![t] = calls \o (IF fixing(t) THEN Tail(@) ELSE @)]
    /\ at' = [at EXCEPT ![t] = nowhere]
    /\ snap' = [snap EXCEPT ![t] = <<>>]

scx_fail(t) ==
    /\ goto(t, "scx", "search")
    /\ ~unchanged(t)
    /\ UNCHANGED <<tree, call, at, snap, todo>>

insert_pair(t) ==
    LET s == at[t]
        L == heap[s.l]
        k == op[t].key
        n == fresh[1]
    IN  /\ goto(t, "scx", "fix")
        /\ ~fixing(t) /\ is(t, "insert") /\ unchanged(t)
        /\ getABDegree(s.l) < b
        /\ replace(s.p, s.ixToL, n,
                   n :> leafNode(InsertAt(L.keys, rank(k, L.keys), k), L.searchKey), {s.l})
        /\ decide(t, TRUE) /\ notice(k, TRUE)
        /\ thenDo(t, <<fixDegree(n)>>)
        /\ UNCHANGED op

insert_overflow(t) ==
    LET s == at[t]
        L == heap[s.l]
        k == op[t].key
        keys == InsertAt(L.keys, rank(k, L.keys), k)
        size1 == (DEGREE + 1) \div 2
        middle == keys[size1 + 1]
        n == fresh[1]
        left == fresh[2]
        right == fresh[3]
    IN  /\ goto(t, "scx", "fix")
        /\ ~fixing(t) /\ is(t, "insert") /\ unchanged(t)
        /\ getABDegree(s.l) = b
        /\ replace(s.p, s.ixToL, n,
                   n :> innerNode(newWeight(s.p), <<middle>>, <<left, right>>, middle)
                   @@ left :> leafNode(SubSeq(keys, 1, size1), keys[1])
                   @@ right :> leafNode(SubSeq(keys, size1 + 1, DEGREE + 1), middle),
                   {s.l})
        /\ decide(t, TRUE) /\ notice(k, TRUE)
        /\ thenDo(t, <<fixWeight(n)>>)
        /\ UNCHANGED op

erase_pair(t) ==
    LET s == at[t]
        L == heap[s.l]
        k == op[t].key
        n == fresh[1]
    IN  /\ goto(t, "scx", "fix")
        /\ ~fixing(t) /\ is(t, "erase") /\ unchanged(t)
        /\ replace(s.p, s.ixToL, n,
                   n :> leafNode(RemoveAt(L.keys, rank(k, L.keys)), L.keys[1]), {s.l})
        /\ decide(t, TRUE) /\ notice(k, FALSE)
        /\ thenDo(t, <<fixDegree(n)>>)
        /\ UNCHANGED op

-------------------------------------------------------------------------------
(* The start of fixWeightViolation and of fixDegreeViolation: is there a   *)
(* violation at viol, and is viol still in the tree?                       *)
fixed(c) ==
    \/ c.viol \in marked
    \/ c.fix = "weight" /\ heap[c.viol].weight = 1
    \/ c.fix = "degree" /\ (getABDegree(c.viol) >= a \/ c.viol \in {entry, root})

fix_call(t) ==
    /\ \/ /\ ~fixing(t)
          /\ goto(t, "fix", "end")
          /\ UNCHANGED todo
       \/ /\ fixing(t) /\ ~Head(todo[t]).checked /\ fixed(Head(todo[t]))
          /\ goto(t, "fix", "fix")
          /\ todo' = [todo EXCEPT ![t] = Tail(@)]
       \/ /\ fixing(t) /\ (Head(todo[t]).checked \/ ~fixed(Head(todo[t])))
          /\ goto(t, "fix", "search")
          /\ todo' = [todo EXCEPT ![t][1].checked = TRUE]
    /\ UNCHANGED <<tree, call, at, snap>>

(* "we hand over responsibility for viol to that update" *)
fix_handOver(t) ==
    /\ goto(t, "walk", "fix")
    /\ fixing(t) /\ arrived(t) /\ at[t].l # viol(t)
    /\ todo' = [todo EXCEPT ![t] = Tail(@)]
    /\ UNCHANGED <<tree, call, at, snap>>

found(t, fix) ==
    pc[t] = "walk" /\ fixing(t) /\ at[t].l = viol(t) /\ Head(todo[t]).fix = fix

(* Weight violations in the way are fixed first, then it starts again. *)
fixFirst(t, nodes) ==
    /\ goto(t, "walk", "fix")
    /\ todo' = [todo EXCEPT ![t] = [i \in DOMAIN nodes |-> fixWeight(nodes[i])] \o @]
    /\ UNCHANGED <<tree, call, at, snap>>
weightless(nodes) == SelectSeq(nodes, LAMBDA n : heap[n].weight = 0)

(* The LLX of gp and p succeed and still lead to l; then a LLX of a child  *)
(* of p succeeds, too.                                                     *)
linkedAbove(t) == linked(at[t].gp, at[t].ixToP, at[t].p) /\ linked(at[t].p, at[t].ixToL, at[t].l)

weight_parentFirst(t) ==
    /\ found(t, "weight") /\ heap[at[t].p].weight = 0
    /\ fixFirst(t, <<at[t].p>>)

weight_llx(t) ==
    LET s == at[t] IN
    /\ found(t, "weight") /\ heap[s.p].weight = 1
    /\ IF linkedAbove(t)
       THEN goto(t, "walk", "scx") /\ llx(t, {s.gp, s.p, s.l})
       ELSE goto(t, "walk", "search") /\ UNCHANGED snap
    /\ UNCHANGED <<tree, call, at, todo>>

(* p and l in one: the keys and the pointers. *)
mergedKeys(s) ==
    LET P == heap[s.p].keys IN
    SubSeq(P, 1, s.ixToL - 1) \o heap[s.l].keys \o SubSeq(P, s.ixToL, Len(P))
mergedPtrs(s) ==
    LET P == heap[s.p].ptrs IN
    SubSeq(P, 1, s.ixToL - 1) \o heap[s.l].ptrs \o SubSeq(P, s.ixToL + 1, Len(P))

repairs(t, fix) ==
    goto(t, "scx", "fix") /\ fixing(t) /\ Head(todo[t]).fix = fix /\ unchanged(t)

weight_absorb(t) ==
    LET s == at[t]
        keys == mergedKeys(s)
        n == fresh[1]
    IN  /\ repairs(t, "weight")
        /\ Len(mergedPtrs(s)) <= b
        /\ replace(s.gp, s.ixToP, n, n :> innerNode(1, keys, mergedPtrs(s), keys[1]), {s.p, s.l})
        /\ thenDo(t, <<fixDegree(n)>>)
        /\ UNCHANGED call

weight_split(t) ==
    LET s == at[t]
        keys == mergedKeys(s)
        ptrs == mergedPtrs(s)
        size == Len(ptrs)
        size1 == size \div 2
        n == fresh[1]
        left == fresh[2]
        right == fresh[3]
    IN  /\ repairs(t, "weight")
        /\ size > b
        /\ replace(s.gp, s.ixToP, n,
                   n :> innerNode(newWeight(s.gp), <<keys[size1]>>, <<left, right>>, keys[size1])
                   @@ left :> innerNode(1, SubSeq(keys, 1, size1 - 1),
                                        SubSeq(ptrs, 1, size1), keys[1])
                   @@ right :> innerNode(1, SubSeq(keys, size1 + 1, size - 1),
                                         SubSeq(ptrs, size1 + 1, size), keys[size1 + 1]),
                   {s.p, s.l})
        /\ thenDo(t, <<fixWeight(n), fixDegree(n)>>)
        /\ UNCHANGED call

(* The sibling to repair with: the one on the left, if there is one. *)
ixToS(t) == IF at[t].ixToL > 1 THEN at[t].ixToL - 1 ELSE 2
hasSibling(t) == ixToS(t) \in DOMAIN heap[at[t].p].ptrs
sibling(t) == heap[at[t].p].ptrs[ixToS(t)]
leftindex(t) == IF at[t].ixToL > 1 THEN at[t].ixToL - 1 ELSE 1
leftNode(t) == heap[heap[at[t].p].ptrs[leftindex(t)]]
rightNode(t) == heap[heap[at[t].p].ptrs[leftindex(t) + 1]]

degree_retry(t) ==
    /\ goto(t, "walk", "search")
    /\ found(t, "degree")
    /\ ~linkedAbove(t)
    /\ UNCHANGED <<tree, call, at, snap, todo>>

(* The code reads ptrs[1] of p whatever the degree of p.  What it finds    *)
(* when there is no second child was never written: from then on this      *)
(* thread may do anything, and the model follows it no further.            *)
degree_noSibling(t) ==
    /\ goto(t, "walk", "undefined")
    /\ found(t, "degree")
    /\ linkedAbove(t) /\ ~hasSibling(t)
    /\ UNCHANGED <<tree, call, at, snap, todo>>

degree_weightFirst(t) ==
    /\ found(t, "degree")
    /\ linkedAbove(t) /\ hasSibling(t)
    /\ LET nodes == weightless(<<at[t].p, at[t].l, sibling(t)>>) IN
          nodes # <<>> /\ fixFirst(t, nodes)

degree_llx(t) ==
    LET s == at[t] IN
    /\ goto(t, "walk", "scx")
    /\ found(t, "degree")
    /\ linkedAbove(t) /\ hasSibling(t)
    /\ weightless(<<s.p, s.l, sibling(t)>>) = <<>>
    /\ llx(t, {s.gp, s.p} \union IF leftNode(t).leaf THEN {} ELSE {s.l, sibling(t)})
    /\ UNCHANGED <<tree, call, at, todo>>

(* l and its sibling in one; between inner nodes goes the key of p. *)
siblingKeysOnly(t) == leftNode(t).keys \o rightNode(t).keys    \* (wrong: without it)
siblingKeys(t) ==
    LET between == IF leftNode(t).leaf THEN <<>> ELSE <<heap[at[t].p].keys[leftindex(t)]>>
    IN  leftNode(t).keys \o between \o rightNode(t).keys
siblingPtrs(t) == leftNode(t).ptrs \o rightNode(t).ptrs
siblingSize(t) == getABDegree(at[t].l) + getABDegree(sibling(t))

like(t, weight, keys, ptrs, searchKey) ==
    IF leftNode(t).leaf THEN leafNode(keys, searchKey) ELSE innerNode(weight, keys, ptrs, searchKey)

degree_absorbSibling(t) ==
    LET s == at[t]
        P == heap[s.p]
        newl == fresh[1]
        n == fresh[2]
        new == newl :> like(t, 1, siblingKeys(t), siblingPtrs(t), heap[s.l].searchKey)
        ptrs == RemoveAt([P.ptrs EXCEPT ![leftindex(t)] = newl], leftindex(t) + 1)
        old == {s.p, s.l, sibling(t)}
    IN  /\ repairs(t, "degree")
        /\ siblingSize(t) < 2 * a
        /\ IF s.gp = entry /\ Len(P.ptrs) = 2
           THEN replace(s.gp, s.ixToP, newl, new, old) /\ thenDo(t, <<fixDegree(newl)>>)
           ELSE /\ replace(s.gp, s.ixToP, n,
                           new @@ n :> innerNode(1, RemoveAt(P.keys, leftindex(t)), ptrs,
                                                 P.searchKey), old)
                /\ thenDo(t, <<fixDegree(newl), fixDegree(n)>>)
        /\ UNCHANGED call

degree_distribute(t) ==
    LET s == at[t]
        P == heap[s.p]
        i == leftindex(t)
        keys == siblingKeys(t)
        ptrs == siblingPtrs(t)
        leftsz == siblingSize(t) \div 2
        leftKeys == SubSeq(keys, 1, IF leftNode(t).leaf THEN leftsz ELSE leftsz - 1)
        rightKeys == SubSeq(keys, leftsz + 1, Len(keys))
        keyp == keys[Len(leftKeys) + 1]
        n == fresh[1]
        newleft == fresh[2]
        newright == fresh[3]
    IN  /\ repairs(t, "degree")
        /\ siblingSize(t) >= 2 * a
        /\ replace(s.gp, s.ixToP, n,
                   n :> innerNode(1, [P.keys EXCEPT ![i] = keyp],
                                  [P.ptrs EXCEPT ![i] = newleft, ![i + 1] = newright],
                                  P.searchKey)
                   @@ newleft :> like(t, 1, leftKeys, SubSeq(ptrs, 1, leftsz), leftKeys[1])
                   @@ newright :> like(t, 1, rightKeys,
                                       SubSeq(ptrs, leftsz + 1, Len(ptrs)), rightKeys[1]),
                   {s.p, s.l, sibling(t)})
        /\ thenDo(t, <<fixDegree(n)>>)
        /\ UNCHANGED call

-------------------------------------------------------------------------------
step(t) ==
    \/ search_start(t) \/ search_walk(t) \/ search_return(t)
    \/ update_llx(t) \/ scx_fail(t)
    \/ insert_pair(t) \/ insert_overflow(t) \/ erase_pair(t)
    \/ fix_call(t) \/ fix_handOver(t)
    \/ weight_parentFirst(t) \/ weight_llx(t) \/ weight_absorb(t) \/ weight_split(t)
    \/ degree_retry(t) \/ degree_noSibling(t) \/ degree_weightFirst(t) \/ degree_llx(t)
    \/ degree_absorbSibling(t) \/ degree_distribute(t)
    \/ endOp(t)

Next == \E t \in Tid : step(t) \/ \E o \in Operation : startOp(t, o)

Spec == Init /\ [][Next]_vars

-------------------------------------------------------------------------------
inTree == reachable({entry})
idle == \A t \in Tid : pc[t] = "idle"

(* A node keeps to the shape its kind has, full and empty slots included,  *)
(* and every local pointer is to a node that has been allocated.           *)
TypeOK ==
    /\ DOMAIN heap \subseteq NodeId
    /\ \A n \in DOMAIN heap :
          /\ heap[n].weight \in {0, 1} /\ heap[n].leaf \in BOOLEAN
          /\ ToSet(heap[n].ptrs) \subseteq DOMAIN heap
          /\ getABDegree(n) <= b
          /\ ~heap[n].leaf => Len(heap[n].ptrs) = Len(heap[n].keys) + 1
    /\ marked \subseteq retired /\ retired \subseteq DOMAIN heap
    /\ \A t \in Tid : pointers(t) \subseteq DOMAIN heap

(* A node with what the path to it promises about its keys, and its level, *)
(* where inner nodes of weight 0 do not count.                             *)
child(x, i) ==
    [n |-> heap[x.n].ptrs[i],
     above |-> IF i = 1 THEN x.above ELSE heap[x.n].keys[i - 1],
     below |-> IF i = Len(heap[x.n].ptrs) THEN x.below ELSE heap[x.n].keys[i],
     level |-> x.level + heap[x.n].weight]

RECURSIVE subtree(_)
subtree(x) == {x} \union UNION {subtree(child(x, i)) : i \in DOMAIN heap[x.n].ptrs}

(* The nodes of the tree have the keys a search expects there: sorted, and *)
(* within the bounds the inner nodes above them set.  It is a tree, and    *)
(* all leaves are on the same level.                                       *)
SearchTree ==
    LET nodes == subtree([n |-> entry, above |-> 0, below |-> MaxKey + 1, level |-> 0])
    IN  /\ \A x \in nodes :
              LET keys == heap[x.n].keys IN
              /\ \A i \in DOMAIN keys : x.above <= keys[i] /\ keys[i] < x.below
              /\ \A i \in 2 .. Len(keys) : keys[i - 1] < keys[i]
        /\ Cardinality(nodes) = Cardinality(inTree)
        /\ Cardinality({x.level : x \in {y \in nodes : heap[y.n].leaf}}) = 1

(* What has left the tree has been retired, and nothing else has. *)
RetiredIsRemoved == retired = DOMAIN heap \ inTree

(* Violations are handed from thread to thread, but none is lost: when no  *)
(* call is running, the tree is an (a,b)-tree.                             *)
Settled ==
    idle => \A n \in inTree :
               /\ heap[n].weight = 1
               /\ n \notin {entry, root} => getABDegree(n) >= a

(* "also note that p->size >= a >= 2", of the parent of the node that is   *)
(* repaired.                                                               *)
ParentHasSiblings ==
    \A t \in Tid : pc[t] = "undefined" => getABDegree(at[t].p) >= a
=============================================================================
