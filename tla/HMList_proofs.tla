----------------------------- MODULE HMList_proofs -----------------------------
(***************************************************************************)
(* HMList is a linearizable set and a client the reclaimer may trust, for  *)
(* any number of threads, nodes and keys.                                  *)
(*                                                                         *)
(* Sorted is about a chain of nodes, and what list_search returns is about *)
(* all of it, though it has looked at two neighbours only.  No induction   *)
(* along the chain is needed: each node's successor is the next one in the *)
(* order of the keys (Chain), so that two neighbours with a smaller and a  *)
(* larger key show that a key is absent.                                   *)
(***************************************************************************)
EXTENDS HMList, FiniteSetTheorems, TLAPS

(* Outside any operation; and where a search has its three pointers. *)
Outside == {"idle", "readVal"}
Working == {"load", "reload", "check", "unlink", "retire", "link", "mark", "eraseUnlink",
            "eraseRetire"}

(* A call: which locals it has, and what the callers of list_search go on  *)
(* to do.                                                                  *)
CallOf(t) ==
    /\ t \in active <=> pc[t] \notin Outside
    /\ op[t] = NONE <=> pc[t] \in Outside
    /\ pc[t] \in Outside => answer[t] = NONE /\ prev[t] = NULL /\ nxt[t] = NULL
    /\ pc[t] = "idle" => curr[t] = NULL
    /\ pc[t] = "end" => curr[t] # NULL
    /\ newNode[t] # NULL <=> op[t] # NONE /\ op[t].kind = "insert" /\ answer[t] = NONE
    /\ pc[t] = "link" => op[t].kind = "insert" /\ answer[t] = NONE
    /\ pc[t] = "mark" => op[t].kind = "erase" /\ answer[t] = NONE
    /\ pc[t] \in {"eraseUnlink", "eraseRetire", "end"} => answer[t] # NONE
    /\ answer[t] # NONE /\ pc[t] # "end" => op[t].kind = "erase" /\ answer[t] = TRUE
Calls == \A t \in Tid : CallOf(t)

(* The nodes in their states. *)
Nodes ==
    /\ next[Root] = pointTo(Head) /\ next[Tail] = pointTo(NULL) /\ ~next[Head].mark
    /\ \A n \in Node :
          /\ waiting[n] \subseteq active
          /\ status[n] \in {"free", "linked"} => waiting[n] = {}
          /\ status[n] \in {"unlinked", "retired"} => next[n].mark
          /\ status[n] = "linked" => key[n] \in Key

(* A node that doInsert has not linked yet is its own. *)
NewNodes ==
    \A t \in Tid : newNode[t] # NULL =>
        /\ status[newNode[t]] = "free" /\ key[newNode[t]] = op[t].key
        /\ \A u \in Tid : newNode[u] = newNode[t] => u = t

(* The successor of each node is the next in the order of the keys. *)
Chain ==
    /\ \A n \in LinkedNodes \union {Head} :
          LET m == next[n].ptr IN
          /\ m \in LinkedNodes \union {Tail}
          /\ keyOf(n) < keyOf(m)
          /\ \A x \in LinkedNodes : keyOf(n) < keyOf(x) => keyOf(m) <= keyOf(x)
    /\ \A n, m \in LinkedNodes : key[n] = key[m] => n = m
    /\ \A n \in LinkedNodes \union {Tail} : \E m \in LinkedNodes \union {Head} : next[m].ptr = n

(* A node that t's operation may go on to use, if it is one at all. *)
Keeps(t, n) == n \in Node => status[n] = "linked" \/ t \in waiting[n]

(* From such a node pointers lead to such nodes only. *)
Frozen ==
    \A n \in Node : \A t \in waiting[n] :
        next[n].ptr \in Node \union {Tail} /\ Keeps(t, next[n].ptr)

(* What a search has in hand. *)
SearchOf(t) ==
    /\ t \in active => Keeps(t, prev[t]) /\ Keeps(t, curr[t]) /\ Keeps(t, nxt[t])
    /\ pc[t] \in Working =>
          /\ prev[t] # NULL
          /\ prev[t] = Root => curr[t] = Head
          /\ prev[t] # Root => curr[t] # Head /\ keyOf(prev[t]) < op[t].key
    /\ pc[t] \in {"reload", "check"} =>
          /\ nxt[t] # Head /\ (curr[t] # Tail => nxt[t] # NULL)
          /\ cmark[t] => curr[t] \in Node /\ next[curr[t]] = marked(nxt[t])
    /\ pc[t] \in {"unlink", "retire", "eraseUnlink"} =>
          prev[t] # Root /\ curr[t] \in Node /\ next[curr[t]] = marked(nxt[t])
    /\ pc[t] \in {"unlink", "retire"} => nxt[t] \in Node \union {Tail}
    /\ pc[t] = "link" => prev[t] # Root /\ op[t].key < keyOf(curr[t])
    /\ pc[t] = "mark" => prev[t] # Root
    /\ pc[t] \in {"mark", "eraseUnlink"} => curr[t] \in Node /\ keyOf(curr[t]) = op[t].key
Searches == \A t \in Tid : SearchOf(t)

(* A node is retired by the one thread that has unlinked it. *)
Retiring == {"retire", "eraseRetire"}
OneRetires ==
    \A t \in Tid : pc[t] \in Retiring =>
        /\ curr[t] \in Node /\ status[curr[t]] = "unlinked"
        /\ \A u \in Tid : pc[u] \in Retiring /\ curr[u] = curr[t] => u = t

(* seen has what an operation could answer now, and what it could when it  *)
(* loaded the next field of a node that is still linked.                   *)
SeenOf(t) ==
    op[t] # NONE =>
        /\ op[t].key \in set => TRUE \in seen[t]
        /\ op[t].key \notin set => FALSE \in seen[t]
        /\ pc[t] \in {"reload", "check"} /\ ~cmark[t] /\ curr[t] \in LinkedNodes
              /\ key[curr[t]] = op[t].key => TRUE \in seen[t]
Seen == \A t \in Tid : SeenOf(t)

(* While a marked node is linked, the thread that has marked it will not   *)
(* return: it unlinks the node or searches for it.                         *)
Erases(t, n) ==
    /\ op[t] # NONE /\ op[t].kind = "erase" /\ op[t].key = key[n] /\ answer[t] = TRUE
    /\ pc[t] # "end"
    /\ pc[t] \in {"eraseUnlink", "eraseRetire"} => curr[t] = n
    /\ pc[t] \in {"reload", "check"} /\ curr[t] = n => cmark[t]
MarkedErased == \A n \in LinkedNodes : next[n].mark => \E t \in Tid : Erases(t, n)

(* The inductive invariant.                                                *)
IInv ==
    /\ TypeOK
    /\ Calls
    /\ Nodes
    /\ NewNodes
    /\ Chain
    /\ Frozen
    /\ Searches
    /\ OneRetires
    /\ Seen
    /\ MarkedErased

-------------------------------------------------------------------------------
(* The keys of the sentinels and of the nodes, before and after a step. *)
LEMMA KeyOf ==
  /\ keyOf(Head) = KEY_MIN /\ keyOf(Tail) = KEY_MAX
  /\ \A n \in Node : keyOf(n) = key[n]
  /\ keyOf(Head)' = KEY_MIN /\ keyOf(Tail)' = KEY_MAX
  /\ \A n \in Node : keyOf(n)' = key'[n]
BY HMListAssumption DEF keyOf

(* Keys can be compared. *)
LEMMA KeysAreNat ==
  /\ \A k \in Key : k \in Nat /\ KEY_MIN < k /\ k < KEY_MAX
  /\ KEY_MIN \in Nat /\ KEY_MAX \in Nat
  /\ TypeOK => \A n \in Node \union {Head, Tail} : keyOf(n) \in Nat
<1>1. /\ \A k \in Key : k \in Nat /\ KEY_MIN < k /\ k < KEY_MAX
      /\ KEY_MIN \in Nat /\ KEY_MAX \in Nat
  BY HMListAssumption DEF Key, KEY_MIN, KEY_MAX
<1>2. QED BY <1>1, KeyOf DEF TypeOK

(* Nobody points behind a node that is not linked without meeting a mark. *)
LEMMA UnmarkedIsLinked ==
  ASSUME TypeOK, Nodes, NEW t \in Tid, NEW n \in Node, Keeps(t, n), ~next[n].mark
  PROVE  n \in LinkedNodes
BY DEF TypeOK, Nodes, Keeps, LinkedNodes

(* A node an operation keeps has not been freed. *)
LEMMA KeptNotFree ==
  ASSUME TypeOK, Nodes, NEW t \in Tid, NEW n \in Node, Keeps(t, n)
  PROVE  status[n] # "free" /\ (n \notin LinkedNodes => status[n] \in {"unlinked", "retired"})
BY DEF TypeOK, Nodes, Keeps, LinkedNodes

(* The marked and the unmarked pointers of a field. *)
LEMMA Fields ==
  /\ \A n : pointTo(n).ptr = n /\ ~pointTo(n).mark /\ marked(n).ptr = n /\ marked(n).mark
  /\ \A n, m : (pointTo(n) = pointTo(m) \/ marked(n) = marked(m)) => n = m
  /\ \A n \in Node \union {Head, Tail, NULL} : pointTo(n) \in Field /\ marked(n) \in Field
  /\ \A f \in Field : f = IF f.mark THEN marked(f.ptr) ELSE pointTo(f.ptr)
BY DEF pointTo, marked, Field

-------------------------------------------------------------------------------
(* The list and the reclaimer change in seven ways only. *)
Quiet == UNCHANGED <<next, key, status, active, waiting>>

Begins(t) ==
    /\ t \notin active /\ active' = active \union {t}
    /\ \E n \in Node \union {NULL} :
          /\ n \in Node => status[n] = "free" /\ \A u \in Tid : newNode[u] # n
          /\ \A m \in Node : m # n => key'[m] = key[m]
    /\ UNCHANGED <<next, status, waiting>>

Unlinks(t) ==
    /\ prev[t] \in LinkedNodes \union {Head} /\ curr[t] \in LinkedNodes
    /\ next[prev[t]] = pointTo(curr[t]) /\ next[curr[t]] = marked(nxt[t])
    /\ store(prev[t], pointTo(nxt[t])) /\ unlink(curr[t])
    /\ UNCHANGED <<key, active>>

Retires(t) ==
    /\ pc[t] \in Retiring /\ curr[t] \in Node /\ status[curr[t]] = "unlinked"
    /\ status' = [status EXCEPT ![curr[t]] = "retired"]
    /\ UNCHANGED <<next, key, active, waiting>>

Links(t) ==
    /\ prev[t] \in LinkedNodes \union {Head} /\ curr[t] \in LinkedNodes \union {Tail}
    /\ newNode[t] \in Node /\ status[newNode[t]] = "free"
    /\ next[prev[t]] = pointTo(curr[t])
    /\ keyOf(prev[t]) < key[newNode[t]] /\ key[newNode[t]] < keyOf(curr[t])
    /\ key[newNode[t]] = op[t].key /\ op[t] \in Operation
    /\ next' = [next EXCEPT ![newNode[t]] = pointTo(curr[t]), ![prev[t]] = pointTo(newNode[t])]
    /\ status' = [status EXCEPT ![newNode[t]] = "linked"]
    /\ newNode' = [newNode EXCEPT ![t] = NULL]
    /\ UNCHANGED <<key, active, waiting>>

Marks(t) ==
    /\ curr[t] \in LinkedNodes /\ next[curr[t]] = pointTo(nxt[t]) /\ key[curr[t]] = op[t].key
    /\ store(curr[t], marked(nxt[t]))
    /\ UNCHANGED <<key, status, active, waiting>>

Ends(t) ==
    /\ active' = active \ {t}
    /\ waiting' = [n \in Node |-> waiting[n] \ {t}]
    /\ UNCHANGED <<next, key, status>>

Frees(n) ==
    /\ status[n] = "retired" /\ waiting[n] = {}
    /\ status' = [status EXCEPT ![n] = "free"]
    /\ next' = [next EXCEPT ![n] = pointTo(NULL)]
    /\ key' = [key EXCEPT ![n] = KEY_MIN]
    /\ UNCHANGED <<active, waiting>>

Local == TypeOK /\ Calls /\ Nodes /\ NewNodes /\ Chain /\ Searches /\ OneRetires

(* What a CAS on prev finds there when it succeeds. *)
LEMMA PrevIsLinked ==
  ASSUME Local, NEW t \in Tid, pc[t] \in {"check", "unlink", "link", "eraseUnlink"},
         holds(prev[t], pointTo(curr[t])), prev[t] # Root
  PROVE  /\ prev[t] \in LinkedNodes \union {Head}
         /\ curr[t] \in LinkedNodes \union {Tail}
         /\ next[prev[t]].ptr = curr[t] /\ ~next[prev[t]].mark
<1> USE DEF Local
<1>1. pc[t] \in Working /\ t \in active
  BY DEF Working, Outside, Calls, CallOf
<1>2. prev[t] # NULL /\ Keeps(t, prev[t])
  BY <1>1 DEF Searches, SearchOf
<1>3. prev[t] \in Node \union {Head}
  BY <1>2 DEF TypeOK
<1>4. next[prev[t]].ptr = curr[t] /\ ~next[prev[t]].mark
  BY Fields DEF holds
<1>5. prev[t] \in LinkedNodes \union {Head}
  BY <1>2, <1>3, <1>4, UnmarkedIsLinked
<1>6. QED BY <1>4, <1>5 DEF Chain

(* Each step of an operation has one of these effects. *)
LEMMA UnlinkEffect ==
  ASSUME Local, NEW t \in Tid, search_unlink(t) \/ erase_unlink(t)
  PROVE  IF holds(prev[t], pointTo(curr[t])) THEN Unlinks(t) ELSE Quiet
<1>1. CASE holds(prev[t], pointTo(curr[t]))
  <2>1. pc[t] \in {"unlink", "eraseUnlink"} /\ Tail \notin Node
    BY HMListAssumption DEF search_unlink, erase_unlink
  <2>2. prev[t] # Root /\ curr[t] \in Node /\ next[curr[t]] = marked(nxt[t])
    BY <2>1 DEF Local, Searches, SearchOf
  <2>3. prev[t] \in LinkedNodes \union {Head} /\ curr[t] \in LinkedNodes
    BY <1>1, <2>1, <2>2, PrevIsLinked
  <2>4. QED BY <1>1, <2>2, <2>3 DEF search_unlink, erase_unlink, Unlinks, holds
<1>2. QED BY <1>1 DEF search_unlink, erase_unlink, Quiet

(* The CAS of doInsert links the new node between two neighbours, or fails and *)
(* changes nothing.                                                        *)
LEMMA LinkEffect ==
  ASSUME Local, NEW t \in Tid, insert_link(t)
  PROVE  IF holds(prev[t], pointTo(curr[t])) THEN Links(t) ELSE Quiet
<1> USE DEF Local
<1>1. CASE holds(prev[t], pointTo(curr[t]))
  <2>1. pc[t] = "link" /\ prev[t] # Root /\ op[t].key < keyOf(curr[t])
        /\ keyOf(prev[t]) < op[t].key
    BY DEF insert_link, Searches, SearchOf, Working
  <2>2. /\ prev[t] \in LinkedNodes \union {Head} /\ curr[t] \in LinkedNodes \union {Tail}
    BY <1>1, <2>1, PrevIsLinked
  <2>3. newNode[t] \in Node /\ newNode[t] # NULL
    BY <2>1 DEF TypeOK
  <2>4. status[newNode[t]] = "free" /\ key[newNode[t]] = op[t].key
    BY <2>3 DEF NewNodes
  <2>5. op[t] \in Operation
    BY <2>1 DEF TypeOK, Calls, CallOf, Outside
  <2>6. QED BY <1>1, <2>1, <2>2, <2>3, <2>4, <2>5 DEF insert_link, reclaimer, Links, holds
<1>2. QED BY <1>1 DEF insert_link, reclaimer, Quiet

(* The first CAS of erase marks a linked node with the key of the call, or fails. *)
LEMMA MarkEffect ==
  ASSUME Local, NEW t \in Tid, erase_mark(t)
  PROVE  IF holds(curr[t], pointTo(nxt[t])) THEN Marks(t) ELSE Quiet
<1> USE DEF Local
<1>1. CASE holds(curr[t], pointTo(nxt[t]))
  <2>1. pc[t] = "mark" /\ t \in active
    BY DEF erase_mark, Calls, CallOf, Outside
  <2>2. curr[t] \in Node /\ keyOf(curr[t]) = op[t].key /\ Keeps(t, curr[t])
    BY <2>1 DEF Searches, SearchOf
  <2>3. curr[t] \in LinkedNodes
    BY <1>1, <2>2, Fields, UnmarkedIsLinked DEF holds
  <2>4. QED BY <1>1, <2>2, <2>3, KeyOf DEF erase_mark, reclaimer, Marks, holds
<1>2. QED BY <1>1 DEF erase_mark, reclaimer, Quiet

(* Each step of an operation, startOp aside, has one of these effects or none. *)
LEMMA StepEffects ==
  ASSUME Local, NEW t \in Tid, step(t)
  PROVE  Quiet \/ Unlinks(t) \/ Retires(t) \/ Links(t) \/ Marks(t) \/ Ends(t)
<1>1. CASE search_start(t) \/ search_load(t) \/ search_reload(t) \/ search_check(t)
           \/ insert_readVal(t)
  BY <1>1
  DEF search_start, search_load, search_reload, search_check, insert_readVal, list, reclaimer, Quiet
<1>2. CASE search_retire(t) \/ erase_retire(t)
  BY <1>2
  DEF Local, search_retire, erase_retire, goto, reclaimer, Retires, OneRetires, Retiring
<1>3. CASE endOp(t)
  BY <1>3 DEF endOp, list, Ends
<1>4. QED BY <1>1, <1>2, <1>3, UnlinkEffect, LinkEffect, MarkEffect DEF step

(* So has the beginning of one, and the reclaimer has its own. *)
LEMMA OtherEffects ==
  /\ \A t \in Tid : TypeOK /\ Calls /\ startOp(t) => Begins(t)
  /\ \A n \in Node : free(n) => Frees(n)
<1>1. ASSUME NEW t \in Tid, TypeOK, Calls, startOp(t) PROVE Begins(t)
  <2>1. t \notin active
    BY <1>1 DEF startOp, goto, Calls, CallOf, Outside
  <2>2. ASSUME UNCHANGED key PROVE Begins(t)
    BY <1>1, <2>1, <2>2, HMListAssumption DEF startOp, Begins
  <2>3. ASSUME NEW n \in Node, NEW k, status[n] = "free", \A u \in Tid : newNode[u] # n,
               key' = [key EXCEPT ![n] = k]
        PROVE  Begins(t)
    BY <1>1, <2>1, <2>3 DEF startOp, Begins, TypeOK
  <2>4. QED BY <1>1, <2>2, <2>3 DEF startOp
<1>2. ASSUME NEW n \in Node, free(n) PROVE Frees(n)
  BY <1>2 DEF free, Frees, reclaimer
<1>3. QED BY <1>1, <1>2

-------------------------------------------------------------------------------
(* An empty list has what the invariant asks of it. *)
THEOREM InitIInv == Init => IInv
<1> SUFFICES ASSUME Init PROVE IInv
  OBVIOUS
<1> USE HMListAssumption DEF Init
<1>1. /\ next \in [Node \union {Root, Head, Tail} -> Field]
      /\ next[Root] = pointTo(Head) /\ next[Head] = pointTo(Tail) /\ next[Tail] = pointTo(NULL)
  BY Fields
<1>2. TypeOK
  BY <1>1 DEF TypeOK, Key, KEY_MIN
<1>3. LinkedNodes = {} /\ set = {}
  BY DEF LinkedNodes, set, InList
<1>4. Chain
  <2>1. next[Head].ptr = Tail /\ keyOf(Head) < keyOf(Tail)
    BY <1>1, Fields, KeyOf DEF KEY_MIN, KEY_MAX
  <2>2. QED BY <1>3, <2>1 DEF Chain
<1>5. Calls /\ NewNodes /\ Searches /\ OneRetires /\ Seen
  BY DEF Calls, CallOf, NewNodes, Searches, SearchOf, OneRetires, Seen, SeenOf,
         Outside, Working, Retiring
<1>6. Nodes /\ Frozen /\ MarkedErased
  BY <1>1, <1>3, Fields DEF Nodes, Frozen, MarkedErased
<1>7. QED BY <1>2, <1>4, <1>5, <1>6 DEF IInv

-------------------------------------------------------------------------------
(* One thread's step leaves what the others have alone. *)
Same(u) ==
    /\ pc'[u] = pc[u] /\ op'[u] = op[u] /\ newNode'[u] = newNode[u] /\ answer'[u] = answer[u]
    /\ prev'[u] = prev[u] /\ curr'[u] = curr[u] /\ nxt'[u] = nxt[u] /\ cmark'[u] = cmark[u]
    /\ u \in active' <=> u \in active

(* A step of one thread leaves the locals of the others as they are.       *)
LEMMA OthersSame ==
  /\ \A t \in Tid : TypeOK /\ (startOp(t) \/ step(t)) => \A u \in Tid \ {t} : Same(u)
  /\ \A n \in Node : free(n) => \A u \in Tid : Same(u)
<1> USE DEF Same, goto, reclaimer, search, call
<1>1. ASSUME NEW t \in Tid, TypeOK, startOp(t), NEW u \in Tid \ {t} PROVE Same(u)
  BY <1>1 DEF startOp, TypeOK
<1>2. ASSUME NEW t \in Tid, TypeOK, step(t), NEW u \in Tid \ {t} PROVE Same(u)
  <2> USE <1>2 DEF TypeOK
  <2>1. CASE search_start(t) \/ search_load(t) \/ search_reload(t)
    BY <2>1 DEF search_start, search_load, search_reload
  <2>2. CASE search_check(t)
    BY <2>2 DEF search_check, search_return
  <2>3. CASE search_unlink(t) \/ search_retire(t)
    BY <2>3 DEF search_unlink, search_retire
  <2>4. CASE insert_link(t) \/ erase_mark(t)
    BY <2>4, ZenonT(30) DEF insert_link, erase_mark
  <2>5. CASE erase_unlink(t) \/ erase_retire(t)
    BY <2>5 DEF erase_unlink, erase_retire
  <2>6. CASE endOp(t) \/ insert_readVal(t)
    BY <2>6 DEF endOp, insert_readVal
  <2>7. QED BY <2>1, <2>2, <2>3, <2>4, <2>5, <2>6 DEF step
<1>3. ASSUME NEW n \in Node, free(n), NEW u \in Tid PROVE Same(u)
  BY <1>3 DEF free
<1>4. QED BY <1>1, <1>2, <1>3

(* Whatever a step does, *)
EffectOf(t) ==
    Quiet \/ Begins(t) \/ Unlinks(t) \/ Retires(t) \/ Links(t) \/ Marks(t) \/ Ends(t)
Effect == (\E t \in Tid : EffectOf(t)) \/ (\E n \in Node : Frees(n))
Elsewhere(u) == (\E t \in Tid \ {u} : EffectOf(t)) \/ (\E n \in Node : Frees(n))

(* Every step of the specification has an effect of one of the seven kinds. *)
LEMMA NextHasEffect ==
  /\ \A t \in Tid : Local /\ (startOp(t) \/ step(t)) => EffectOf(t)
  /\ Local /\ Next => Effect
BY StepEffects, OtherEffects DEF Next, Effect, EffectOf, Local

(* an operation keeps its nodes, with their keys, and those that it finds  *)
(* marked with their pointers; a node out of the list does not come back.  *)
LEMMA StepKeeps ==
  ASSUME TypeOK, Nodes, Effect, NEW u \in Tid, u \in active, u \in active',
         NEW n \in Node, Keeps(u, n)
  PROVE  /\ Keeps(u, n)'
         /\ key'[n] = key[n]
         /\ next[n].mark => next'[n] = next[n]
         /\ status'[n] = "linked" => status[n] = "linked"
<1> DEFINE Kept == /\ Keeps(u, n)' /\ key'[n] = key[n]
                   /\ next[n].mark => next'[n] = next[n]
                   /\ status'[n] = "linked" => status[n] = "linked"
<1> SUFFICES Kept
  OBVIOUS
<1> USE DEF TypeOK, Nodes, Keeps
<1>0. status[n] # "free"
  BY KeptNotFree
<1>1. CASE Quiet
  BY <1>1 DEF Quiet
<1>2. ASSUME NEW t \in Tid, Begins(t) PROVE Kept
  BY <1>0, <1>2 DEF Begins
<1>3. ASSUME NEW t \in Tid, Unlinks(t) PROVE Kept
  BY <1>3, Fields DEF Unlinks, unlink, store, LinkedNodes
<1>4. ASSUME NEW t \in Tid, Retires(t) PROVE Kept
  BY <1>4 DEF Retires
<1>5. ASSUME NEW t \in Tid, Links(t) PROVE Kept
  BY <1>0, <1>5, Fields DEF Links
<1>6. ASSUME NEW t \in Tid, Marks(t) PROVE Kept
  BY <1>6, Fields DEF Marks, store
<1>7. ASSUME NEW t \in Tid, Ends(t) PROVE Kept
  BY <1>7 DEF Ends
<1>8. ASSUME NEW m \in Node, Frees(m) PROVE Kept
  BY <1>0, <1>8 DEF Frees
<1>9. QED BY <1>1, <1>2, <1>3, <1>4, <1>5, <1>6, <1>7, <1>8 DEF Effect, EffectOf

-------------------------------------------------------------------------------
(* The states of the nodes. *)
LEMMA NodesStep ==
  ASSUME Local, Effect
  PROVE  Nodes'
<1> USE DEF Local, TypeOK, Nodes
<1>0. Root \notin LinkedNodes \union {Head} /\ Tail \notin LinkedNodes \union {Head}
      /\ Root \notin Node /\ Tail \notin Node /\ Head \notin Node
  BY HMListAssumption DEF LinkedNodes
<1>1. CASE Quiet
  BY <1>1 DEF Quiet
<1>2. ASSUME NEW t \in Tid, Begins(t) PROVE Nodes'
  BY <1>2 DEF Begins
<1>3. ASSUME NEW t \in Tid, Unlinks(t) PROVE Nodes'
  <2>1. next'[curr[t]] = next[curr[t]] /\ next[curr[t]].mark
    BY <1>3, Fields DEF Unlinks, store
  <2>2. \A n \in Node \union {Root, Head, Tail} :
           n # prev[t] => next'[n] = next[n]
    BY <1>3 DEF Unlinks, store
  <2>3. next'[prev[t]] = pointTo(nxt[t])
    BY <1>3, <1>0 DEF Unlinks, store, LinkedNodes
  <2>4. /\ next'[Root] = pointTo(Head) /\ next'[Tail] = pointTo(NULL) /\ ~next'[Head].mark
    BY <1>0, <1>3, <2>2, <2>3, Fields DEF Unlinks
  <2>5. \A n \in Node : status'[n] = IF n = curr[t] THEN "unlinked" ELSE status[n]
    BY <1>3 DEF Unlinks, unlink
  <2>6. \A n \in Node : waiting'[n] = IF n = curr[t] THEN active ELSE waiting[n]
    BY <1>3 DEF Unlinks, unlink
  <2>7. prev[t] \in Node => status[prev[t]] = "linked"
    BY <1>0, <1>3 DEF Unlinks, LinkedNodes
  <2>8. key' = key /\ active' = active
    BY <1>3 DEF Unlinks
  <2>9. QED BY <2>1, <2>2, <2>4, <2>5, <2>6, <2>7, <2>8
<1>4. ASSUME NEW t \in Tid, Retires(t) PROVE Nodes'
  BY <1>4 DEF Retires
<1>5. ASSUME NEW t \in Tid, Links(t) PROVE Nodes'
  <2>1. \A n \in Node \union {Root, Head, Tail} :
           next'[n] = IF n = prev[t] THEN pointTo(newNode[t])
                      ELSE IF n = newNode[t] THEN pointTo(curr[t]) ELSE next[n]
    BY <1>5 DEF Links
  <2>2. \A n \in Node : status'[n] = IF n = newNode[t] THEN "linked" ELSE status[n]
    BY <1>5 DEF Links
  <2>3. key[newNode[t]] \in Key /\ newNode[t] \in Node /\ status[newNode[t]] = "free"
    BY <1>5 DEF Links, Operation
  <2>4. prev[t] \in Node => status[prev[t]] = "linked"
    BY <1>0, <1>5 DEF Links, LinkedNodes
  <2>5. /\ next'[Root] = pointTo(Head) /\ next'[Tail] = pointTo(NULL) /\ ~next'[Head].mark
    BY <1>0, <1>5, <2>1, Fields DEF Links
  <2>6. key' = key /\ active' = active /\ waiting' = waiting
    BY <1>5 DEF Links
  <2>7. QED BY <2>1, <2>2, <2>3, <2>4, <2>5, <2>6
<1>6. ASSUME NEW t \in Tid, Marks(t) PROVE Nodes'
  BY <1>0, <1>6, Fields DEF Marks, store, LinkedNodes
<1>7. ASSUME NEW t \in Tid, Ends(t) PROVE Nodes'
  BY <1>7 DEF Ends
<1>8. ASSUME NEW n \in Node, Frees(n) PROVE Nodes'
  BY <1>0, <1>8, Fields DEF Frees
<1>9. QED BY <1>1, <1>2, <1>3, <1>4, <1>5, <1>6, <1>7, <1>8 DEF Effect, EffectOf

(* No two nodes of the list have the same key or the same successor. *)
LEMMA OneOfAKind ==
  ASSUME TypeOK, Nodes, Chain,
         NEW n \in LinkedNodes \union {Head}, NEW m \in LinkedNodes \union {Head}
  PROVE  /\ keyOf(n) = keyOf(m) => n = m
         /\ next[n].ptr = next[m].ptr => n = m
<1>1. \A x \in LinkedNodes : x \in Node /\ keyOf(x) = key[x] /\ key[x] \in Key
  BY KeyOf DEF Nodes, LinkedNodes
<1>2. \A x \in LinkedNodes : KEY_MIN < keyOf(x)
  BY <1>1, KeysAreNat
<1>3. \A x \in LinkedNodes \union {Head} : keyOf(x) \in Nat
  BY <1>1, KeysAreNat DEF TypeOK
<1>4. keyOf(n) = keyOf(m) => n = m
  BY <1>1, <1>2, KeysAreNat, KeyOf DEF Chain
<1>5. ASSUME NEW x \in LinkedNodes \union {Head}, NEW y \in LinkedNodes \union {Head},
             next[x].ptr = next[y].ptr
      PROVE  ~(keyOf(x) < keyOf(y))
  <2>1. SUFFICES ASSUME keyOf(x) < keyOf(y) PROVE FALSE
    OBVIOUS
  <2>2. y \in LinkedNodes
    BY <1>2, <1>3, <2>1, KeyOf, KeysAreNat
  <2>3. keyOf(next[x].ptr) <= keyOf(y) /\ keyOf(y) < keyOf(next[y].ptr)
    BY <2>1, <2>2 DEF Chain
  <2>4. next[y].ptr \in Node \union {Head, Tail}
    BY DEF Chain, LinkedNodes
  <2>5. QED BY <1>3, <1>5, <2>3, <2>4, KeysAreNat
<1>6. QED BY <1>3, <1>4, <1>5

(* The chain stays what it is when it does not change, *)
LEMMA ChainSame ==
  ASSUME Chain, LinkedNodes' = LinkedNodes, \A n \in LinkedNodes : key'[n] = key[n],
         \A n \in LinkedNodes \union {Head} : next'[n].ptr = next[n].ptr
  PROVE  Chain'
<1>1. \A n \in LinkedNodes \union {Head, Tail} : keyOf(n)' = keyOf(n)
  <2>1. \A n \in LinkedNodes : n \in Node
    BY DEF LinkedNodes
  <2>2. QED BY <2>1, KeyOf
<1>2. /\ \A n \in LinkedNodes \union {Head} :
            /\ next'[n].ptr \in LinkedNodes \union {Tail}
            /\ keyOf(n)' < keyOf(next[n].ptr)'
            /\ \A x \in LinkedNodes : keyOf(n)' < keyOf(x)' => keyOf(next[n].ptr)' <= keyOf(x)'
      /\ \A n, m \in LinkedNodes : key'[n] = key'[m] => n = m
      /\ \A n \in LinkedNodes \union {Tail} :
            \E m \in LinkedNodes \union {Head} : next'[m].ptr = n
  BY <1>1 DEF Chain
<1>3. QED BY <1>2 DEF Chain, keyOf

(* when a node leaves it, *)
LEMMA ChainRemove ==
  ASSUME TypeOK, Nodes, Chain, key' = key, NEW p \in LinkedNodes \union {Head},
         NEW c \in LinkedNodes, NEW q, next[p].ptr = c, next[c].ptr = q,
         LinkedNodes' = LinkedNodes \ {c}, next'[p].ptr = q,
         \A n \in LinkedNodes \union {Head} : n # p => next'[n].ptr = next[n].ptr
  PROVE  Chain'
<1> DEFINE L == LinkedNodes
<1>1. /\ L \subseteq Node /\ Tail \notin L \union {Head} /\ Head \notin L
      /\ q \in L \union {Tail} /\ q # c
      /\ keyOf(p) < keyOf(c) /\ keyOf(c) < keyOf(q)
  <2>1. q \in L \union {Tail} /\ keyOf(p) < keyOf(c) /\ keyOf(c) < keyOf(q)
    BY DEF Chain
  <2>2. L \subseteq Node /\ Tail \notin L \union {Head} /\ Head \notin L
    BY HMListAssumption DEF LinkedNodes
  <2>3. keyOf(c) \in Nat
    BY <2>2, KeysAreNat
  <2>4. QED BY <2>1, <2>2, <2>3
<1>2. \A n \in L \union {Head, Tail} : keyOf(n)' = keyOf(n) /\ keyOf(n) \in Nat
  BY <1>1, KeyOf, KeysAreNat
<1>3. \A n \in (L \ {c}) \union {Head} : n # p => next'[n].ptr = next[n].ptr /\ next[n].ptr # c
  BY OneOfAKind
<1>4. ASSUME NEW x \in L \ {c}, keyOf(p) < keyOf(x) PROVE keyOf(q) <= keyOf(x)
  <2>1. keyOf(c) <= keyOf(x)
    BY <1>4 DEF Chain
  <2>2. keyOf(c) # keyOf(x)
    BY <1>4, OneOfAKind
  <2>3. keyOf(c) < keyOf(x)
    BY <1>1, <1>2, <2>1, <2>2
  <2>4. QED BY <2>3 DEF Chain
<1>5. \A n \in (L \ {c}) \union {Head} : \E m \in (L \ {c}) \union {Tail} :
        /\ next'[n].ptr = m /\ keyOf(n)' < keyOf(m)'
        /\ \A x \in L \ {c} : keyOf(n)' < keyOf(x)' => keyOf(m)' <= keyOf(x)'
  <2>1. ASSUME NEW n \in (L \ {c}) \union {Head}, n # p
        PROVE  \E m \in (L \ {c}) \union {Tail} :
                  /\ next'[n].ptr = m /\ keyOf(n)' < keyOf(m)'
                  /\ \A x \in L \ {c} : keyOf(n)' < keyOf(x)' => keyOf(m)' <= keyOf(x)'
    <3>1. /\ next[n].ptr \in L \union {Tail} /\ keyOf(n) < keyOf(next[n].ptr)
          /\ \A x \in L : keyOf(n) < keyOf(x) => keyOf(next[n].ptr) <= keyOf(x)
      BY <2>1 DEF Chain
    <3>2. QED BY <1>2, <1>3, <2>1, <3>1
  <2>2. keyOf(p)' < keyOf(q)'
    BY <1>1, <1>2
  <2>3. \A x \in L \ {c} : keyOf(p)' < keyOf(x)' => keyOf(q)' <= keyOf(x)'
    BY <1>1, <1>2, <1>4
  <2>4. QED BY <1>1, <2>1, <2>2, <2>3
<1>6. \A n \in (L \ {c}) \union {Tail} : \E m \in (L \ {c}) \union {Head} : next'[m].ptr = n
  <2>1. ASSUME NEW n \in (L \ {c}) \union {Tail}, n # q
        PROVE  \E m \in (L \ {c}) \union {Head} : next'[m].ptr = n
    <3>1. PICK m \in L \union {Head} : next[m].ptr = n
      BY <2>1 DEF Chain
    <3>2. m # c /\ m # p
      BY <1>1, <2>1, <3>1
    <3>3. QED BY <3>1, <3>2
  <2>2. p \in (L \ {c}) \union {Head}
    BY <1>1, <1>2
  <2>3. QED BY <2>1, <2>2
<1>7. \A n, m \in L \ {c} : key'[n] = key'[m] => n = m
  BY DEF Chain
<1>8. \A n \in (LinkedNodes \union {Head})' :
        /\ (next[n].ptr)' \in (LinkedNodes \union {Tail})'
        /\ keyOf(n)' < keyOf(next[n].ptr)'
        /\ \A x \in LinkedNodes' : keyOf(n)' < keyOf(x)' => keyOf(next[n].ptr)' <= keyOf(x)'
  <2>1. \A n, m : next'[n].ptr = m => keyOf(next[n].ptr)' = keyOf(m)'
    BY DEF keyOf
  <2>2. QED BY <1>5, <2>1
<1>9. QED BY <1>6, <1>7, <1>8 DEF Chain

(* and when one is put into it. *)
LEMMA ChainInsert ==
  ASSUME TypeOK, Nodes, Chain, key' = key, NEW p \in LinkedNodes \union {Head},
         NEW x \in Node, x \notin LinkedNodes, LinkedNodes' = LinkedNodes \union {x},
         NEW c, next[p].ptr = c, keyOf(p) < key[x], key[x] < keyOf(c),
         next'[p].ptr = x, next'[x].ptr = c,
         \A n \in LinkedNodes \union {Head} : n # p => next'[n].ptr = next[n].ptr
  PROVE  Chain'
<1> DEFINE L == LinkedNodes
<1>1. L \subseteq Node /\ Tail \notin L \union {Head} /\ Head \notin L /\ x # Head /\ x # Tail
      /\ c \in L \union {Tail}
  BY HMListAssumption DEF LinkedNodes, Chain
<1>2. \A n \in L \union {Head, Tail, x} : keyOf(n)' = keyOf(n) /\ keyOf(n) \in Nat
  BY <1>1, KeyOf, KeysAreNat
<1>3. keyOf(p) < keyOf(x) /\ keyOf(x) < keyOf(c) /\ keyOf(x) = key[x]
  BY KeyOf
<1>4. \A y \in L : /\ keyOf(p) < keyOf(y) => keyOf(x) < keyOf(y)
                   /\ keyOf(x) < keyOf(y) => keyOf(c) <= keyOf(y)
                   /\ keyOf(x) # keyOf(y)
  <2>1. \A y \in L : keyOf(p) < keyOf(y) => keyOf(c) <= keyOf(y)
    BY DEF Chain
  <2>2. QED BY <1>1, <1>2, <1>3, <2>1
<1>5. \A n \in L \union {Head} : n # p => next'[n].ptr = next[n].ptr /\ next[n].ptr # c
  BY OneOfAKind
<1>6. ASSUME NEW n \in L \union {Head}, n # p, keyOf(n) < keyOf(x)
      PROVE  keyOf(next[n].ptr) <= keyOf(x)
  <2>1. keyOf(n) < keyOf(p)
    <3>1. keyOf(n) # keyOf(p)
      BY <1>6, OneOfAKind
    <3>2. n \in L => ~(keyOf(p) < keyOf(n))
      BY <1>2, <1>4, <1>6
    <3>3. n = Head => ~(keyOf(p) < keyOf(n))
      BY <1>2, KeyOf DEF KEY_MIN
    <3>4. QED BY <1>2, <1>6, <3>1, <3>2, <3>3
  <2>2. p \in L
    BY <1>2, <2>1, KeyOf DEF KEY_MIN
  <2>3. keyOf(next[n].ptr) <= keyOf(p) /\ next[n].ptr \in L \union {Tail}
    BY <1>6, <2>1, <2>2 DEF Chain
  <2>4. QED BY <1>2, <1>3, <2>3
<1>7. \A n \in L \union {x, Head} : \E m \in L \union {x, Tail} :
        /\ next'[n].ptr = m /\ keyOf(n)' < keyOf(m)'
        /\ \A y \in L \union {x} : keyOf(n)' < keyOf(y)' => keyOf(m)' <= keyOf(y)'
  <2>1. ASSUME NEW n \in L \union {Head}, n # p
        PROVE  \E m \in L \union {x, Tail} :
                  /\ next'[n].ptr = m /\ keyOf(n)' < keyOf(m)'
                  /\ \A y \in L \union {x} : keyOf(n)' < keyOf(y)' => keyOf(m)' <= keyOf(y)'
    <3>1. /\ next[n].ptr \in L \union {Tail} /\ keyOf(n) < keyOf(next[n].ptr)
          /\ \A y \in L : keyOf(n) < keyOf(y) => keyOf(next[n].ptr) <= keyOf(y)
      BY <2>1 DEF Chain
    <3>2. QED BY <1>2, <1>5, <1>6, <2>1, <3>1
  <2>2. \A y \in L \union {x} : keyOf(p)' < keyOf(y)' => keyOf(x)' <= keyOf(y)'
    BY <1>2, <1>4
  <2>3. \A y \in L \union {x} : keyOf(x)' < keyOf(y)' => keyOf(c)' <= keyOf(y)'
    BY <1>1, <1>2, <1>4
  <2>4. QED BY <1>1, <1>2, <1>3, <2>1, <2>2, <2>3
<1>8. \A n \in L \union {x, Tail} : \E m \in L \union {x, Head} : next'[m].ptr = n
  <2>1. ASSUME NEW n \in L \union {Tail}, n # c
        PROVE  \E m \in L \union {x, Head} : next'[m].ptr = n
    <3>1. PICK m \in L \union {Head} : next[m].ptr = n
      BY <2>1 DEF Chain
    <3>2. QED BY <2>1, <3>1
  <2>2. QED BY <2>1
<1>9. \A n, m \in L \union {x} : key'[n] = key'[m] => n = m
  <2>1. \A y \in L : key[y] # key[x]
    BY <1>1, <1>3, <1>4, KeyOf
  <2>2. QED BY <2>1 DEF Chain
<1>10. \A n \in (LinkedNodes \union {Head})' :
        /\ (next[n].ptr)' \in (LinkedNodes \union {Tail})'
        /\ keyOf(n)' < keyOf(next[n].ptr)'
        /\ \A y \in LinkedNodes' : keyOf(n)' < keyOf(y)' => keyOf(next[n].ptr)' <= keyOf(y)'
  <2>1. \A n, m : next'[n].ptr = m => keyOf(next[n].ptr)' = keyOf(m)'
    BY DEF keyOf
  <2>2. QED BY <1>7, <2>1
<1>11. QED
  <2>1. L \union {x, Head} = LinkedNodes' \union {Head}
        /\ L \union {x, Tail} = LinkedNodes' \union {Tail}
    OBVIOUS
  <2>2. QED BY <1>8, <1>9, <1>10, <2>1 DEF Chain

(* The linked nodes stay a chain in the order of their keys, whatever a step does. *)
LEMMA ChainStep ==
  ASSUME Local, Effect
  PROVE  Chain'
<1> USE DEF Local, TypeOK, Nodes
<1>0. Head \notin Node /\ Tail \notin Node
  BY HMListAssumption
<1>1. CASE Quiet
  BY <1>1, ChainSame DEF Quiet, LinkedNodes
<1>2. ASSUME NEW t \in Tid, Begins(t) PROVE Chain'
  <2>1. LinkedNodes' = LinkedNodes /\ \A n \in LinkedNodes : key'[n] = key[n]
    BY <1>2 DEF Begins, LinkedNodes
  <2>2. QED BY <1>2, <2>1, ChainSame DEF Begins
<1>3. ASSUME NEW t \in Tid, Unlinks(t) PROVE Chain'
  <2>1. LinkedNodes' = LinkedNodes \ {curr[t]}
    BY <1>3 DEF Unlinks, unlink, LinkedNodes
  <2>2. /\ next'[prev[t]].ptr = nxt[t] /\ next[prev[t]].ptr = curr[t] /\ next[curr[t]].ptr = nxt[t]
        /\ \A n \in LinkedNodes \union {Head} : n # prev[t] => next'[n].ptr = next[n].ptr
    BY <1>3, Fields DEF Unlinks, store, LinkedNodes
  <2>3. prev[t] \in LinkedNodes \union {Head} /\ curr[t] \in LinkedNodes /\ key' = key
    BY <1>3 DEF Unlinks
  <2>4. QED BY <2>1, <2>2, <2>3, ChainRemove
<1>4. ASSUME NEW t \in Tid, Retires(t) PROVE Chain'
  <2>1. LinkedNodes' = LinkedNodes
    BY <1>4 DEF Retires, LinkedNodes
  <2>2. QED BY <1>4, <2>1, ChainSame DEF Retires
<1>5. ASSUME NEW t \in Tid, Links(t) PROVE Chain'
  <2>1. LinkedNodes' = LinkedNodes \union {newNode[t]} /\ newNode[t] \notin LinkedNodes
    BY <1>5 DEF Links, LinkedNodes
  <2>2. prev[t] # newNode[t]
    BY <1>0, <1>5, <2>1 DEF Links
  <2>3. /\ next'[prev[t]].ptr = newNode[t] /\ next'[newNode[t]].ptr = curr[t]
        /\ next[prev[t]].ptr = curr[t]
    BY <1>5, <2>2, Fields DEF Links, LinkedNodes
  <2>4. \A n \in LinkedNodes \union {Head} : n # prev[t] => next'[n].ptr = next[n].ptr
    BY <1>0, <1>5, <2>1 DEF Links, LinkedNodes
  <2>5. /\ prev[t] \in LinkedNodes \union {Head} /\ newNode[t] \in Node /\ key' = key
        /\ keyOf(prev[t]) < key[newNode[t]] /\ key[newNode[t]] < keyOf(curr[t])
    BY <1>5 DEF Links
  <2>6. QED BY <2>1, <2>3, <2>4, <2>5, ChainInsert
<1>6. ASSUME NEW t \in Tid, Marks(t) PROVE Chain'
  <2>1. LinkedNodes' = LinkedNodes
    BY <1>6 DEF Marks, LinkedNodes
  <2>2. \A n \in LinkedNodes \union {Head} : next'[n].ptr = next[n].ptr
    BY <1>6, Fields DEF Marks, store, LinkedNodes
  <2>3. QED BY <1>6, <2>1, <2>2, ChainSame DEF Marks
<1>7. ASSUME NEW t \in Tid, Ends(t) PROVE Chain'
  BY <1>7, ChainSame DEF Ends, LinkedNodes
<1>8. ASSUME NEW n \in Node, Frees(n) PROVE Chain'
  <2>1. LinkedNodes' = LinkedNodes /\ n \notin LinkedNodes
    BY <1>8 DEF Frees, LinkedNodes
  <2>2. \A m \in LinkedNodes \union {Head} : next'[m].ptr = next[m].ptr
    BY <1>0, <1>8, <2>1 DEF Frees, LinkedNodes
  <2>3. \A m \in LinkedNodes : key'[m] = key[m]
    BY <1>8, <2>1 DEF Frees, LinkedNodes
  <2>4. QED BY <2>1, <2>2, <2>3, ChainSame
<1>9. QED BY <1>1, <1>2, <1>3, <1>4, <1>5, <1>6, <1>7, <1>8 DEF Effect, EffectOf

(* A node that leaves the list still points into it, and the pointers of   *)
(* those that have left it do not change while an operation keeps them.    *)
LEMMA FrozenStep ==
  ASSUME Local, Frozen, Effect
  PROVE  Frozen'
<1> USE DEF Local
<1>1. Nodes'
  BY NodesStep
<1>2. ASSUME NEW n \in Node, NEW u \in waiting[n], u \in active'
      PROVE  (next[n].ptr \in Node \union {Tail} /\ Keeps(u, next[n].ptr))'
  <2>1. u \in active /\ u \in Tid /\ Keeps(u, n)
    BY <1>2 DEF Nodes, TypeOK, Keeps
  <2>2. next[n].mark
    BY <1>2 DEF Nodes, TypeOK
  <2>3. next'[n] = next[n]
    BY <1>2, <2>1, <2>2, StepKeeps
  <2>4. next[n].ptr \in Node \union {Tail} /\ Keeps(u, next[n].ptr)
    BY <1>2 DEF Frozen
  <2>5. \A m \in Node : Keeps(u, m) => Keeps(u, m)'
    BY <1>2, <2>1, StepKeeps
  <2>6. QED BY <2>3, <2>4, <2>5 DEF Keeps
<1>3. ASSUME NEW t \in Tid, Unlinks(t), NEW c, c = curr[t], NEW u
      PROVE  (next[c].ptr \in Node \union {Tail} /\ Keeps(u, next[c].ptr))'
  <2>1. /\ c \in LinkedNodes /\ next[c].ptr \in LinkedNodes \union {Tail}
        /\ keyOf(c) < keyOf(next[c].ptr) /\ c \in Node
    BY <1>3 DEF Unlinks, Chain, LinkedNodes
  <2>2. next[c].ptr # c
    BY <2>1, KeysAreNat
  <2>3. next'[c] = next[c]
    BY <1>3, <2>1, Fields DEF Unlinks, store, TypeOK
  <2>4. \A m \in LinkedNodes : m # c => m \in Node /\ status'[m] = "linked"
    BY <1>3 DEF Unlinks, unlink, TypeOK, LinkedNodes
  <2>5. Tail \notin Node
    BY HMListAssumption
  <2>6. QED BY <2>1, <2>2, <2>3, <2>4, <2>5 DEF Keeps
<1>4. \/ \A n \in Node : waiting'[n] \subseteq waiting[n]
      \/ \E t \in Tid : Unlinks(t) /\ \A n \in Node : n # curr[t] => waiting'[n] = waiting[n]
  BY DEF Effect, EffectOf, Quiet, Begins, Unlinks, unlink, Retires, Links, Marks, Ends, Frees, TypeOK
<1>5. \A n \in Node : \A u \in waiting'[n] : u \in active'
  BY <1>1 DEF Nodes
<1>6. ASSUME NEW n \in Node, NEW u \in waiting'[n]
      PROVE  (next[n].ptr \in Node \union {Tail} /\ Keeps(u, next[n].ptr))'
  BY <1>2, <1>3, <1>4, <1>5, <1>6
<1>7. QED BY <1>6 DEF Frozen

(* A node that waits to be linked is left alone. *)
LEMMA NewNodeStays ==
  ASSUME Local, NEW u \in Tid, newNode[u] # NULL, Elsewhere(u) \/ (EffectOf(u) /\ ~Links(u))
  PROVE  status'[newNode[u]] = "free" /\ key'[newNode[u]] = key[newNode[u]]
<1> USE DEF Local, TypeOK
<1> DEFINE n == newNode[u]
<1>0. n \in Node /\ status[n] = "free" /\ \A t \in Tid : newNode[t] = n => t = u
  BY DEF NewNodes
<1>1. CASE Quiet
  BY <1>0, <1>1 DEF Quiet
<1>2. ASSUME NEW t \in Tid, Begins(t) PROVE status'[n] = "free" /\ key'[n] = key[n]
  BY <1>0, <1>2 DEF Begins
<1>3. ASSUME NEW t \in Tid, Unlinks(t) \/ Retires(t) \/ Marks(t)
      PROVE  status'[n] = "free" /\ key'[n] = key[n]
  BY <1>0, <1>3 DEF Unlinks, unlink, Retires, Marks, LinkedNodes
<1>4. ASSUME NEW t \in Tid, Links(t), t # u PROVE status'[n] = "free" /\ key'[n] = key[n]
  BY <1>0, <1>4 DEF Links
<1>5. ASSUME NEW t \in Tid, Ends(t) PROVE status'[n] = "free" /\ key'[n] = key[n]
  BY <1>0, <1>5 DEF Ends
<1>6. ASSUME NEW m \in Node, Frees(m) PROVE status'[n] = "free" /\ key'[n] = key[n]
  BY <1>0, <1>6 DEF Frees
<1>7. QED BY <1>1, <1>2, <1>3, <1>4, <1>5, <1>6 DEF Elsewhere, EffectOf

(* An unlinked node waits for the one thread that retires it. *)
LEMMA UnlinkedStays ==
  ASSUME Local, NEW u \in Tid, pc[u] \in Retiring, Elsewhere(u)
  PROVE  status'[curr[u]] = "unlinked"
BY DEF Local, TypeOK, OneRetires, Elsewhere, EffectOf, Quiet, Begins, Unlinks, unlink, Retires,
       Links, Marks, Ends, Frees, LinkedNodes

-------------------------------------------------------------------------------
(* The types. *)
LEMMA NoticeType ==
  ASSUME seen \in [Tid -> SUBSET BOOLEAN], NEW k, NEW b \in BOOLEAN, notice(k, b)
  PROVE  seen' \in [Tid -> SUBSET BOOLEAN]
<1>1. \A t \in Tid : seen[t] \union {b} \in SUBSET BOOLEAN /\ seen[t] \in SUBSET BOOLEAN
  OBVIOUS
<1>2. QED BY <1>1 DEF notice

(* Every step keeps the variables in their types.                          *)
LEMMA TypeStep ==
  ASSUME Local, Next
  PROVE  TypeOK'
<1> USE DEF Local
<1>0. \A f : f \in Field => f.ptr \in Node \union {Head, Tail, NULL} /\ f.mark \in BOOLEAN
  BY DEF Field
<1>1. ASSUME NEW t \in Tid, startOp(t) PROVE TypeOK'
  <2>1. t \in Tid /\ UNCHANGED <<next, status, waiting, search, answer>>
        /\ pc' = [pc EXCEPT ![t] = "search"] /\ active' = active \union {t}
    BY <1>1 DEF startOp, goto
  <2>2. PICK k \in Key :
          /\ \/ /\ op' \in {[op EXCEPT ![t] = [kind |-> kind, key |-> k]] :
                               kind \in {"contains", "erase"}}
                /\ UNCHANGED <<newNode, key>>
             \/ \E n \in Node :
                  /\ op' = [op EXCEPT ![t] = [kind |-> "insert", key |-> k]]
                  /\ newNode' = [newNode EXCEPT ![t] = n]
                  /\ key' = [key EXCEPT ![n] = k]
          /\ seen' = [seen EXCEPT ![t] = {(k \in set)}]
    BY <1>1 DEF startOp
  <2>3. \A o \in {"contains", "insert", "erase"} : [kind |-> o, key |-> k] \in Operation
    BY DEF Operation
  <2>4. op' \in [Tid -> Operation \union {NONE}]
    BY <2>2, <2>3 DEF TypeOK
  <2>5. newNode' \in [Tid -> Node \union {NULL}] /\ key' \in [Node -> Key \union {KEY_MIN}]
        /\ \A u \in Tid : u # t => newNode'[u] = newNode[u]
    BY <2>2 DEF TypeOK
  <2>6. seen' \in [Tid -> SUBSET BOOLEAN]
    <3>1. {(k \in set)} \in SUBSET BOOLEAN
      OBVIOUS
    <3>2. QED BY <2>2, <3>1 DEF TypeOK
  <2>7. QED BY <2>1, <2>4, <2>5, <2>6 DEF TypeOK, search
<1>2. ASSUME NEW t \in Tid, search_start(t) PROVE TypeOK'
  BY <1>0, <1>2, HMListAssumption, Fields
  DEF search_start, goto, list, reclaimer, call, TypeOK, Nodes
<1>3. ASSUME NEW t \in Tid, search_load(t) PROVE TypeOK'
  BY <1>0, <1>3, HMListAssumption DEF search_load, goto, list, reclaimer, call, TypeOK
<1>4. ASSUME NEW t \in Tid, search_reload(t) PROVE TypeOK'
  BY <1>4 DEF search_reload, goto, list, reclaimer, call, search, TypeOK
<1>5. ASSUME NEW t \in Tid, search_check(t) PROVE TypeOK'
  <2>1. pc[t] = "check" /\ op[t] \in Operation /\ op[t].key \in Key /\ curr[t] # NULL
    BY <1>5 DEF search_check, TypeOK, Calls, CallOf, Outside, Operation
  <2>2. CASE UNCHANGED search
    <3>1. UNCHANGED <<list, reclaimer, op, seen, curr, nxt, cmark>>
      BY <1>5, <2>2 DEF search_check, search
    <3>2. \E q \in {"search", "load", "unlink", "link", "mark", "end"} :
             /\ pc' = [pc EXCEPT ![t] = q]
             /\ q = "link" => newNode' = newNode /\ op[t].kind = "insert" /\ answer[t] = NONE
      <4>1. ASSUME NEW found, search_return(t, found)
            PROVE  \E q \in {"link", "mark", "end"} :
                      /\ pc' = [pc EXCEPT ![t] = q]
                      /\ q = "link" => newNode' = newNode /\ op[t].kind = "insert" /\ answer[t] = NONE
        BY <4>1 DEF search_return, goto
      <4>2. QED BY <1>5, <4>1 DEF search_check, goto
    <3>3. newNode[t] # NULL \/ ~(op[t].kind = "insert" /\ answer[t] = NONE)
      BY <2>1 DEF Calls, CallOf, Outside
    <3>4. answer' \in [Tid -> BOOLEAN \union {NONE}]
      BY <1>5 DEF search_check, search_return, TypeOK
    <3>5. newNode' \in [Tid -> Node \union {NULL}]
          /\ \A u \in Tid : u # t => newNode'[u] = newNode[u]
      BY <1>5 DEF search_check, search_return, TypeOK
    <3>6. /\ pc' \in [Tid -> {"idle", "search", "load", "reload", "check", "unlink", "retire",
                             "link", "mark", "eraseUnlink", "eraseRetire", "end", "readVal"}]
          /\ \A u \in Tid : /\ pc'[u] \notin {"idle", "search", "end"} => curr'[u] # NULL
                            /\ pc'[u] = "link" => newNode'[u] # NULL
      <4>1. PICK q \in {"search", "load", "unlink", "link", "mark", "end"} :
               /\ pc' = [pc EXCEPT ![t] = q]
               /\ q = "link" => newNode' = newNode /\ op[t].kind = "insert" /\ answer[t] = NONE
        BY <3>2
      <4>2. /\ \A u \in Tid : u # t => pc'[u] = pc[u]
            /\ pc'[t] = q /\ curr' = curr
            /\ q = "link" => newNode'[t] # NULL
        BY <3>1, <3>3, <4>1 DEF TypeOK
      <4>3. pc' \in [Tid -> {"idle", "search", "load", "reload", "check", "unlink", "retire",
                             "link", "mark", "eraseUnlink", "eraseRetire", "end", "readVal"}]
        BY <4>1 DEF TypeOK
      <4>4. QED BY <2>1, <3>5, <4>2, <4>3 DEF TypeOK
    <3>7. QED BY <2>2, <3>1, <3>4, <3>5, <3>6 DEF list, reclaimer, search, TypeOK
  <2>3. CASE /\ keyOf(curr[t]) < op[t].key
             /\ goto(t, "check", "load")
             /\ prev' = [prev EXCEPT ![t] = curr[t]]
             /\ curr' = [curr EXCEPT ![t] = nxt[t]]
             /\ UNCHANGED <<nxt, cmark, answer, newNode>>
    <3>1. curr[t] # Tail
      BY <2>1, <2>3, KeyOf, KeysAreNat
    <3>2. nxt[t] # NULL
      BY <2>1, <3>1 DEF Searches, SearchOf
    <3>3. curr[t] \in Node \union {Head}
      BY <2>1, <3>1 DEF TypeOK
    <3>4. QED BY <1>5, <2>1, <2>3, <3>2, <3>3 DEF search_check, goto, list, reclaimer, TypeOK
  <2>4. QED BY <1>5, <2>2, <2>3 DEF search_check, search
<1>6. ASSUME NEW t \in Tid, search_unlink(t) \/ erase_unlink(t) PROVE TypeOK'
  <2>1. next' \in [Node \union {Root, Head, Tail} -> Field]
    BY <1>6, Fields DEF search_unlink, erase_unlink, store, TypeOK
  <2>2. status' \in [Node -> {"free", "linked", "unlinked", "retired"}]
        /\ waiting' \in [Node -> SUBSET Tid]
    BY <1>6 DEF search_unlink, erase_unlink, unlink, TypeOK
  <2>3. /\ pc' = [pc EXCEPT ![t] = pc'[t]]
        /\ pc[t] \in {"unlink", "eraseUnlink"} /\ pc'[t] \in {"retire", "eraseRetire", "search"}
        /\ UNCHANGED <<key, active, search, call, seen>>
    BY <1>6 DEF search_unlink, erase_unlink, goto, TypeOK
  <2>4. QED BY <2>1, <2>2, <2>3 DEF search, call, TypeOK
<1>7. ASSUME NEW t \in Tid, search_retire(t) PROVE TypeOK'
  <2>1. pc[t] = "retire" /\ nxt[t] \in Node \union {Tail} /\ nxt[t] # NULL
    BY <1>7, HMListAssumption DEF search_retire, goto, Searches, SearchOf
  <2>2. QED BY <1>7, <2>1 DEF search_retire, goto, reclaimer, call, TypeOK
<1>8. ASSUME NEW t \in Tid, insert_link(t) PROVE TypeOK'
  <2>1. pc[t] = "link" /\ newNode[t] \in Node /\ curr[t] # NULL
    BY <1>8 DEF insert_link, TypeOK
  <2>2. next' \in [Node \union {Root, Head, Tail} -> Field]
    <3>1. pointTo(curr[t]) \in Field /\ pointTo(newNode[t]) \in Field
      BY <2>1, Fields DEF TypeOK
    <3>2. QED BY <1>8, <3>1 DEF insert_link, TypeOK
  <2>3. status' \in [Node -> {"free", "linked", "unlinked", "retired"}]
        /\ answer' \in [Tid -> BOOLEAN \union {NONE}]
    BY <1>8 DEF insert_link, TypeOK
  <2>4. newNode' \in [Tid -> Node \union {NULL}]
        /\ \A u \in Tid : u # t => newNode'[u] = newNode[u]
    <3>1. newNode' = newNode \/ newNode' = [newNode EXCEPT ![t] = NULL]
      BY <1>8 DEF insert_link
    <3>2. newNode \in [Tid -> Node \union {NULL}]
      BY DEF TypeOK
    <3>3. QED BY <3>1, <3>2
  <2>5. /\ pc' = [pc EXCEPT ![t] = pc'[t]] /\ pc'[t] \in {"end", "search"}
        /\ UNCHANGED <<key, reclaimer, op, search>>
    BY <1>8 DEF insert_link, goto, TypeOK
  <2>6. seen' \in [Tid -> SUBSET BOOLEAN]
    BY <1>8, NoticeType DEF insert_link, TypeOK
  <2>7. QED BY <2>2, <2>3, <2>4, <2>5, <2>6, ZenonT(60) DEF reclaimer, search, TypeOK
<1>9. ASSUME NEW t \in Tid, erase_mark(t) PROVE TypeOK'
  <2>1. next' \in [Node \union {Root, Head, Tail} -> Field]
    <3>1. marked(nxt[t]) \in Field
      BY Fields DEF TypeOK
    <3>2. QED BY <1>9, <3>1 DEF erase_mark, store, TypeOK
  <2>2. answer' \in [Tid -> BOOLEAN \union {NONE}]
    BY <1>9 DEF erase_mark, TypeOK
  <2>3. PICK q \in {"eraseUnlink", "search"} :
           pc[t] = "mark" /\ pc' = [pc EXCEPT ![t] = q]
           /\ UNCHANGED <<key, status, reclaimer, op, newNode, search>>
    BY <1>9 DEF erase_mark, goto
  <2>4. seen' \in [Tid -> SUBSET BOOLEAN]
    BY <1>9, NoticeType DEF erase_mark, TypeOK
  <2>5. \A u \in Tid : /\ pc'[u] \notin {"idle", "search", "end"} => curr'[u] # NULL
                      /\ pc'[u] = "link" => newNode'[u] # NULL
    BY <2>3 DEF search, TypeOK
  <2>6. pc' \in [Tid -> {"idle", "search", "load", "reload", "check", "unlink", "retire",
                        "link", "mark", "eraseUnlink", "eraseRetire", "end", "readVal"}]
    BY <2>3 DEF TypeOK
  <2>7. QED BY <2>1, <2>2, <2>3, <2>4, <2>5, <2>6 DEF reclaimer, search, TypeOK
<1>10. ASSUME NEW t \in Tid, erase_retire(t) PROVE TypeOK'
  BY <1>10 DEF erase_retire, goto, reclaimer, call, search, TypeOK
<1>11. ASSUME NEW t \in Tid, endOp(t) PROVE TypeOK'
  <2>1. pc[t] = "end" /\ curr[t] # NULL
    BY <1>11 DEF endOp, goto, Calls, CallOf
  <2>2. /\ pc' = [pc EXCEPT ![t] = pc'[t]] /\ pc'[t] \in {"readVal", "idle"}
        /\ pc'[t] = "readVal" => curr'[t] = curr[t]
        /\ curr' \in [Tid -> Node \union {Head, Tail, NULL}]
        /\ \A u \in Tid : u # t => curr'[u] = curr[u]
    BY <1>11 DEF endOp, goto, TypeOK
  <2>3. QED BY <1>11, <2>1, <2>2 DEF endOp, list, TypeOK
<1>12. ASSUME NEW t \in Tid, insert_readVal(t) PROVE TypeOK'
  BY <1>12 DEF insert_readVal, goto, list, reclaimer, call, TypeOK
<1>13. ASSUME NEW n \in Node, free(n) PROVE TypeOK'
  BY <1>13, Fields DEF free, reclaimer, call, search, TypeOK
<1>14. QED BY <1>1, <1>2, <1>3, <1>4, <1>5, <1>6, <1>7, <1>8, <1>9, <1>10, <1>11, <1>12, <1>13
         DEF Next, step

(* The calls. *)
LEMMA CallsStep ==
  ASSUME Local, Next
  PROVE  Calls'
<1> USE DEF Local
<1>0. NONE \notin BOOLEAN /\ NONE \notin Operation
  BY HMListAssumption
<1>1. ASSUME NEW u \in Tid, Same(u) PROVE CallOf(u)'
  BY <1>1 DEF Same, Calls, CallOf
<1>2. ASSUME NEW t \in Tid, startOp(t) PROVE CallOf(t)'
  <2>1. /\ pc[t] = "idle" /\ pc'[t] = "search" /\ t \in active'
        /\ answer'[t] = NONE
    BY <1>2 DEF startOp, goto, Calls, CallOf, Outside, TypeOK
  <2>2. newNode[t] = NULL
    BY <2>1 DEF Calls, CallOf, Outside
  <2>3. /\ op'[t] \in Operation
        /\ newNode'[t] # NULL <=> op'[t].kind = "insert"
    <3>1. ASSUME NEW k \in Key, NEW kind \in {"contains", "erase"}, UNCHANGED newNode,
                 op' = [op EXCEPT ![t] = [kind |-> kind, key |-> k]]
          PROVE  op'[t] \in Operation /\ (newNode'[t] # NULL <=> op'[t].kind = "insert")
      BY <2>2, <3>1 DEF TypeOK, Operation
    <3>2. ASSUME NEW k \in Key, NEW n \in Node, newNode' = [newNode EXCEPT ![t] = n],
                 op' = [op EXCEPT ![t] = [kind |-> "insert", key |-> k]]
          PROVE  op'[t] \in Operation /\ (newNode'[t] # NULL <=> op'[t].kind = "insert")
      BY <3>2, HMListAssumption DEF TypeOK, Operation
    <3>3. QED BY <1>2, <3>1, <3>2 DEF startOp
  <2>4. QED BY <1>0, <2>1, <2>3 DEF CallOf, Outside
<1>3. ASSUME NEW t \in Tid, search_start(t) \/ search_load(t) \/ search_reload(t) PROVE CallOf(t)'
  <2>1. /\ pc[t] \in {"search", "load", "reload"}
        /\ pc'[t] \in {"search", "load", "reload", "check"}
        /\ UNCHANGED <<active, op, newNode, answer>>
    BY <1>3 DEF search_start, search_load, search_reload, goto, reclaimer, call, TypeOK
  <2>2. QED BY <2>1 DEF Calls, CallOf, Outside
<1>4. ASSUME NEW t \in Tid, search_check(t) PROVE CallOf(t)'
  <2>1. pc[t] = "check" /\ curr[t] # NULL /\ UNCHANGED <<active, op>>
    BY <1>4 DEF search_check, reclaimer, TypeOK
  <2>2. /\ t \in active /\ op[t] # NONE
        /\ newNode[t] # NULL <=> op[t].kind = "insert" /\ answer[t] = NONE
        /\ answer[t] # NONE => op[t].kind = "erase" /\ answer[t] = TRUE
    BY <2>1 DEF Calls, CallOf, Outside
  <2>3. CASE UNCHANGED <<answer, newNode>> /\ pc'[t] \in {"search", "load", "unlink"}
    BY <2>1, <2>2, <2>3 DEF CallOf, Outside
  <2>4. ASSUME NEW found \in BOOLEAN, search_return(t, found), UNCHANGED search PROVE CallOf(t)'
    <3>1. /\ pc'[t] \in {"end", "link", "mark"} /\ curr'[t] # NULL
          /\ pc'[t] = "end" => answer'[t] # NONE
          /\ pc'[t] # "end" => answer'[t] = NONE /\ answer[t] = NONE
          /\ pc'[t] = "link" => op[t].kind = "insert"
          /\ pc'[t] = "mark" => op[t].kind = "erase"
      BY <1>0, <2>1, <2>4 DEF search_return, goto, search, TypeOK
    <3>2. newNode'[t] # NULL <=> op[t].kind = "insert" /\ answer'[t] = NONE
      BY <1>0, <2>2, <2>4 DEF search_return, TypeOK
    <3>3. QED BY <2>1, <2>2, <3>1, <3>2 DEF CallOf, Outside
  <2>5. (keyOf(curr[t]) = op[t].key) \in BOOLEAN
    OBVIOUS
  <2>6. QED BY <1>4, <2>3, <2>4, <2>5 DEF search_check, goto, TypeOK
<1>5. ASSUME NEW t \in Tid, search_unlink(t) \/ search_retire(t) \/ erase_unlink(t)
      PROVE  CallOf(t)'
  <2>1. /\ UNCHANGED <<active, op, newNode, answer>>
        /\ \/ pc[t] = "unlink" /\ pc'[t] \in {"retire", "search"}
           \/ pc[t] = "retire" /\ pc'[t] = "load"
           \/ pc[t] = "eraseUnlink" /\ pc'[t] \in {"eraseRetire", "search"}
    BY <1>5 DEF search_unlink, search_retire, erase_unlink, goto, reclaimer, call, TypeOK
  <2>2. QED BY <2>1 DEF Calls, CallOf, Outside
<1>6. ASSUME NEW t \in Tid, insert_link(t) \/ erase_mark(t) PROVE CallOf(t)'
  <2>1. /\ pc[t] \in {"link", "mark"} /\ curr'[t] # NULL /\ UNCHANGED <<active, op>>
        /\ pc'[t] \in {"end", "eraseUnlink"} => answer'[t] = TRUE
        /\ pc'[t] = "end" => op[t].kind = "insert"
        /\ pc'[t] = "eraseUnlink" => op[t].kind = "erase"
    BY <1>6, ZenonT(30) DEF insert_link, erase_mark, goto, reclaimer, search, TypeOK, Calls, CallOf
  <2>2. /\ op[t].kind \in {"insert", "erase"} /\ op[t] # NONE /\ answer[t] = NONE /\ t \in active
        /\ newNode[t] # NULL <=> op[t].kind = "insert"
    BY <2>1 DEF Calls, CallOf, Outside
  <2>3. \/ pc'[t] = "search" /\ UNCHANGED <<newNode, answer>>
        \/ pc'[t] = "end" /\ newNode'[t] = NULL
        \/ pc'[t] = "eraseUnlink" /\ UNCHANGED newNode
    BY <1>6, ZenonT(30) DEF insert_link, erase_mark, goto, TypeOK
  <2>4. QED BY <1>0, <2>1, <2>2, <2>3 DEF CallOf, Outside
<1>7. ASSUME NEW t \in Tid, erase_retire(t) PROVE CallOf(t)'
  <2>1. pc[t] = "eraseRetire" /\ pc'[t] = "end" /\ curr'[t] # NULL
        /\ UNCHANGED <<active, op, newNode, answer>>
    BY <1>7 DEF erase_retire, goto, reclaimer, call, search, TypeOK
  <2>2. QED BY <2>1 DEF Calls, CallOf, Outside
<1>8. ASSUME NEW t \in Tid, endOp(t) PROVE CallOf(t)'
  <2>1. /\ pc[t] = "end" /\ pc'[t] \in Outside /\ t \notin active' /\ op'[t] = NONE
        /\ answer'[t] = NONE /\ prev'[t] = NULL /\ nxt'[t] = NULL /\ UNCHANGED newNode
        /\ pc'[t] = "idle" => curr'[t] = NULL
    BY <1>8 DEF endOp, goto, TypeOK, Outside
  <2>2. newNode[t] = NULL
    BY <2>1 DEF Calls, CallOf
  <2>3. QED BY <2>1, <2>2 DEF CallOf, Outside
<1>9. ASSUME NEW t \in Tid, insert_readVal(t) PROVE CallOf(t)'
  <2>1. /\ pc[t] = "readVal" /\ pc'[t] = "idle" /\ curr'[t] = NULL
        /\ UNCHANGED <<active, op, newNode, answer, prev, nxt>>
    BY <1>9 DEF insert_readVal, goto, reclaimer, call, TypeOK
  <2>2. QED BY <2>1 DEF Calls, CallOf, Outside
<1>10. ASSUME NEW t \in Tid, startOp(t) \/ step(t) PROVE Calls'
  <2>1. CallOf(t)'
    BY <1>2, <1>3, <1>4, <1>5, <1>6, <1>7, <1>8, <1>9, <1>10 DEF step
  <2>2. \A u \in Tid \ {t} : CallOf(u)'
    BY <1>1, <1>10, OthersSame
  <2>3. QED BY <2>1, <2>2 DEF Calls
<1>11. ASSUME NEW n \in Node, free(n) PROVE Calls'
  BY <1>1, <1>11, OthersSame DEF Calls
<1>12. QED BY <1>10, <1>11 DEF Next

(* The nodes that are not linked yet. *)
LEMMA NewNodesStep ==
  ASSUME Local, Next
  PROVE  NewNodes'
<1> USE DEF Local
<1> DEFINE Own(t) == newNode'[t] # NULL =>
                        status'[newNode'[t]] = "free" /\ key'[newNode'[t]] = op'[t].key
<1>0. NULL \notin Node
  BY HMListAssumption
<1>1. ASSUME NEW u \in Tid, Same(u), Elsewhere(u) PROVE Own(u)
  <2>1. newNode'[u] = newNode[u] /\ op'[u] = op[u]
    BY <1>1 DEF Same
  <2>2. newNode[u] # NULL => key[newNode[u]] = op[u].key
    BY DEF NewNodes
  <2>3. newNode[u] # NULL => status'[newNode[u]] = "free" /\ key'[newNode[u]] = key[newNode[u]]
    BY <1>1, NewNodeStays
  <2>4. QED BY <2>1, <2>2, <2>3
<1>2. ASSUME NEW t \in Tid, startOp(t)
      PROVE  /\ Own(t)
             /\ newNode'[t] # NULL => \A u \in Tid : newNode[u] # newNode'[t]
  <2>1. newNode[t] = NULL
    BY <1>2 DEF startOp, goto, Calls, CallOf, Outside
  <2>2. CASE UNCHANGED newNode
    BY <2>1, <2>2
  <2>3. ASSUME NEW k \in Key, NEW n \in Node, status[n] = "free", \A u \in Tid : newNode[u] # n,
               op' = [op EXCEPT ![t] = [kind |-> "insert", key |-> k]],
               newNode' = [newNode EXCEPT ![t] = n], key' = [key EXCEPT ![n] = k]
        PROVE  /\ Own(t)
               /\ newNode'[t] # NULL => \A u \in Tid : newNode[u] # newNode'[t]
    BY <1>2, <2>3 DEF startOp, TypeOK
  <2>4. QED BY <1>2, <2>2, <2>3 DEF startOp
<1>3. ASSUME NEW t \in Tid, step(t)
      PROVE  newNode'[t] # NULL => newNode'[t] = newNode[t] /\ op'[t] = op[t]
  <2>1. CASE search_start(t) \/ search_load(t) \/ search_reload(t) \/ search_unlink(t)
             \/ search_retire(t) \/ erase_unlink(t) \/ erase_retire(t) \/ insert_readVal(t)
    BY <2>1 DEF search_start, search_load, search_reload, search_unlink, search_retire,
                erase_unlink, erase_retire, insert_readVal, call
  <2>2. CASE search_check(t) \/ insert_link(t) \/ erase_mark(t)
    BY <2>2 DEF search_check, search_return, insert_link, erase_mark, TypeOK
  <2>3. CASE endOp(t)
    BY <2>3 DEF endOp, goto, Calls, CallOf
  <2>4. QED BY <1>3, <2>1, <2>2, <2>3 DEF step
<1>4. ASSUME NEW t \in Tid, step(t) PROVE Own(t)
  <2>1. SUFFICES ASSUME newNode'[t] # NULL PROVE Own(t)
    OBVIOUS
  <2>2. newNode'[t] = newNode[t] /\ op'[t] = op[t] /\ newNode[t] # NULL
    BY <1>3, <1>4, <2>1
  <2>3. ~Links(t)
    BY <2>1 DEF Links, TypeOK
  <2>4. EffectOf(t)
    BY <1>4, NextHasEffect
  <2>5. status'[newNode[t]] = "free" /\ key'[newNode[t]] = key[newNode[t]]
    BY <2>2, <2>3, <2>4, NewNodeStays
  <2>6. QED BY <2>2, <2>5 DEF NewNodes
<1>5. ASSUME NEW t \in Tid, startOp(t) \/ step(t) PROVE NewNodes'
  <2>1. \A u \in Tid \ {t} : Same(u) /\ Elsewhere(u)
    BY <1>5, OthersSame, NextHasEffect DEF Elsewhere
  <2>2. \A u \in Tid : Own(u)
    BY <1>1, <1>2, <1>4, <1>5, <2>1
  <2>3. ASSUME NEW u \in Tid, NEW v \in Tid, newNode'[u] # NULL, newNode'[v] = newNode'[u], u # v
        PROVE  FALSE
    <3>1. \A w \in Tid : w # t => newNode'[w] = newNode[w]
      BY <2>1 DEF Same
    <3>2. CASE step(t)
      <4>1. newNode'[u] = newNode[u] /\ newNode'[v] = newNode[v]
        BY <1>3, <2>3, <3>1, <3>2
      <4>2. QED BY <2>3, <4>1 DEF NewNodes
    <3>3. CASE startOp(t)
      BY <1>2, <2>3, <3>1, <3>3 DEF NewNodes
    <3>4. QED BY <1>5, <3>2, <3>3
  <2>4. QED BY <2>2, <2>3 DEF NewNodes
<1>6. ASSUME NEW n \in Node, free(n) PROVE NewNodes'
  <2>1. \A u \in Tid : Same(u) /\ Elsewhere(u)
    BY <1>6, OthersSame, OtherEffects DEF Elsewhere
  <2>2. \A u \in Tid : Own(u) /\ newNode'[u] = newNode[u]
    BY <1>1, <2>1 DEF Same
  <2>3. QED BY <2>2 DEF NewNodes
<1>7. QED BY <1>5, <1>6 DEF Next

(* Who unlinks a node retires it. *)
LEMMA OneRetiresStep ==
  ASSUME Local, Next
  PROVE  OneRetires'
<1> USE DEF Local
<1> DEFINE Own(u) == pc'[u] \in Retiring => curr'[u] \in Node /\ status'[curr'[u]] = "unlinked"
<1>1. ASSUME NEW u \in Tid, Same(u), Elsewhere(u) PROVE Own(u)
  BY <1>1, UnlinkedStays DEF Same, OneRetires
<1>2. ASSUME NEW t \in Tid, startOp(t) \/ step(t)
      PROVE  \/ pc'[t] \notin Retiring
             \/ Unlinks(t) /\ UNCHANGED curr
  <2>1. CASE startOp(t) \/ search_start(t) \/ search_load(t) \/ search_reload(t)
             \/ search_retire(t) \/ erase_retire(t) \/ endOp(t) \/ insert_readVal(t)
    BY <2>1 DEF startOp, search_start, search_load, search_reload, search_retire, erase_retire,
                endOp, insert_readVal, goto, Retiring, TypeOK
  <2>2. CASE search_check(t) \/ insert_link(t) \/ erase_mark(t)
    BY <2>2, ZenonT(30) DEF search_check, search_return, insert_link, erase_mark, goto, Retiring, TypeOK
  <2>3. CASE search_unlink(t) \/ erase_unlink(t)
    <3>1. CASE holds(prev[t], pointTo(curr[t]))
      BY <2>3, <3>1, UnlinkEffect DEF search_unlink, erase_unlink, search
    <3>2. CASE ~holds(prev[t], pointTo(curr[t]))
      BY <2>3, <3>2 DEF search_unlink, erase_unlink, goto, Retiring, TypeOK
    <3>3. QED BY <3>1, <3>2
  <2>4. QED BY <1>2, <2>1, <2>2, <2>3 DEF step
<1>3. ASSUME NEW t \in Tid, Unlinks(t), UNCHANGED curr PROVE Own(t)
  BY <1>3 DEF Unlinks, unlink, LinkedNodes, TypeOK
<1>4. ASSUME NEW t \in Tid, startOp(t) \/ step(t) PROVE OneRetires'
  <2>1. \A u \in Tid \ {t} : Same(u) /\ Elsewhere(u)
    BY <1>4, OthersSame, NextHasEffect DEF Elsewhere
  <2>2. \A u \in Tid : Own(u)
    BY <1>1, <1>2, <1>3, <1>4, <2>1
  <2>3. ASSUME NEW u \in Tid, NEW v \in Tid, u # v, pc'[u] \in Retiring, pc'[v] \in Retiring
        PROVE  curr'[u] # curr'[v]
    <3>1. \A w \in Tid : w # t => pc'[w] = pc[w] /\ curr'[w] = curr[w]
      BY <2>1 DEF Same
    <3>2. ASSUME NEW w \in Tid, w # t, pc'[w] \in Retiring, pc'[t] \in Retiring
          PROVE  curr'[w] # curr'[t]
      <4>1. curr[t] \in LinkedNodes /\ curr'[t] = curr[t]
        BY <1>2, <1>4, <3>2 DEF Unlinks
      <4>2. status[curr[w]] = "unlinked"
        BY <3>1, <3>2 DEF OneRetires
      <4>3. QED BY <3>1, <3>2, <4>1, <4>2 DEF LinkedNodes
    <3>3. QED BY <2>3, <3>1, <3>2 DEF OneRetires
  <2>4. QED BY <2>2, <2>3 DEF OneRetires
<1>5. ASSUME NEW n \in Node, free(n) PROVE OneRetires'
  <2>1. \A u \in Tid : Same(u) /\ Elsewhere(u)
    BY <1>5, OthersSame, OtherEffects DEF Elsewhere
  <2>2. \A u \in Tid : Own(u) /\ pc'[u] = pc[u] /\ curr'[u] = curr[u]
    BY <1>1, <2>1 DEF Same
  <2>3. QED BY <2>2 DEF OneRetires
<1>6. QED BY <1>4, <1>5 DEF Next

(* What a search has in hand stays good. *)
LEMMA Carries ==
  ASSUME Local, Effect, NEW u \in Tid, u \in active, u \in active',
         NEW n \in Node \union {Root, Head, Tail, NULL}, Keeps(u, n)
  PROVE  /\ Keeps(u, n)'
         /\ n \in Node \union {Head, Tail} => keyOf(n)' = keyOf(n)
         /\ n \in Node /\ next[n].mark => next'[n] = next[n]
<1> USE DEF Local
<1>1. CASE n \in Node
  <2>1. Keeps(u, n)' /\ key'[n] = key[n] /\ (next[n].mark => next'[n] = next[n])
    BY <1>1, StepKeeps
  <2>2. QED BY <1>1, <2>1, KeyOf
<1>2. CASE n \notin Node
  BY <1>2, KeyOf DEF Keeps
<1>3. QED BY <1>1, <1>2

(* What list_search has, before it takes another step. *)
LEMMA Hands ==
  ASSUME Local, NEW t \in Tid, pc[t] \in Working
  PROVE  /\ t \in active /\ op[t] \in Operation /\ op[t].key \in Key
         /\ prev[t] \in Node \union {Root, Head} /\ Keeps(t, prev[t])
         /\ curr[t] \in Node \union {Head, Tail} /\ Keeps(t, curr[t])
         /\ nxt[t] \in Node \union {Head, Tail, NULL} /\ Keeps(t, nxt[t])
         /\ prev[t] = Root => curr[t] = Head
         /\ prev[t] # Root => curr[t] # Head /\ keyOf(prev[t]) < op[t].key
<1> USE DEF Local
<1>1. t \in active /\ op[t] # NONE /\ curr[t] # NULL
  BY DEF Working, Outside, Calls, CallOf, TypeOK
<1>2. op[t] \in Operation /\ op[t].key \in Key
  BY <1>1 DEF TypeOK, Operation
<1>3. QED BY <1>1, <1>2 DEF TypeOK, Searches, SearchOf

(* A step of another thread. *)
LEMMA SearchStays ==
  ASSUME Local, Effect, NEW u \in Tid, Same(u)
  PROVE  SearchOf(u)'
<1> USE DEF Local, Same
<1>0. SearchOf(u) /\ (pc[u] \in Working => curr[u] \in Node \union {Head, Tail})
      /\ \A n, m : next[n] = marked(m) => next[n].mark
  BY Fields DEF Searches, TypeOK, Working
<1>1. CASE u \in active
  <2>1. /\ prev[u] \in Node \union {Root, Head, Tail, NULL} /\ Keeps(u, prev[u])
        /\ curr[u] \in Node \union {Root, Head, Tail, NULL} /\ Keeps(u, curr[u])
        /\ nxt[u] \in Node \union {Root, Head, Tail, NULL} /\ Keeps(u, nxt[u])
    BY <1>1 DEF TypeOK, Searches, SearchOf
  <2>2. /\ Keeps(u, prev[u])' /\ Keeps(u, curr[u])' /\ Keeps(u, nxt[u])'
        /\ prev[u] \in Node \union {Head, Tail} => keyOf(prev[u])' = keyOf(prev[u])
        /\ curr[u] \in Node \union {Head, Tail} => keyOf(curr[u])' = keyOf(curr[u])
        /\ curr[u] \in Node /\ next[curr[u]].mark => next'[curr[u]] = next[curr[u]]
    <3>1. ASSUME NEW n, n \in {prev[u], curr[u], nxt[u]}
          PROVE  /\ Keeps(u, n)'
                 /\ n \in Node \union {Head, Tail} => keyOf(n)' = keyOf(n)
                 /\ n \in Node /\ next[n].mark => next'[n] = next[n]
      BY <1>1, <2>1, <3>1, Carries
    <3>2. QED BY <3>1 DEF Keeps, keyOf
  <2>3. /\ u \in active' => Keeps(u, prev[u])' /\ Keeps(u, curr[u])' /\ Keeps(u, nxt[u])'
        /\ pc'[u] \in Working =>
              /\ prev'[u] # NULL
              /\ prev'[u] = Root => curr'[u] = Head
              /\ prev'[u] # Root => curr'[u] # Head /\ keyOf(prev[u])' < op'[u].key
    BY <1>0, <2>1, <2>2 DEF SearchOf
  <2>4. /\ pc'[u] \in {"unlink", "retire", "eraseUnlink"} =>
              prev'[u] # Root /\ curr'[u] \in Node /\ next'[curr'[u]] = marked(nxt'[u])
        /\ pc'[u] \in {"unlink", "retire"} => nxt'[u] \in Node \union {Tail}
        /\ pc'[u] \in {"reload", "check"} =>
              /\ nxt'[u] # Head /\ (curr'[u] # Tail => nxt'[u] # NULL)
              /\ cmark'[u] => curr'[u] \in Node /\ next'[curr'[u]] = marked(nxt'[u])
    BY <1>0, <2>2 DEF SearchOf
  <2>5. /\ pc'[u] = "link" => prev'[u] # Root /\ op'[u].key < keyOf(curr[u])'
        /\ pc'[u] = "mark" => prev'[u] # Root
        /\ pc'[u] \in {"mark", "eraseUnlink"} => curr'[u] \in Node /\ keyOf(curr[u])' = op'[u].key
    BY <1>0, <2>2 DEF SearchOf, Working
  <2>6. QED BY <2>3, <2>4, <2>5 DEF SearchOf, marked
<1>2. CASE u \notin active
  BY <1>2 DEF Calls, CallOf, SearchOf, Working, Outside
<1>3. QED BY <1>1, <1>2

(* The pointer loaded from a node that an operation keeps. *)
LEMMA LoadKept ==
  ASSUME TypeOK, Nodes, Chain, Frozen, NEW t \in Tid, t \in active,
         NEW n \in Node \union {Head, Tail}, Keeps(t, n)
  PROVE  /\ Keeps(t, next[n].ptr) /\ next[n].ptr # Head
         /\ n # Tail => next[n].ptr \in Node \union {Tail} /\ next[n].ptr # NULL
         /\ next[n].mark => n \in Node /\ next[n] = marked(next[n].ptr)
<1>1. Head \notin Node /\ Tail \notin Node /\ NULL \notin Node /\ Head # NULL /\ Tail # NULL
      /\ Head # Tail
  BY HMListAssumption
<1>2. next[n].mark => n \in Node /\ next[n] = marked(next[n].ptr)
  BY <1>1, Fields DEF Nodes, TypeOK
<1>3. CASE n \in LinkedNodes \union {Head}
  <2>1. next[n].ptr \in LinkedNodes \union {Tail}
    BY <1>3 DEF Chain
  <2>2. QED BY <1>1, <1>2, <2>1 DEF Keeps, LinkedNodes
<1>4. CASE n = Tail
  BY <1>1, <1>4, Fields DEF Nodes, Keeps
<1>5. CASE n \in Node /\ n \notin LinkedNodes
  BY <1>1, <1>2, <1>5 DEF Keeps, LinkedNodes, Frozen
<1>6. QED BY <1>3, <1>4, <1>5

(* The searches. *)
LEMMA SearchesStep ==
  ASSUME Local, Frozen, Next
  PROVE  Searches'
<1> USE DEF Local
<1>0. Root \notin Node \union {Head, Tail, NULL} /\ Head \notin Node \union {Tail, NULL}
      /\ Tail \notin Node /\ NULL \notin Node /\ Tail # NULL
  BY HMListAssumption
<1>1. Effect
  BY NextHasEffect
<1>2. ASSUME NEW t \in Tid, startOp(t) PROVE SearchOf(t)'
  <2>1. /\ pc[t] = "idle" /\ pc'[t] = "search"
        /\ prev'[t] = prev[t] /\ curr'[t] = curr[t] /\ nxt'[t] = nxt[t]
    BY <1>2 DEF startOp, goto, search, TypeOK
  <2>2. prev[t] = NULL /\ curr[t] = NULL /\ nxt[t] = NULL
    BY <2>1 DEF Calls, CallOf, Outside
  <2>3. QED BY <1>0, <2>1, <2>2 DEF SearchOf, Keeps, Working
<1>3. ASSUME NEW t \in Tid, search_start(t) PROVE SearchOf(t)'
  <2>1. /\ pc'[t] = "load" /\ prev'[t] = Root /\ curr'[t] = Head /\ nxt'[t] = NULL
    BY <1>3, Fields DEF search_start, goto, TypeOK, Nodes
  <2>2. QED BY <1>0, <2>1 DEF SearchOf, Keeps, Working
<1>4. ASSUME NEW t \in Tid, search_load(t) PROVE SearchOf(t)'
  <2>1. /\ pc[t] = "load" /\ pc'[t] = "reload"
        /\ nxt'[t] = next[curr[t]].ptr /\ cmark'[t] = next[curr[t]].mark
        /\ UNCHANGED <<next, key, status, active, waiting, prev, curr, op>>
    BY <1>4 DEF search_load, goto, list, reclaimer, call, TypeOK
  <2>2. /\ t \in active /\ op[t] \in Operation /\ op[t].key \in Key
        /\ prev[t] \in Node \union {Root, Head} /\ Keeps(t, prev[t])
        /\ curr[t] \in Node \union {Head, Tail} /\ Keeps(t, curr[t])
        /\ prev[t] = Root => curr[t] = Head
        /\ prev[t] # Root => curr[t] # Head /\ keyOf(prev[t]) < op[t].key
    BY <2>1, Hands DEF Working
  <2>3. /\ Keeps(t, next[curr[t]].ptr) /\ next[curr[t]].ptr # Head
        /\ curr[t] # Tail => next[curr[t]].ptr # NULL
        /\ next[curr[t]].mark => curr[t] \in Node /\ next[curr[t]] = marked(next[curr[t]].ptr)
    BY <2>2, LoadKept
  <2>4. keyOf(prev[t])' = keyOf(prev[t])
    BY <2>1 DEF keyOf
  <2>5. QED BY <1>0, <2>1, <2>2, <2>3, <2>4 DEF SearchOf, Keeps, Working, marked
<1>5. ASSUME NEW t \in Tid, pc[t] \in Working, t \in active',
             op'[t] = op[t], prev'[t] = prev[t], curr'[t] = curr[t], nxt'[t] = nxt[t]
      PROVE  /\ Keeps(t, prev[t])' /\ Keeps(t, curr[t])' /\ Keeps(t, nxt[t])'
             /\ prev'[t] # NULL
             /\ prev'[t] = Root => curr'[t] = Head
             /\ prev'[t] # Root => curr'[t] # Head /\ keyOf(prev[t])' < op'[t].key
             /\ keyOf(curr[t])' = keyOf(curr[t])
             /\ curr[t] \in Node /\ next[curr[t]].mark => next'[curr[t]] = next[curr[t]]
  <2>1. /\ t \in active
        /\ prev[t] \in Node \union {Root, Head} /\ Keeps(t, prev[t])
        /\ curr[t] \in Node \union {Head, Tail} /\ Keeps(t, curr[t])
        /\ nxt[t] \in Node \union {Head, Tail, NULL} /\ Keeps(t, nxt[t])
        /\ prev[t] = Root => curr[t] = Head
        /\ prev[t] # Root => curr[t] # Head /\ keyOf(prev[t]) < op[t].key
    BY <1>5, Hands
  <2>2. ASSUME NEW n, n \in {prev[t], curr[t], nxt[t]}
        PROVE  /\ Keeps(t, n)'
               /\ n \in Node \union {Head, Tail} => keyOf(n)' = keyOf(n)
               /\ n \in Node /\ next[n].mark => next'[n] = next[n]
    BY <1>1, <1>5, <2>1, <2>2, Carries
  <2>3. /\ Keeps(t, prev[t])' /\ Keeps(t, curr[t])' /\ Keeps(t, nxt[t])'
    BY <1>5, <2>2 DEF Keeps
  <2>4. keyOf(curr[t])' = keyOf(curr[t])
    BY <1>5, <2>1, <2>2 DEF keyOf
  <2>5. prev[t] # Root => keyOf(prev[t])' = keyOf(prev[t])
    BY <1>5, <2>1, <2>2 DEF keyOf
  <2>6. curr[t] \in Node /\ next[curr[t]].mark => next'[curr[t]] = next[curr[t]]
    BY <2>2
  <2>7. QED BY <1>0, <1>5, <2>1, <2>3, <2>4, <2>5, <2>6
<1>6. ASSUME NEW t \in Tid, search_reload(t) PROVE SearchOf(t)'
  <2>1. /\ pc[t] = "reload" /\ pc'[t] \in {"check", "search"}
        /\ UNCHANGED <<next, key, status, active, waiting, prev, curr, nxt, cmark, op>>
    BY <1>6 DEF search_reload, goto, list, reclaimer, call, search, TypeOK
  <2>2. SearchOf(t)
    BY DEF Searches
  <2>3. keyOf(prev[t])' = keyOf(prev[t])
    BY <2>1 DEF keyOf
  <2>4. QED BY <2>1, <2>2, <2>3 DEF SearchOf, Keeps, Working, marked
<1>7. ASSUME NEW t \in Tid, search_check(t) PROVE SearchOf(t)'
  <2>0. pc[t] = "check" /\ UNCHANGED <<next, key, status, active, waiting, op>>
    BY <1>7 DEF search_check, list, reclaimer
  <2>1. /\ t \in active /\ op[t] \in Operation /\ op[t].key \in Key
        /\ prev[t] \in Node \union {Root, Head} /\ Keeps(t, prev[t])
        /\ curr[t] \in Node \union {Head, Tail} /\ Keeps(t, curr[t])
        /\ nxt[t] \in Node \union {Head, Tail, NULL} /\ Keeps(t, nxt[t])
        /\ prev[t] = Root => curr[t] = Head
        /\ prev[t] # Root => curr[t] # Head /\ keyOf(prev[t]) < op[t].key
    BY <2>0, Hands DEF Working
  <2>2. /\ nxt[t] # Head /\ (curr[t] # Tail => nxt[t] # NULL)
        /\ cmark[t] => curr[t] \in Node /\ next[curr[t]] = marked(nxt[t])
    BY <2>0 DEF Searches, SearchOf
  <2>3. \A n : keyOf(n)' = keyOf(n)
    BY <2>0 DEF keyOf
  <2>4. op[t].key \in Nat /\ keyOf(curr[t]) \in Nat /\ KEY_MIN < op[t].key /\ op[t].key < KEY_MAX
    BY <2>1, KeysAreNat
  <2>5. CASE UNCHANGED search /\ pc'[t] \in {"search", "end"}
    BY <2>0, <2>1, <2>5 DEF search, SearchOf, Keeps, Working
  <2>6. ASSUME UNCHANGED search, pc'[t] \in {"link", "mark"}, keyOf(curr[t]) >= op[t].key,
               pc'[t] = "mark" <=> keyOf(curr[t]) = op[t].key
        PROVE  SearchOf(t)'
    <3>1. prev[t] # Root
      BY <2>1, <2>4, <2>6, KeyOf
    <3>2. pc'[t] = "mark" => curr[t] \in Node
      BY <2>1, <2>4, <2>6, KeyOf
    <3>3. pc'[t] = "link" => op[t].key < keyOf(curr[t])
      BY <2>4, <2>6
    <3>4. QED BY <1>0, <2>0, <2>1, <2>3, <2>6, <3>1, <3>2, <3>3 DEF search, SearchOf, Keeps, keyOf
  <2>7. ASSUME keyOf(curr[t]) < op[t].key, pc'[t] = "load", prev'[t] = curr[t], curr'[t] = nxt[t],
               UNCHANGED <<nxt, cmark>>
        PROVE  SearchOf(t)'
    BY <1>0, <2>0, <2>1, <2>2, <2>7 DEF SearchOf, Keeps, keyOf
  <2>8. ASSUME UNCHANGED search, pc'[t] = "unlink", cmark[t] PROVE SearchOf(t)'
    <3>1. prev[t] # Root /\ nxt[t] \in Node \union {Tail}
      BY <1>0, <2>1, <2>2, <2>8
    <3>2. QED BY <1>0, <2>0, <2>1, <2>2, <2>3, <2>8, <3>1
              DEF search, SearchOf, Keeps, keyOf, marked
  <2>9. ASSUME search_return(t, keyOf(curr[t]) = op[t].key)
        PROVE  \/ pc'[t] = "end"
               \/ pc'[t] \in {"link", "mark"} /\ (pc'[t] = "mark" <=> keyOf(curr[t]) = op[t].key)
    BY <2>9 DEF search_return, goto, TypeOK
  <2>10. QED BY <1>7, <2>5, <2>6, <2>7, <2>8, <2>9 DEF search_check, goto, search, TypeOK
<1>8. ASSUME NEW t \in Tid, search_unlink(t) \/ erase_unlink(t) PROVE SearchOf(t)'
  <2>1. /\ pc[t] \in {"unlink", "eraseUnlink"}
        /\ \/ pc'[t] \in {"search", "eraseRetire"}
           \/ pc[t] = "unlink" /\ pc'[t] = "retire"
        /\ UNCHANGED <<active, op, prev, curr, nxt, cmark>>
    BY <1>8 DEF search_unlink, erase_unlink, goto, search, call, TypeOK
  <2>2. t \in active'
    BY <2>1, Hands DEF Working
  <2>3. /\ prev[t] # Root /\ curr[t] \in Node /\ next[curr[t]] = marked(nxt[t])
        /\ pc[t] = "unlink" => nxt[t] \in Node \union {Tail}
    BY <2>1 DEF Searches, SearchOf
  <2>4. next'[curr[t]] = marked(nxt[t])
    BY <1>5, <2>1, <2>2, <2>3, Fields DEF Working
  <2>5. QED BY <1>5, <2>1, <2>2, <2>3, <2>4 DEF SearchOf, Working, marked
<1>9. ASSUME NEW t \in Tid, search_retire(t) PROVE SearchOf(t)'
  <2>1. /\ pc[t] = "retire" /\ pc'[t] = "load" /\ curr'[t] = nxt[t]
        /\ UNCHANGED <<active, op, prev, nxt>>
    BY <1>9 DEF search_retire, goto, reclaimer, call, TypeOK
  <2>2. /\ prev[t] # Root /\ nxt[t] \in Node \union {Tail}
    BY <2>1 DEF Searches, SearchOf
  <2>3. /\ t \in active
        /\ prev[t] \in Node \union {Root, Head} /\ Keeps(t, prev[t]) /\ Keeps(t, nxt[t])
        /\ keyOf(prev[t]) < op[t].key
    BY <2>1, <2>2, Hands DEF Working
  <2>4. /\ Keeps(t, prev[t])' /\ keyOf(prev[t])' = keyOf(prev[t])
    <3>1. ASSUME NEW n, n = prev[t] PROVE Keeps(t, n)' /\ keyOf(n)' = keyOf(n)
      BY <1>1, <2>1, <2>2, <2>3, <3>1, Carries
    <3>2. QED BY <2>1, <3>1 DEF Keeps, keyOf
  <2>5. Keeps(t, nxt[t])'
    <3>1. ASSUME NEW n, n = nxt[t] PROVE Keeps(t, n)'
      BY <1>1, <2>1, <2>2, <2>3, <3>1, Carries
    <3>2. QED BY <2>1, <3>1 DEF Keeps
  <2>6. Keeps(t, curr[t])'
    BY <2>1, <2>5 DEF Keeps
  <2>7. QED BY <1>0, <2>1, <2>2, <2>3, <2>4, <2>5, <2>6 DEF SearchOf
<1>10. ASSUME NEW t \in Tid, insert_link(t) \/ erase_mark(t) \/ erase_retire(t) PROVE SearchOf(t)'
  <2>1. /\ pc[t] \in {"link", "mark", "eraseRetire"}
        /\ pc'[t] \in {"search", "end"} \/ (pc[t] = "mark" /\ pc'[t] = "eraseUnlink")
        /\ UNCHANGED <<active, op, prev, curr, nxt, cmark>>
    BY <1>10 DEF insert_link, erase_mark, erase_retire, goto, search, call, reclaimer, TypeOK
  <2>2. t \in active'
    BY <2>1, Hands DEF Working
  <2>3. pc[t] = "mark" => prev[t] # Root /\ curr[t] \in Node /\ keyOf(curr[t]) = op[t].key
    BY DEF Searches, SearchOf
  <2>4. pc'[t] = "eraseUnlink" => next'[curr[t]] = marked(nxt[t])
    BY <1>10, <2>1, <2>3 DEF insert_link, erase_mark, erase_retire, goto, store, TypeOK
  <2>5. QED BY <1>5, <2>1, <2>2, <2>3, <2>4 DEF SearchOf, Working, marked
<1>11. ASSUME NEW t \in Tid, endOp(t) \/ insert_readVal(t) PROVE SearchOf(t)'
  <2>1. pc'[t] \in Outside /\ t \notin active'
    BY <1>11 DEF endOp, insert_readVal, goto, reclaimer, TypeOK, Calls, CallOf, Outside
  <2>2. QED BY <2>1 DEF SearchOf, Outside, Working
<1>12. ASSUME NEW t \in Tid, startOp(t) \/ step(t) PROVE Searches'
  <2>1. SearchOf(t)'
    BY <1>2, <1>3, <1>4, <1>6, <1>7, <1>8, <1>9, <1>10, <1>11, <1>12 DEF step
  <2>2. \A u \in Tid \ {t} : SearchOf(u)'
    BY <1>1, <1>12, OthersSame, SearchStays
  <2>3. QED BY <2>1, <2>2 DEF Searches
<1>13. ASSUME NEW n \in Node, free(n) PROVE Searches'
  BY <1>1, <1>13, OthersSame, SearchStays DEF Searches
<1>14. QED BY <1>12, <1>13 DEF Next

-------------------------------------------------------------------------------
(* The set: a key is in it when an unmarked node of the list has it. *)
LEMMA InSet ==
  /\ \A k : k \in set <=> \E n \in LinkedNodes : ~next[n].mark /\ key[n] = k
  /\ \A k : k \in set' <=> \E n \in LinkedNodes' : ~next'[n].mark /\ key'[n] = k
BY DEF set, InList, LinkedNodes

(* The set stays the same where only marked nodes are unlinked and no mark or *)
(* key of a linked node changes.                                           *)
LEMMA SetSame ==
  ASSUME Local, LinkedNodes' \subseteq LinkedNodes,
         \A n \in LinkedNodes : /\ key'[n] = key[n]
                                /\ next'[n].mark <=> next[n].mark
                                /\ n \notin LinkedNodes' => next[n].mark
  PROVE  set' = set
<1>1. \A k : k \in set' <=> k \in set
  BY InSet
<1>2. QED BY <1>1

(* It changes where a node is linked and where one is marked only. *)
LEMMA SetStays ==
  ASSUME Local,
         \/ Quiet
         \/ \E t \in Tid : Begins(t) \/ Unlinks(t) \/ Retires(t) \/ Ends(t)
         \/ \E n \in Node : Frees(n)
  PROVE  set' = set
<1> USE DEF Local, TypeOK
<1>0. LinkedNodes \subseteq Node /\ Head \notin Node
  BY HMListAssumption DEF LinkedNodes
<1>1. ASSUME NEW t \in Tid, Ends(t) PROVE set' = set
  BY <1>1, SetSame DEF Ends, LinkedNodes
<1>2. ASSUME NEW t \in Tid, Begins(t) PROVE set' = set
  <2>1. LinkedNodes' = LinkedNodes /\ \A m \in LinkedNodes : key'[m] = key[m]
    BY <1>2 DEF Begins, LinkedNodes
  <2>2. QED BY <1>2, <2>1, SetSame DEF Begins
<1>3. ASSUME NEW t \in Tid, Unlinks(t) PROVE set' = set
  <2>1. LinkedNodes' = LinkedNodes \ {curr[t]} /\ next[curr[t]].mark /\ key' = key
    BY <1>3, Fields DEF Unlinks, unlink, LinkedNodes
  <2>2. \A m \in LinkedNodes : next'[m].mark <=> next[m].mark
    BY <1>0, <1>3, Fields DEF Unlinks, store
  <2>3. QED BY <2>1, <2>2, SetSame
<1>4. ASSUME NEW t \in Tid, Retires(t) PROVE set' = set
  <2>1. LinkedNodes' = LinkedNodes
    BY <1>4 DEF Retires, LinkedNodes
  <2>2. QED BY <1>4, <2>1, SetSame DEF Retires
<1>5. ASSUME NEW n \in Node, Frees(n) PROVE set' = set
  <2>1. LinkedNodes' = LinkedNodes /\ n \notin LinkedNodes
    BY <1>5 DEF Frees, LinkedNodes
  <2>2. \A m \in LinkedNodes : key'[m] = key[m] /\ next'[m] = next[m]
    BY <1>0, <1>5, <2>1 DEF Frees
  <2>3. QED BY <2>1, <2>2, SetSame
<1>6. CASE Quiet
  BY <1>6, SetSame DEF Quiet, LinkedNodes
<1>7. QED BY <1>1, <1>2, <1>3, <1>4, <1>5, <1>6

(* The CAS of doInsert adds the key of its call, which the set did not have. *)
LEMMA SetAdds ==
  ASSUME Local, NEW t \in Tid, Links(t)
  PROVE  op[t].key \notin set /\ set' = set \union {op[t].key}
<1> USE DEF Local, TypeOK
<1> DEFINE x == newNode[t]
           p == prev[t]
<1>1. /\ p \in LinkedNodes \union {Head} /\ x \in Node /\ status[x] = "free" /\ next[p].ptr = curr[t]
      /\ keyOf(p) < key[x] /\ key[x] < keyOf(curr[t]) /\ key[x] = op[t].key /\ key' = key
      /\ ~next[p].mark /\ curr[t] \in Node \union {Tail}
  BY Fields DEF Links, LinkedNodes
<1>2. \A n \in LinkedNodes : n \in Node /\ keyOf(n) = key[n] /\ keyOf(n) \in Nat
  BY KeysAreNat, KeyOf DEF LinkedNodes
<1>3. keyOf(p) \in Nat /\ key[x] \in Nat /\ keyOf(curr[t]) \in Nat
  BY <1>1, <1>2, KeysAreNat, KeyOf
<1>4. \A n \in LinkedNodes : key[n] # key[x]
  <2>1. \A n \in LinkedNodes : keyOf(p) < keyOf(n) => keyOf(curr[t]) <= keyOf(n)
    BY <1>1 DEF Chain
  <2>2. QED BY <1>1, <1>2, <1>3, <2>1
<1>5. LinkedNodes' = LinkedNodes \union {x} /\ x \notin LinkedNodes
  BY <1>1 DEF Links, LinkedNodes
<1>6. Head \notin Node
  BY HMListAssumption
<1>7. /\ \A n \in LinkedNodes : next'[n].mark <=> next[n].mark
      /\ ~next'[x].mark
  <2>1. \A n \in Node \union {Root, Head, Tail} :
           next'[n] = IF n = p THEN pointTo(x) ELSE IF n = x THEN pointTo(curr[t]) ELSE next[n]
    BY DEF Links
  <2>2. QED BY <1>1, <1>2, <2>1, <1>5, Fields, SMTT(30)
<1>8. \A k : k \in set' <=> k \in set \/ k = key[x]
  BY <1>1, <1>5, <1>7, InSet, SMTT(30)
<1>9. op[t].key \notin set
  BY <1>1, <1>4, InSet
<1>10. QED BY <1>1, <1>8, <1>9

(* The marking CAS of erase removes the key of its call, which the set had. *)
LEMMA SetRemoves ==
  ASSUME Local, NEW t \in Tid, Marks(t)
  PROVE  op[t].key \in set /\ set' = set \ {op[t].key}
<1> USE DEF Local, TypeOK
<1> DEFINE c == curr[t]
<1>1. c \in LinkedNodes /\ ~next[c].mark /\ key[c] = op[t].key /\ key' = key
      /\ LinkedNodes' = LinkedNodes
  BY Fields DEF Marks, LinkedNodes
<1>2. \A n \in LinkedNodes : next'[n].mark <=> (next[n].mark \/ n = c)
  BY Fields DEF Marks, store, LinkedNodes
<1>3. \A n \in LinkedNodes : key[n] = key[c] => n = c
  BY <1>1 DEF Chain
<1>4. \A k : k \in set' <=> k \in set /\ k # key[c]
  BY <1>1, <1>2, <1>3, InSet, SMTT(30)
<1>5. QED BY <1>1, <1>4, InSet

(* What seen starts with. *)
LEMMA Present == \A S, x : {(x \in S)} = IF x \in S THEN {TRUE} ELSE {FALSE}
<1>1. ASSUME NEW S, NEW x, x \in S PROVE {(x \in S)} = {TRUE}
  BY <1>1, Zenon
<1>2. ASSUME NEW S, NEW x, x \notin S PROVE {(x \in S)} = {FALSE}
  <2> DEFINE b == x \in S
  <2>1. b \in BOOLEAN /\ ~b
    BY <1>2
  <2> HIDE DEF b
  <2>2. {b} = {FALSE}
    BY <2>1, Zenon
  <2>3. QED BY <2>2 DEF b
<1>3. QED BY <1>1, <1>2, Zenon

(* A call, and what its steps do to the set, as the abstract set has them. *)
LEMMA CallStep ==
  ASSUME Local, NEW t \in Tid, startOp(t)
  PROVE  set' = set /\ \E o \in AbstractSet!Operation : AbstractSet!Call(t, o)
<1> USE DEF Local
<1>1. set' = set
  BY OtherEffects, SetStays
<1>2. op[t] = NONE
  BY DEF startOp, goto, Calls, CallOf, Outside
<1>3. PICK k \in Key, kind \in {"contains", "insert", "erase"} :
         /\ op' = [op EXCEPT ![t] = [kind |-> kind, key |-> k]]
         /\ seen' = [seen EXCEPT ![t] = {(k \in set)}]
  BY DEF startOp
<1> DEFINE o == [kind |-> kind, key |-> k]
<1>4. o \in AbstractSet!Operation /\ o.key = k
  BY DEF AbstractSet!Operation
<1>5. AbstractSet!Call(t, o)
  <2>1. op' = [op EXCEPT ![t] = o] /\ UNCHANGED answer
    BY <1>3 DEF startOp
  <2>2. seen' = [seen EXCEPT ![t] = {(o.key \in set)}]
    <3>1. o.key = k
      BY <1>4
    <3>2. seen' = [seen EXCEPT ![t] = IF k \in set THEN {TRUE} ELSE {FALSE}]
      BY <1>3, Present
    <3> HIDE DEF o
    <3>3. QED BY <3>1, <3>2, Present
  <2>3. QED BY <1>1, <1>2, <2>1, <2>2 DEF AbstractSet!Call
<1>6. QED BY <1>1, <1>4, <1>5

(* Each step of an operation adds its key, removes it, returns, or leaves the *)
(* abstract set as it is; only search_check may then fix an answer.        *)
LEMMA SetSteps ==
  ASSUME Local, NEW t \in Tid, step(t)
  PROVE  \/ AbstractSet!Add(t)
         \/ AbstractSet!Remove(t)
         \/ set' = set /\ AbstractSet!Return(t)
         \/ set' = set /\ UNCHANGED <<op, seen>> /\ (UNCHANGED answer \/ search_check(t))
<1> USE DEF Local
<1>1. CASE search_start(t) \/ search_load(t) \/ search_reload(t) \/ search_check(t)
           \/ insert_readVal(t)
  <2>1. Quiet /\ UNCHANGED <<op, seen>> /\ (UNCHANGED answer \/ search_check(t))
    BY <1>1 DEF search_start, search_load, search_reload, search_check, insert_readVal, list,
                reclaimer, call, Quiet
  <2>2. QED BY <2>1, SetStays
<1>2. CASE search_unlink(t) \/ erase_unlink(t)
  <2>1. UNCHANGED <<op, seen, answer>>
    BY <1>2 DEF search_unlink, erase_unlink, call
  <2>2. QED BY <1>2, <2>1, UnlinkEffect, SetStays
<1>3. CASE search_retire(t) \/ erase_retire(t)
  <2>1. UNCHANGED <<op, seen, answer>> /\ Retires(t)
    BY <1>3 DEF search_retire, erase_retire, goto, reclaimer, call, Retires, OneRetires, Retiring
  <2>2. QED BY <2>1, SetStays
<1>4. CASE insert_link(t)
  <2>1. CASE holds(prev[t], pointTo(curr[t]))
    <3>1. op[t].key \notin set /\ set' = set \union {op[t].key}
      BY <1>4, <2>1, LinkEffect, SetAdds
    <3>2. op[t] # NONE /\ op[t].kind = "insert" /\ answer[t] = NONE
      BY <1>4 DEF insert_link, Calls, CallOf, Outside
    <3>3. QED BY <1>4, <2>1, <3>1, <3>2
              DEF insert_link, notice, AbstractSet!Add, AbstractSet!running, AbstractSet!notice
  <2>2. CASE ~holds(prev[t], pointTo(curr[t]))
    <3>1. UNCHANGED <<op, seen, answer>>
      BY <1>4, <2>2 DEF insert_link
    <3>2. QED BY <1>4, <2>2, <3>1, LinkEffect, SetStays
  <2>3. QED BY <2>1, <2>2
<1>5. CASE erase_mark(t)
  <2>1. CASE holds(curr[t], pointTo(nxt[t]))
    <3>1. op[t].key \in set /\ set' = set \ {op[t].key}
      BY <1>5, <2>1, MarkEffect, SetRemoves
    <3>2. op[t] # NONE /\ op[t].kind = "erase" /\ answer[t] = NONE
      BY <1>5 DEF erase_mark, Calls, CallOf, Outside
    <3>3. QED BY <1>5, <2>1, <3>1, <3>2
              DEF erase_mark, notice, AbstractSet!Remove, AbstractSet!running, AbstractSet!notice
  <2>2. CASE ~holds(curr[t], pointTo(nxt[t]))
    <3>1. UNCHANGED <<op, seen, answer>>
      BY <1>5, <2>2 DEF erase_mark
    <3>2. QED BY <1>5, <2>2, <3>1, MarkEffect, SetStays
  <2>3. QED BY <2>1, <2>2
<1>6. CASE endOp(t)
  <2>1. Ends(t)
    BY <1>6 DEF endOp, Ends, list
  <2>2. set' = set
    BY <2>1, SetStays
  <2>3. answer[t] # NONE
    BY <1>6 DEF endOp, goto, Calls, CallOf
  <2>4. QED BY <1>6, <2>2, <2>3 DEF endOp, AbstractSet!Return
<1>7. QED BY <1>1, <1>2, <1>3, <1>4, <1>5, <1>6 DEF step

(* seen has every answer that was right since the call. *)
LEMMA SeenStep ==
  ASSUME Local, Seen, Next
  PROVE  Seen'
<1> USE DEF Local
<1> DEFINE Now(u) == op'[u] # NONE => /\ op'[u].key \in set' => TRUE \in seen'[u]
                                      /\ op'[u].key \notin set' => FALSE \in seen'[u]
           Then(u) == op'[u] # NONE /\ pc'[u] \in {"reload", "check"} /\ ~cmark'[u]
                         /\ curr'[u] \in LinkedNodes' /\ key'[curr'[u]] = op'[u].key
                         => TRUE \in seen'[u]
<1>1. ASSUME NEW t \in Tid, NEW o, AbstractSet!Call(t, o), set' = set, NEW u \in Tid PROVE Now(u)
  <2>1. /\ u # t => op'[u] = op[u] /\ seen'[u] = seen[u]
        /\ op'[t] = o /\ seen'[t] = {(o.key \in set)}
    BY <1>1 DEF AbstractSet!Call, TypeOK
  <2>2. CASE u = t
    <3>1. /\ (o.key \in set) => TRUE \in {(o.key \in set)}
          /\ (o.key \notin set) => FALSE \in {(o.key \in set)}
      BY Present
    <3>2. QED BY <1>1, <2>1, <2>2, <3>1
  <2>3. CASE u # t
    BY <1>1, <2>1, <2>3 DEF Seen, SeenOf
  <2>4. QED BY <2>2, <2>3
<1>2. ASSUME NEW t \in Tid, AbstractSet!Add(t) \/ AbstractSet!Remove(t), NEW u \in Tid
      PROVE  Now(u) /\ op'[u] = op[u] /\ seen[u] \subseteq seen'[u]
  <2>1. op' = op
    BY <1>2 DEF AbstractSet!Add, AbstractSet!Remove
  <2>2. CASE AbstractSet!Add(t)
    <3>1. /\ set' = set \union {op[t].key}
          /\ seen'[u] = IF op[u] # NONE /\ op[u].key = op[t].key THEN seen[u] \union {TRUE}
                                                                  ELSE seen[u]
      BY <2>2 DEF AbstractSet!Add, AbstractSet!notice
    <3>2. QED BY <2>1, <3>1 DEF Seen, SeenOf
  <2>3. CASE AbstractSet!Remove(t)
    <3>1. /\ set' = set \ {op[t].key}
          /\ seen'[u] = IF op[u] # NONE /\ op[u].key = op[t].key THEN seen[u] \union {FALSE}
                                                                  ELSE seen[u]
      BY <2>3 DEF AbstractSet!Remove, AbstractSet!notice
    <3>2. QED BY <2>1, <3>1 DEF Seen, SeenOf
  <2>4. QED BY <1>2, <2>1, <2>2, <2>3
<1>3. ASSUME NEW t \in Tid, set' = set, AbstractSet!Return(t), NEW u \in Tid
      PROVE  Now(u) /\ (u # t => op'[u] = op[u] /\ seen[u] \subseteq seen'[u]) /\ op'[t] = NONE
  <2>1. /\ u # t => op'[u] = op[u] /\ seen'[u] = seen[u]
        /\ op'[t] = NONE
    BY <1>3 DEF AbstractSet!Return, TypeOK
  <2>2. QED BY <1>3, <2>1 DEF Seen, SeenOf
<1>4. ASSUME set' = set, UNCHANGED <<op, seen>>, NEW u \in Tid
      PROVE  Now(u) /\ op'[u] = op[u] /\ seen[u] \subseteq seen'[u]
  BY <1>4 DEF Seen, SeenOf
<1>5. ASSUME NEW u \in Tid, Same(u), Effect, seen[u] \subseteq seen'[u] PROVE Then(u)
  <2>1. SUFFICES ASSUME op[u] # NONE, pc[u] \in {"reload", "check"}, ~cmark[u],
                        curr[u] \in LinkedNodes', key'[curr[u]] = op[u].key
                 PROVE  TRUE \in seen[u]
    BY <1>5 DEF Same
  <2>2. u \in active /\ u \in active'
    BY <1>5, <2>1 DEF Same, Calls, CallOf, Outside
  <2>3. curr[u] \in Node /\ status'[curr[u]] = "linked" /\ Keeps(u, curr[u])
    BY <2>1, <2>2 DEF LinkedNodes, Searches, SearchOf
  <2>4. status[curr[u]] = "linked" /\ key[curr[u]] = op[u].key
    BY <1>5, <2>1, <2>2, <2>3, StepKeeps
  <2>5. QED BY <2>1, <2>3, <2>4 DEF Seen, SeenOf, LinkedNodes
<1>6. ASSUME NEW t \in Tid, startOp(t) \/ step(t) PROVE Then(t)
  <2>1. CASE search_load(t)
    <3>1. /\ cmark'[t] = next[curr[t]].mark /\ UNCHANGED <<next, key, status, curr, op, seen>>
      BY <2>1 DEF search_load, list, call, TypeOK
    <3>2. SUFFICES ASSUME op[t] # NONE, ~next[curr[t]].mark, curr[t] \in LinkedNodes,
                          key[curr[t]] = op[t].key
                   PROVE  TRUE \in seen[t]
      BY <3>1 DEF LinkedNodes
    <3>3. op[t].key \in set
      BY <3>2, InSet
    <3>4. QED BY <3>2, <3>3 DEF Seen, SeenOf
  <2>2. CASE search_reload(t)
    <3>1. pc[t] = "reload" /\ UNCHANGED <<next, key, status, curr, cmark, op, seen>>
      BY <2>2 DEF search_reload, list, call, search, TypeOK
    <3>2. QED BY <3>1 DEF Seen, SeenOf, LinkedNodes
  <2>3. CASE startOp(t) \/ search_start(t) \/ search_unlink(t) \/ search_retire(t)
             \/ insert_link(t) \/ erase_mark(t)
    BY <2>3 DEF startOp, search_start, search_unlink, search_retire, insert_link, erase_mark, goto,
                TypeOK
  <2>4. CASE search_check(t)
    BY <2>4 DEF search_check, search_return, goto, TypeOK
  <2>5. CASE erase_unlink(t) \/ erase_retire(t) \/ endOp(t) \/ insert_readVal(t)
    BY <2>5 DEF erase_unlink, erase_retire, endOp, insert_readVal, goto, TypeOK
  <2>6. QED BY <1>6, <2>1, <2>2, <2>3, <2>4, <2>5 DEF step
<1>7. Effect
  BY NextHasEffect
<1>8. ASSUME \A u \in Tid : Now(u) /\ Then(u) PROVE Seen'
  BY <1>8 DEF Seen, SeenOf
<1>9. ASSUME NEW t \in Tid, startOp(t) PROVE Seen'
  <2>1. PICK o : AbstractSet!Call(t, o) /\ set' = set
    BY <1>9, CallStep
  <2>2. \A u \in Tid \ {t} : Same(u) /\ seen[u] \subseteq seen'[u]
    BY <1>9, <2>1, OthersSame DEF AbstractSet!Call, TypeOK
  <2>3. QED BY <1>1, <1>5, <1>6, <1>7, <1>8, <1>9, <2>1, <2>2
<1>10. ASSUME NEW t \in Tid, step(t) PROVE Seen'
  <2>1. \A u \in Tid : Now(u) /\ (u # t => seen[u] \subseteq seen'[u])
    BY <1>2, <1>3, <1>4, <1>10, SetSteps
  <2>2. \A u \in Tid \ {t} : Then(u)
    BY <1>5, <1>7, <1>10, <2>1, OthersSame
  <2>3. QED BY <1>6, <1>8, <1>10, <2>1, <2>2
<1>11. ASSUME NEW n \in Node, free(n) PROVE Seen'
  <2>1. set' = set /\ UNCHANGED <<op, seen>>
    BY <1>11, OtherEffects, SetStays DEF free, call
  <2>2. QED BY <1>4, <1>5, <1>7, <1>8, <1>11, <2>1, OthersSame
<1>12. QED BY <1>9, <1>10, <1>11 DEF Next

-------------------------------------------------------------------------------
(* A search that ends at the key it looks for has found the node with it,  *)
(* if there is one in the list.                                            *)
LEMMA SearchFinds ==
  ASSUME Local, NEW t \in Tid, pc[t] = "check", holds(prev[t], pointTo(curr[t])),
         keyOf(curr[t]) >= op[t].key
  PROVE  /\ curr[t] \in LinkedNodes \union {Tail} /\ ~next[prev[t]].mark
         /\ keyOf(curr[t]) = op[t].key => curr[t] \in LinkedNodes /\ key[curr[t]] = op[t].key
         /\ \A n \in LinkedNodes : key[n] = op[t].key => n = curr[t]
<1> USE DEF Local
<1>1. /\ op[t].key \in Key /\ curr[t] \in Node \union {Head, Tail}
      /\ prev[t] = Root => curr[t] = Head
      /\ prev[t] # Root => curr[t] # Head /\ keyOf(prev[t]) < op[t].key
  BY Hands DEF Working
<1>2. op[t].key \in Nat /\ KEY_MIN < op[t].key /\ op[t].key < KEY_MAX /\ keyOf(curr[t]) \in Nat
  BY <1>1, KeysAreNat
<1>3. prev[t] # Root
  BY <1>1, <1>2, KeyOf, KeysAreNat
<1>4. /\ prev[t] \in LinkedNodes \union {Head} /\ curr[t] \in LinkedNodes \union {Tail}
      /\ next[prev[t]].ptr = curr[t] /\ ~next[prev[t]].mark
  BY <1>3, PrevIsLinked
<1>5. \A n \in LinkedNodes : n \in Node /\ keyOf(n) = key[n]
  BY KeyOf DEF LinkedNodes
<1>6. keyOf(curr[t]) = op[t].key => curr[t] \in LinkedNodes /\ key[curr[t]] = op[t].key
  BY <1>2, <1>4, <1>5, KeyOf, KeysAreNat
<1>7. ASSUME NEW n \in LinkedNodes, key[n] = op[t].key PROVE n = curr[t]
  <2>1. keyOf(curr[t]) <= keyOf(n)
    BY <1>1, <1>3, <1>4, <1>5, <1>7 DEF Chain
  <2>2. keyOf(curr[t]) = op[t].key
    BY <1>2, <1>5, <1>7, <2>1
  <2>3. QED BY <1>6, <1>7, <2>2 DEF Chain
<1>8. QED BY <1>4, <1>6, <1>7

(* No erase returns before its node is unlinked. *)
LEMMA MarkedErasedStep ==
  ASSUME Local, MarkedErased, Next
  PROVE  MarkedErased'
<1> USE DEF Local, TypeOK
<1> DEFINE Eraser(t, n) == /\ op'[t] # NONE /\ op'[t].kind = "erase" /\ op'[t].key = key'[n]
                           /\ answer'[t] = TRUE /\ pc'[t] # "end"
                           /\ pc'[t] \in {"eraseUnlink", "eraseRetire"} => curr'[t] = n
                           /\ pc'[t] \in {"reload", "check"} /\ curr'[t] = n => cmark'[t]
<1>1. Effect
  BY NextHasEffect
<1>2. ASSUME NEW n \in Node, status'[n] = "linked", next'[n].mark,
             ~(\E t \in Tid : Marks(t) /\ curr[t] = n)
      PROVE  status[n] = "linked" /\ next[n].mark /\ key'[n] = key[n]
  <2>1. ASSUME NEW t \in Tid, Unlinks(t) \/ Retires(t)
        PROVE  status[n] = "linked" /\ next[n].mark /\ key'[n] = key[n]
    BY <1>2, <2>1, Fields DEF Unlinks, unlink, store, Retires
  <2>2. ASSUME NEW t \in Tid, Links(t)
        PROVE  status[n] = "linked" /\ next[n].mark /\ key'[n] = key[n]
    BY <1>2, <2>2, Fields DEF Links
  <2>3. ASSUME NEW t \in Tid, Marks(t)
        PROVE  status[n] = "linked" /\ next[n].mark /\ key'[n] = key[n]
    BY <1>2, <2>3 DEF Marks, store
  <2>4. ASSUME NEW t \in Tid, Quiet \/ Begins(t) \/ Ends(t)
        PROVE  status[n] = "linked" /\ next[n].mark /\ key'[n] = key[n]
    BY <1>2, <2>4 DEF Quiet, Begins, Ends
  <2>5. ASSUME NEW m \in Node, Frees(m)
        PROVE  status[n] = "linked" /\ next[n].mark /\ key'[n] = key[n]
    BY <1>2, <2>5 DEF Frees
  <2>6. QED BY <1>1, <2>1, <2>2, <2>3, <2>4, <2>5 DEF Effect, EffectOf
<1>3. ASSUME NEW n, NEW u \in Tid, Erases(u, n), Same(u), key'[n] = key[n] PROVE Eraser(u, n)
  BY <1>3 DEF Erases, Same
<1>4. ASSUME NEW n \in Node, NEW t \in Tid, Erases(t, n), startOp(t) \/ step(t),
             status[n] = "linked", status'[n] = "linked", next[n].mark, key'[n] = key[n]
      PROVE  Eraser(t, n)
  <2>1. /\ pc[t] \in {"search", "load", "reload", "check", "unlink", "retire", "eraseUnlink",
                      "eraseRetire"}
        /\ op[t].kind = "erase" /\ op[t].key = key[n] /\ answer[t] = TRUE /\ op[t] # NONE
    BY <1>4, HMListAssumption DEF Erases, Calls, CallOf, Outside
  <2>2. CASE search_start(t) \/ search_retire(t)
    BY <1>4, <2>1, <2>2 DEF search_start, search_retire, goto, call
  <2>3. CASE search_load(t)
    BY <1>4, <2>1, <2>3 DEF search_load, goto, call
  <2>4. CASE search_reload(t)
    BY <1>4, <2>1, <2>4 DEF search_reload, goto, call, search, Erases
  <2>5. CASE search_check(t)
    <3>1. ~(holds(prev[t], pointTo(curr[t])) /\ ~cmark[t] /\ keyOf(curr[t]) >= op[t].key)
      <4>1. SUFFICES ASSUME holds(prev[t], pointTo(curr[t])), ~cmark[t],
                            keyOf(curr[t]) >= op[t].key
                     PROVE  FALSE
        OBVIOUS
      <4>2. pc[t] = "check" /\ n \in LinkedNodes
        BY <1>4, <2>5 DEF search_check, LinkedNodes
      <4>3. curr[t] = n
        BY <2>1, <4>1, <4>2, SearchFinds
      <4>4. QED BY <1>4, <4>1, <4>2, <4>3 DEF Erases
    <3>2. pc'[t] \in {"search", "load", "unlink"} /\ UNCHANGED <<op, answer>>
      BY <2>5, <3>1 DEF search_check, goto
    <3>3. QED BY <1>4, <2>1, <3>2
  <2>6. CASE search_unlink(t)
    BY <1>4, <2>1, <2>6 DEF search_unlink, goto, call
  <2>7. CASE erase_unlink(t)
    <3>1. pc[t] = "eraseUnlink" /\ curr[t] = n
      BY <1>4, <2>7 DEF erase_unlink, Erases
    <3>2. ~holds(prev[t], pointTo(curr[t]))
      BY <1>4, <2>7, <3>1 DEF erase_unlink, unlink
    <3>3. QED BY <1>4, <2>1, <2>7, <3>2 DEF erase_unlink, goto, call
  <2>8. CASE erase_retire(t)
    BY <1>4, <2>8 DEF erase_retire, goto, Erases, OneRetires, Retiring
  <2>9. CASE startOp(t) \/ insert_link(t) \/ erase_mark(t) \/ endOp(t) \/ insert_readVal(t)
    BY <2>1, <2>9 DEF startOp, insert_link, erase_mark, endOp, insert_readVal, goto
  <2>10. QED BY <1>4, <2>2, <2>3, <2>4, <2>5, <2>6, <2>7, <2>8, <2>9 DEF step
<1>5. ASSUME NEW t \in Tid, erase_mark(t), next' # next PROVE Eraser(t, curr[t])
  <2>1. pc[t] = "mark" /\ pc'[t] = "eraseUnlink" /\ answer'[t] = TRUE
        /\ UNCHANGED <<key, op, curr>>
    BY <1>5 DEF erase_mark, goto, search
  <2>2. op[t] # NONE /\ op[t].kind = "erase" /\ curr[t] \in Node /\ keyOf(curr[t]) = op[t].key
    BY <2>1 DEF Calls, CallOf, Outside, Searches, SearchOf
  <2>3. QED BY <2>1, <2>2, KeyOf
<1>6. ASSUME NEW n \in Node, status'[n] = "linked", next'[n].mark
      PROVE  \E t \in Tid : Eraser(t, n)
  <2>1. CASE ~(\E t \in Tid : Marks(t) /\ curr[t] = n)
    <3>1. status[n] = "linked" /\ next[n].mark /\ key'[n] = key[n]
      BY <1>2, <1>6, <2>1
    <3>2. PICK u \in Tid : Erases(u, n)
      BY <3>1 DEF MarkedErased, LinkedNodes
    <3>3. ASSUME NEW t \in Tid, startOp(t) \/ step(t) PROVE Eraser(u, n)
      <4>1. CASE u # t
        <5>1. Same(u)
          BY <3>3, <4>1, OthersSame
        <5>2. QED BY <1>3, <3>1, <3>2, <5>1
      <4>2. CASE u = t
        <5>1. startOp(u) \/ step(u)
          BY <3>3, <4>2
        <5>2. QED BY <1>4, <1>6, <3>1, <3>2, <5>1
      <4>3. QED BY <4>1, <4>2
    <3>4. ASSUME NEW m \in Node, free(m) PROVE Eraser(u, n)
      BY <1>3, <3>1, <3>2, <3>4, OthersSame
    <3>5. QED BY <3>3, <3>4 DEF Next
  <2>2. ASSUME NEW t \in Tid, Marks(t), curr[t] = n PROVE \E v \in Tid : Eraser(v, n)
    <3>1. next' # next /\ UNCHANGED <<key, status, active, waiting>>
          /\ next[n].mark = FALSE
      <4>1. next'[n] = marked(nxt[t]) /\ next[n] = pointTo(nxt[t])
        BY <2>2 DEF Marks, store
      <4>2. QED BY <2>2, <4>1, Fields DEF Marks
    <3>2. PICK u \in Tid : erase_mark(u)
      <4>1. ASSUME NEW u \in Tid, step(u), ~erase_mark(u) PROVE FALSE
        <5>1. CASE insert_link(u)
          BY <3>1, <5>1, LinkEffect DEF Links, Quiet
        <5>2. CASE search_unlink(u) \/ erase_unlink(u)
          BY <3>1, <5>2, UnlinkEffect DEF Unlinks, unlink, Quiet, LinkedNodes
        <5>3. QED BY <3>1, <4>1, <5>1, <5>2
                  DEF step, search_start, search_load, search_reload, search_check, search_retire,
                      erase_retire, endOp, insert_readVal, list
      <4>2. ASSUME NEW u \in Tid, startOp(u) PROVE FALSE
        BY <3>1, <4>2 DEF startOp
      <4>3. ASSUME NEW m \in Node, free(m) PROVE FALSE
        BY <3>1, <4>3 DEF free
      <4>4. QED BY <4>1, <4>2, <4>3 DEF Next
    <3>3. Marks(u)
      BY <3>1, <3>2, MarkEffect DEF Quiet
    <3>4. curr[u] = n
      BY <1>6, <3>1, <3>3 DEF Marks, store
    <3>5. QED BY <1>5, <3>1, <3>2, <3>4
  <2>3. QED BY <2>1, <2>2
<1>7. QED BY <1>6 DEF MarkedErased, Erases, LinkedNodes

-------------------------------------------------------------------------------
(* The invariant holds. *)
LEMMA IInvStep ==
  ASSUME IInv, [Next]_vars
  PROVE  IInv'
<1>1. CASE Next
  <2>1. Local /\ Frozen /\ Seen /\ MarkedErased
    BY DEF IInv, Local
  <2>2. Effect
    BY <1>1, <2>1, NextHasEffect
  <2>3. TypeOK' /\ Calls' /\ NewNodes' /\ OneRetires' /\ Searches'
    BY <1>1, <2>1, TypeStep, CallsStep, NewNodesStep, OneRetiresStep, SearchesStep
  <2>4. Nodes' /\ Chain' /\ Frozen'
    BY <2>1, <2>2, NodesStep, ChainStep, FrozenStep
  <2>5. Seen' /\ MarkedErased'
    BY <1>1, <2>1, SeenStep, MarkedErasedStep
  <2>6. QED BY <2>3, <2>4, <2>5 DEF IInv
<1>2. CASE UNCHANGED vars
  <2> USE <1>2 DEF vars
  <2>1. /\ LinkedNodes' = LinkedNodes /\ set' = set /\ \A n : keyOf(n)' = keyOf(n)
        /\ \A t, n : Keeps(t, n)' <=> Keeps(t, n)
    BY DEF LinkedNodes, set, InList, keyOf, Keeps
  <2>2. TypeOK' /\ Calls' /\ Nodes' /\ NewNodes' /\ OneRetires'
    BY DEF IInv, TypeOK, Calls, CallOf, Nodes, NewNodes, OneRetires, pointTo
  <2>3. Chain' /\ Frozen'
    BY <2>1 DEF IInv, Chain, Frozen, keyOf, Keeps
  <2>4. Searches'
    BY <2>1 DEF IInv, Searches, SearchOf, keyOf, Keeps, marked
  <2>5. Seen' /\ MarkedErased'
    <3>1. Seen'
      <4>1. ASSUME NEW t \in Tid, SeenOf(t) PROVE SeenOf(t)'
        BY <2>1, <4>1 DEF SeenOf
      <4>2. QED BY <4>1 DEF IInv, Seen
    <3>2. MarkedErased'
      <4>1. ASSUME NEW t \in Tid, NEW n, Erases(t, n) PROVE Erases(t, n)'
        BY <4>1 DEF Erases
      <4>2. QED BY <2>1, <4>1 DEF IInv, MarkedErased
    <3>3. QED BY <3>1, <3>2
  <2>6. QED BY <2>2, <2>3, <2>4, <2>5 DEF IInv
<1>3. QED BY <1>1, <1>2

(* The inductive invariant holds in every state that startOp, the steps of *)
(* contains, doInsert and erase, and the reclaimer's frees reach.          *)
THEOREM Invariance == Spec => []IInv
BY InitIInv, IInvStep, PTL DEF Spec

(* Every variable holds what the code can store in it; in particular curr  *)
(* is never null in a search, and doInsert has a node to link.             *)
THEOREM TypeCorrect == Spec => []TypeOK
<1>1. IInv => TypeOK
  BY DEF IInv
<1>2. QED BY <1>1, Invariance, PTL

(* No pointer a search works with leads to a node that has been freed: the *)
(* operation keeps every node it has in hand.                              *)
THEOREM Safety == Spec => []NoUseAfterFree
<1>1. IInv => NoUseAfterFree
  <2>1. SUFFICES ASSUME IInv, NEW t \in active, NEW n \in {prev[t], curr[t], nxt[t]} \cap Node
                 PROVE  status[n] # "free"
    BY DEF NoUseAfterFree
  <2>2. t \in Tid /\ Keeps(t, n)
    BY <2>1 DEF IInv, TypeOK, Searches, SearchOf
  <2>3. QED BY <2>1, <2>2, KeptNotFree DEF IInv
<1>2. QED BY <1>1, Invariance, PTL

(* The linked nodes are one list from Head to Tail, sorted, each node the  *)
(* successor of one other.                                                 *)
THEOREM SortedList == Spec => []Sorted
<1>1. IInv => Sorted
  <2>1. SUFFICES ASSUME IInv PROVE Sorted
    OBVIOUS
  <2>2. TypeOK /\ Nodes /\ Chain
    BY <2>1 DEF IInv
  <2>3. ASSUME NEW n \in LinkedNodes \union {Tail}
        PROVE  Cardinality({m \in LinkedNodes \union {Head} : next[m].ptr = n}) = 1
    <3>1. PICK p \in LinkedNodes \union {Head} : next[p].ptr = n
      BY <2>2 DEF Chain
    <3>2. {m \in LinkedNodes \union {Head} : next[m].ptr = n} = {p}
      BY <2>2, <3>1, OneOfAKind
    <3>3. QED BY <3>2, FS_Singleton
  <2>4. QED BY <2>2, <2>3 DEF Sorted, Chain
<1>2. QED BY <1>1, Invariance, PTL

(* No erase returns before its node is unlinked, so that debugKeySum meets *)
(* no marked node.                                                         *)
THEOREM NoMarkedLeft == Spec => []NoMarkedWhenIdle
<1>1. IInv => NoMarkedWhenIdle
  BY DEF IInv, NoMarkedWhenIdle, MarkedErased, Erases, Calls, CallOf, Outside
<1>2. QED BY <1>1, Invariance, PTL

-------------------------------------------------------------------------------
(* What a search answers was right at some moment since the call. *)
LEMMA AnswerStep ==
  ASSUME Local, Seen, NEW t \in Tid, search_check(t)
  PROVE  AbstractSet!Answer(t) \/ UNCHANGED AbstractSet!vars
<1> USE DEF Local
<1>1. set' = set /\ UNCHANGED <<op, seen>>
  BY SetStays DEF search_check, list, reclaimer, Quiet
<1>2. CASE UNCHANGED answer
  BY <1>1, <1>2 DEF AbstractSet!vars
<1>3. ASSUME NEW found \in BOOLEAN, found <=> keyOf(curr[t]) = op[t].key,
             search_return(t, found), ~cmark[t], keyOf(curr[t]) >= op[t].key,
             holds(prev[t], pointTo(curr[t]))
      PROVE  AbstractSet!Answer(t) \/ UNCHANGED AbstractSet!vars
  <2>1. pc[t] = "check" /\ op[t] # NONE
    BY DEF search_check, Calls, CallOf, Outside
  <2>2. /\ keyOf(curr[t]) = op[t].key => curr[t] \in LinkedNodes /\ key[curr[t]] = op[t].key
        /\ \A n \in LinkedNodes : key[n] = op[t].key => n = curr[t]
    BY <1>3, <2>1, SearchFinds
  <2>3. found => TRUE \in seen[t]
    BY <1>3, <2>1, <2>2 DEF Seen, SeenOf
  <2>4. ~found => FALSE \in seen[t]
    <3>1. SUFFICES ASSUME ~found PROVE FALSE \in seen[t]
      OBVIOUS
    <3>2. \A n \in LinkedNodes : keyOf(n) = key[n]
      BY KeyOf DEF LinkedNodes
    <3>3. op[t].key \notin set
      BY <1>3, <2>2, <3>1, <3>2, InSet
    <3>4. QED BY <2>1, <3>3 DEF Seen, SeenOf
  <2>5. found \in seen[t]
    BY <2>3, <2>4, Zenon
  <2>6. CASE op[t].kind = "contains" /\ answer[t] = NONE /\ answer' = [answer EXCEPT ![t] = found]
    BY <1>1, <2>1, <2>5, <2>6 DEF AbstractSet!Answer, AbstractSet!running
  <2>7. CASE /\ answer[t] = NONE /\ answer' = [answer EXCEPT ![t] = FALSE]
             /\ (op[t].kind = "insert" /\ found) \/ (op[t].kind = "erase" /\ ~found)
    BY <1>1, <2>1, <2>3, <2>4, <2>7 DEF AbstractSet!Answer, AbstractSet!running
  <2>8. CASE UNCHANGED answer
    BY <1>2, <2>8
  <2>9. QED BY <1>3, <2>6, <2>7, <2>8 DEF search_return
<1>4. (keyOf(curr[t]) = op[t].key) \in BOOLEAN
  OBVIOUS
<1>5. QED BY <1>2, <1>3, <1>4 DEF search_check

(* The list implements a linearizable set: a link adds, a mark removes,    *)
(* and every other answer was right at some moment of its operation.       *)
THEOREM ImplementsSet == Spec => Linearizable
<1>1. Init => AbstractSet!Init
  BY DEF Init, AbstractSet!Init, set, InList
<1>2. ASSUME IInv, [Next]_vars
      PROVE  AbstractSet!Next \/ UNCHANGED AbstractSet!vars
  <2>1. Local /\ Seen
    BY <1>2 DEF IInv, Local
  <2>2. ASSUME NEW t \in Tid, startOp(t) PROVE AbstractSet!Next
    <3>1. \E o \in AbstractSet!Operation : AbstractSet!Call(t, o)
      BY <2>1, <2>2, CallStep
    <3>2. QED BY <3>1 DEF AbstractSet!Next
  <2>3. ASSUME NEW t \in Tid, step(t) PROVE AbstractSet!Next \/ UNCHANGED AbstractSet!vars
    <3>1. \/ AbstractSet!Add(t) \/ AbstractSet!Remove(t) \/ AbstractSet!Return(t)
          \/ UNCHANGED AbstractSet!vars
          \/ search_check(t)
      BY <2>1, <2>3, SetSteps DEF AbstractSet!vars
    <3>2. search_check(t) => AbstractSet!Answer(t) \/ UNCHANGED AbstractSet!vars
      BY <2>1, AnswerStep
    <3>3. QED BY <3>1, <3>2 DEF AbstractSet!Next
  <2>4. ASSUME NEW n \in Node, free(n) PROVE UNCHANGED AbstractSet!vars
    <3>1. set' = set
      BY <2>1, <2>4, OtherEffects, SetStays
    <3>2. QED BY <2>4, <3>1 DEF free, call, AbstractSet!vars
  <2>5. CASE UNCHANGED vars
    BY <2>5 DEF vars, AbstractSet!vars, set, InList
  <2>6. QED BY <1>2, <2>2, <2>3, <2>4, <2>5 DEF Next
<1>3. QED BY <1>1, <1>2, Invariance, PTL DEF Spec, Linearizable, AbstractSet!Spec

(* And it is a client the reclaimer may trust: each node is unlinked once, *)
(* retired once, after that, and not used once its waiting set is empty.   *)
THEOREM KeepsContract == Spec => Reclamation
<1>1. Init => Contract!Init
  BY DEF Init, Contract!Init
<1>2. ASSUME IInv, [Next]_vars
      PROVE  Contract!Next \/ UNCHANGED Contract!vars
  <2> USE DEF Contract!Next, Contract!move
  <2>0. TypeOK
    BY <1>2 DEF IInv
  <2>1. ASSUME NEW t \in Tid, Begins(t) PROVE Contract!Next
    BY <2>1 DEF Begins, Contract!StartOp
  <2>2. ASSUME NEW t \in Tid, Ends(t) PROVE Contract!Next
    BY <2>2 DEF Ends, Contract!EndOp
  <2>3. ASSUME NEW t \in Tid, Unlinks(t) PROVE Contract!Next
    <3>1. Contract!Unlink({curr[t]}) /\ {curr[t]} \in SUBSET Node
      BY <2>0, <2>3 DEF Unlinks, unlink, LinkedNodes, TypeOK, Contract!Unlink
    <3>2. QED BY <3>1
  <2>4. ASSUME NEW t \in Tid, Links(t) PROVE Contract!Next
    <3>1. Contract!Link({newNode[t]}) /\ {newNode[t]} \in SUBSET Node
      BY <2>0, <2>4 DEF Links, TypeOK, Contract!Link
    <3>2. QED BY <3>1
  <2>5. ASSUME NEW t \in Tid, Retires(t) PROVE Contract!Next
    <3>1. Contract!Retire(curr[t]) /\ curr[t] \in Node
      BY <2>0, <2>5 DEF Retires, TypeOK, Contract!Retire
    <3>2. QED BY <3>1
  <2>6. ASSUME NEW n \in Node, Frees(n) PROVE Contract!Next
    <3>1. Contract!Free(n)
      BY <2>0, <2>6 DEF Frees, TypeOK, Contract!Free
    <3>2. QED BY <3>1
  <2>7. ASSUME NEW t \in Tid, Quiet \/ Marks(t) PROVE UNCHANGED Contract!vars
    BY <2>7 DEF Quiet, Marks, Contract!vars
  <2>8. CASE Next
    <3>1. Effect
      BY <1>2, <2>8, NextHasEffect DEF IInv, Local
    <3>2. QED BY <2>1, <2>2, <2>3, <2>4, <2>5, <2>6, <2>7, <3>1 DEF Effect, EffectOf
  <2>9. CASE UNCHANGED vars
    BY <2>9 DEF vars, Contract!vars
  <2>10. QED BY <1>2, <2>8, <2>9
<1>3. QED BY <1>1, <1>2, Invariance, PTL DEF Spec, Reclamation, Contract!Spec
================================================================================
