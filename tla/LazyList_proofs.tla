---------------------------- MODULE LazyList_proofs ----------------------------
(***************************************************************************)
(* LazyList is a linearizable set and a client the reclaimer may trust,    *)
(* for any number of threads, nodes and keys.                              *)
(*                                                                         *)
(* A search takes no lock and may walk from a node that has been taken out *)
(* to one that has been taken out since.  What makes its answer right is   *)
(* in Gone: a node that left the list under a running call answered the    *)
(* call when it left, for all keys up to its successor's.  An update is    *)
(* safe because what it has validated is under locks that it holds, one    *)
(* thread each (Locks, Validated).                                         *)
(***************************************************************************)
EXTENDS LazyList, FiniteSetTheorems, WellFoundedInduction, TLAPS

(* The steps of a call. *)
Steps == {"idle", "search", "walk", "lockPred", "end"} \union UnderPred

(* A call: what is settled where.                                          *)
CallOf(t) ==
    /\ t \in active <=> pc[t] # "idle"
    /\ op[t] = NONE <=> pc[t] = "idle"
    /\ pc[t] = "idle" => pred[t] = NULL /\ curr[t] = NULL
    /\ pc[t] \in {"idle", "search", "walk", "lockPred", "lockCurr", "validate", "link", "mark"} =>
          answer[t] = NONE
    /\ pc[t] \in {"unlink", "retire"} => answer[t] = TRUE
    /\ pc[t] = "end" => answer[t] # NONE
    /\ pc[t] \in {"lockPred"} \union UnderPred => op[t].kind # "contains"
    /\ pc[t] \in {"lockCurr"} \union UnderCurr => op[t].kind = "erase"
    /\ pc[t] = "link" => op[t].kind = "insert"
Calls == pc \in [Tid -> Steps] /\ \A t \in Tid : CallOf(t)

(* The nodes in their states. *)
Nodes ==
    /\ ~marked[Head] /\ ~marked[Tail]
    /\ \A n \in Node :
          /\ waiting[n] \subseteq active
          /\ status[n] \in {"free", "linked"} => waiting[n] = {}
          /\ status[n] = "free" => ~marked[n]
          /\ status[n] \in {"unlinked", "retired"} => marked[n]
          /\ status[n] = "linked" => key[n] \in Key

(* The successor of each node is the next in the order of the keys. *)
Chain ==
    /\ \A n \in LinkedNodes \union {Head} :
          /\ next[n] \in LinkedNodes \union {Tail}
          /\ keyOf(n) < keyOf(next[n])
          /\ \A x \in LinkedNodes : keyOf(n) < keyOf(x) => keyOf(next[n]) <= keyOf(x)
    /\ \A n, m \in LinkedNodes : key[n] = key[m] => n = m
    /\ \A n \in LinkedNodes \union {Tail} : \E m \in LinkedNodes \union {Head} : next[m] = n

(* A node that t's call may go on to use, if it is one at all. *)
Keeps(t, n) == n \in Node => status[n] = "linked" \/ t \in waiting[n]

(* From such a node pointers lead to such nodes only, to larger keys. *)
Frozen ==
    \A n \in Node : \A t \in waiting[n] :
        /\ next[n] \in Node \union {Tail} /\ Keeps(t, next[n])
        /\ keyOf(n) < keyOf(next[n])

(* t could answer that key k is absent. *)
CanDeny(t) == FALSE \in seen[t]

(* When a node was taken out, no key from its own up to its successor's    *)
(* was in the set, and the calls that ran noticed.                         *)
Gone ==
    \A n \in Node : \A t \in waiting[n] :
        keyOf(n) <= op[t].key /\ op[t].key < keyOf(next[n]) => CanDeny(t)

(* What a search has in hand. *)
SearchOf(t) ==
    /\ t \in active => Keeps(t, pred[t]) /\ Keeps(t, curr[t])
    /\ pc[t] \in {"walk", "lockPred"} \union UnderPred =>
          /\ pred[t] \in Node \union {Head} /\ curr[t] \in Node \union {Tail}
          /\ keyOf(pred[t]) < op[t].key /\ keyOf(pred[t]) < keyOf(curr[t])
          /\ op[t].key < keyOf(curr[t]) => CanDeny(t)
    /\ pc[t] \in {"lockPred"} \union UnderPred =>
          /\ op[t].key <= keyOf(curr[t])
          /\ op[t].kind = "erase" => keyOf(curr[t]) = op[t].key
    /\ pc[t] = "link" => op[t].key # keyOf(curr[t])
Searches == \A t \in Tid : SearchOf(t)

(* A lock that is taken is the lock of one thread. *)
Locks ==
    \A n \in Node \union {Head, Tail} :
        /\ lock[n] <=> \E t \in Tid : owns(t, n)
        /\ \A t, u \in Tid : owns(t, n) /\ owns(u, n) => t = u

(* What validate has seen stays so under the locks. *)
ValidatedOf(t) ==
    /\ pc[t] \in {"link", "mark", "unlink"} =>
          /\ pred[t] \in LinkedNodes \union {Head} /\ ~marked[pred[t]]
          /\ curr[t] \in LinkedNodes \union {Tail} /\ next[pred[t]] = curr[t]
    /\ pc[t] = "mark" => ~marked[curr[t]]
    /\ pc[t] = "unlink" => marked[curr[t]]
    /\ pc[t] = "retire" => status[curr[t]] = "unlinked"
Validated == \A t \in Tid : ValidatedOf(t)

(* seen has what a call could answer now. *)
SeenOf(t) ==
    op[t] # NONE =>
        /\ op[t].key \in set => TRUE \in seen[t]
        /\ op[t].key \notin set => FALSE \in seen[t]
Seen == \A t \in Tid : SeenOf(t)

(* A node in the list has a mark only while the call that has marked it is *)
(* about to unlink it.                                                     *)
MarkedErased ==
    \A n \in LinkedNodes : marked[n] => \E t \in Tid : pc[t] = "unlink" /\ curr[t] = n

(* The inductive invariant.                                                *)
IInv ==
    /\ TypeOK
    /\ Calls
    /\ Nodes
    /\ Chain
    /\ Frozen
    /\ Gone
    /\ Searches
    /\ Locks
    /\ Validated
    /\ Seen
    /\ MarkedErased

-------------------------------------------------------------------------------
(* The keys of the sentinels and of the nodes, before and after a step. *)
LEMMA KeyOf ==
  /\ keyOf(Head) = KEY_MIN /\ keyOf(Tail) = KEY_MAX
  /\ \A n \in Node : keyOf(n) = key[n]
  /\ keyOf(Head)' = KEY_MIN /\ keyOf(Tail)' = KEY_MAX
  /\ \A n \in Node : keyOf(n)' = key'[n]
BY ListClientAssumption DEF keyOf

(* Keys can be compared. *)
LEMMA KeysAreNat ==
  /\ \A k \in Key : k \in Nat /\ KEY_MIN < k /\ k < KEY_MAX
  /\ KEY_MIN \in Nat /\ KEY_MAX \in Nat
  /\ TypeOK => \A n \in Node \union {Head, Tail} : keyOf(n) \in Nat
<1>1. /\ \A k \in Key : k \in Nat /\ KEY_MIN < k /\ k < KEY_MAX
      /\ KEY_MIN \in Nat /\ KEY_MAX \in Nat
  BY SetClientAssumption DEF Key, KEY_MIN, KEY_MAX
<1>2. QED BY <1>1, KeyOf DEF TypeOK, ClientTypeOK

(* The sentinels are no nodes. *)
LEMMA Sentinels == Head \notin Node /\ Tail \notin Node /\ NULL \notin Node /\ Head # Tail
BY ListClientAssumption, SetClientAssumption

(* Nobody comes to a node that is not linked without meeting a mark. *)
LEMMA UnmarkedIsLinked ==
  ASSUME TypeOK, Nodes, NEW t \in Tid, NEW n \in Node, Keeps(t, n), ~marked[n]
  PROVE  n \in LinkedNodes
BY DEF TypeOK, ClientTypeOK, Nodes, Keeps, LinkedNodes

(* A node that a call keeps has not been freed. *)
LEMMA KeptNotFree ==
  ASSUME TypeOK, Nodes, NEW t \in Tid, NEW n \in Node, Keeps(t, n)
  PROVE  status[n] # "free" /\ (n \notin LinkedNodes => status[n] \in {"unlinked", "retired"})
BY DEF TypeOK, ClientTypeOK, Nodes, Keeps, LinkedNodes

(* A running call is one of the three kinds, on a key. *)
LEMMA CallTyped ==
  ASSUME TypeOK, Calls, NEW t \in Tid, pc[t] # "idle"
  PROVE  op[t] \in Operation /\ op[t] # NONE /\ op[t].key \in Key
BY DEF TypeOK, ClientTypeOK, Calls, CallOf, Operation

-------------------------------------------------------------------------------
(* The list and the reclaimer change in seven ways only. *)
Quiet == UNCHANGED <<next, marked, key, status, active, waiting>>

Begins(t) ==
    /\ t \notin active /\ active' = active \union {t}
    /\ UNCHANGED <<next, marked, key, status, waiting>>

(* What an update has found and holds the lock of. *)
Adjacent(t) ==
    /\ pred[t] \in LinkedNodes \union {Head} /\ ~marked[pred[t]]
    /\ curr[t] \in LinkedNodes \union {Tail} /\ next[pred[t]] = curr[t]

Links(t, n) ==
    /\ pc[t] = "link" /\ Adjacent(t) /\ n \in Node /\ status[n] = "free"
    /\ op[t] \in Operation /\ op[t].key \in Key
    /\ keyOf(pred[t]) < op[t].key /\ op[t].key < keyOf(curr[t])
    /\ next' = [next EXCEPT ![n] = curr[t], ![pred[t]] = n]
    /\ status' = [m \in Node |-> IF m = n THEN "linked" ELSE status[m]]
    /\ key' = [m \in Node |-> IF m = n THEN op[t].key ELSE key[m]]
    /\ UNCHANGED <<marked, active, waiting>>

Marks(t) ==
    /\ pc[t] = "mark" /\ Adjacent(t) /\ curr[t] \in LinkedNodes /\ ~marked[curr[t]] /\ key[curr[t]] = op[t].key
    /\ marked' = [marked EXCEPT ![curr[t]] = TRUE]
    /\ UNCHANGED <<next, key, status, active, waiting>>

Unlinks(t) ==
    /\ pc[t] = "unlink" /\ Adjacent(t) /\ curr[t] \in LinkedNodes /\ marked[curr[t]]
    /\ next' = [next EXCEPT ![pred[t]] = next[curr[t]]]
    /\ status' = [m \in Node |-> IF m = curr[t] THEN "unlinked" ELSE status[m]]
    /\ waiting' = [m \in Node |-> IF m = curr[t] THEN active ELSE waiting[m]]
    /\ UNCHANGED <<marked, key, active>>

Retires(t) ==
    /\ pc[t] = "retire" /\ curr[t] \in Node /\ status[curr[t]] = "unlinked"
    /\ status' = [status EXCEPT ![curr[t]] = "retired"]
    /\ UNCHANGED <<next, marked, key, active, waiting>>

Ends(t) ==
    /\ active' = active \ {t}
    /\ waiting' = [n \in Node |-> waiting[n] \ {t}]
    /\ UNCHANGED <<next, marked, key, status>>

Frees(n) ==
    /\ n \in Node /\ status[n] = "retired" /\ waiting[n] = {}
    /\ status' = [status EXCEPT ![n] = "free"]
    /\ next' = [next EXCEPT ![n] = NULL]
    /\ marked' = [marked EXCEPT ![n] = FALSE]
    /\ key' = [key EXCEPT ![n] = KEY_MIN]
    /\ UNCHANGED <<active, waiting>>

Local == TypeOK /\ Calls /\ Nodes /\ Chain /\ Searches /\ Validated

(* doInsert links its node between the two that it has validated. *)
LEMMA LinkEffect ==
  ASSUME Local, NEW t \in Tid, insert_link(t)
  PROVE  \E n \in Node : Links(t, n)
<1> USE DEF Local
<1>1. pc[t] = "link"
  BY DEF insert_link, goto
<1>2. Adjacent(t)
  BY <1>1 DEF Validated, ValidatedOf, Adjacent
<1>3. op[t] \in Operation /\ op[t].key \in Key
  BY <1>1, CallTyped
<1>4. keyOf(pred[t]) < op[t].key /\ op[t].key <= keyOf(curr[t]) /\ op[t].key # keyOf(curr[t])
  BY <1>1 DEF Searches, SearchOf, UnderPred
<1>5. op[t].key < keyOf(curr[t])
  <2>1. curr[t] \in Node \union {Tail}
    BY <1>2 DEF Adjacent, LinkedNodes
  <2>2. QED BY <1>3, <1>4, <2>1, KeysAreNat
<1>6. PICK n \in Node : /\ link([m \in {n} |-> op[t].key])
                        /\ next' = [next EXCEPT ![n] = curr[t], ![pred[t]] = n]
  BY DEF insert_link
<1>7. /\ status[n] = "free"
      /\ status' = [m \in Node |-> IF m = n THEN "linked" ELSE status[m]]
      /\ key' = [m \in Node |-> IF m = n THEN op[t].key ELSE key[m]]
      /\ waiting' = waiting
  BY <1>6 DEF link
<1>8. marked' = marked /\ active' = active
  BY DEF insert_link
<1>9. Links(t, n)
  BY <1>1, <1>2, <1>3, <1>4, <1>5, <1>6, <1>7, <1>8 DEF Links
<1>10. QED BY <1>9

(* erase marks and unlinks the node that it has validated. *)
LEMMA EraseEffect ==
  ASSUME Local, NEW t \in Tid
  PROVE  /\ erase_mark(t) => Marks(t)
         /\ erase_unlink(t) => Unlinks(t)
         /\ erase_retire(t) => Retires(t)
<1> USE DEF Local
<1>1. ASSUME pc[t] \in {"mark", "unlink", "retire"}
      PROVE  curr[t] \in Node /\ key[curr[t]] = op[t].key
  <2>1. curr[t] \in Node \union {Tail} /\ keyOf(curr[t]) = op[t].key
    BY <1>1 DEF Searches, SearchOf, Calls, CallOf, UnderPred, UnderCurr
  <2>2. op[t].key \in Key
    BY <1>1, CallTyped
  <2>3. QED BY <2>1, <2>2, KeyOf, KeysAreNat
<1>2. ASSUME erase_mark(t) PROVE Marks(t)
  <2>1. pc[t] = "mark"
    BY <1>2 DEF erase_mark, goto
  <2>2. Adjacent(t) /\ ~marked[curr[t]]
    BY <2>1 DEF Validated, ValidatedOf, Adjacent
  <2>3. curr[t] \in LinkedNodes
    BY <1>1, <2>1, <2>2, Sentinels DEF Adjacent
  <2>4. QED BY <1>1, <1>2, <2>1, <2>2, <2>3 DEF erase_mark, Marks, nodes
<1>3. ASSUME erase_unlink(t) PROVE Unlinks(t)
  <2>1. pc[t] = "unlink"
    BY <1>3 DEF erase_unlink, goto
  <2>2. Adjacent(t) /\ marked[curr[t]]
    BY <2>1 DEF Validated, ValidatedOf, Adjacent
  <2>3. curr[t] \in LinkedNodes
    BY <1>1, <2>1, <2>2, Sentinels DEF Adjacent
  <2>4. QED BY <1>3, <2>1, <2>2, <2>3 DEF erase_unlink, unlink, call, Unlinks
<1>4. ASSUME erase_retire(t) PROVE Retires(t)
  <2>1. pc[t] = "retire"
    BY <1>4 DEF erase_retire, goto
  <2>2. QED BY <1>1, <1>4, <2>1
        DEF erase_retire, retireNode, list, call, Retires, Validated, ValidatedOf
<1>5. QED BY <1>2, <1>3, <1>4

(* Whatever a step does to the list, *)
EffectOf(t) ==
    \/ Quiet \/ Begins(t) \/ (\E n \in Node : Links(t, n)) \/ Marks(t) \/ Unlinks(t)
    \/ Retires(t) \/ Ends(t)
Effect == (\E t \in Tid : EffectOf(t)) \/ (\E n \in Node : Frees(n))

(* it is one of these. *)
LEMMA NextHasEffect ==
  /\ \A t \in Tid : Local /\ step(t) => EffectOf(t)
  /\ \A t \in Tid : Local /\ startOp(t, "search", set, 1) /\ UNCHANGED list => Begins(t)
  /\ \A t \in Tid : endOp(t) /\ UNCHANGED list => Ends(t)
  /\ \A n \in Node : freeNode(n) => Frees(n)
  /\ Local /\ Next => Effect
<1>1. ASSUME NEW t \in Tid, Local, step(t) PROVE EffectOf(t)
  <2>1. CASE \/ search_start(t) \/ search_walk(t) \/ search_return(t) \/ lockPred(t)
             \/ erase_lockCurr(t) \/ validate(t) \/ erase_unlockCurr(t) \/ unlockPred(t)
    <3>1. Quiet
      BY <2>1 DEF search_start, search_walk, search_return, lockPred, erase_lockCurr, validate,
                  erase_unlockCurr, unlockPred, nodes, call, list, Quiet
    <3>2. QED BY <3>1 DEF EffectOf
  <2>2. QED BY <1>1, <2>1, LinkEffect, EraseEffect DEF step, EffectOf
<1>2. ASSUME NEW t \in Tid, Local, startOp(t, "search", set, 1), UNCHANGED list PROVE Begins(t)
  BY <1>2 DEF startOp, goto, nodes, list, Local, Calls, CallOf, Begins
<1>3. ASSUME NEW t \in Tid, endOp(t), UNCHANGED list PROVE Ends(t)
  BY <1>3 DEF endOp, list, Ends
<1>4. ASSUME NEW n \in Node, freeNode(n) PROVE Frees(n)
  BY <1>4 DEF freeNode, free, call, Frees
<1>5. QED BY <1>1, <1>2, <1>3, <1>4 DEF Next, Effect, EffectOf

(* A call keeps its nodes, with their keys, and those that are marked with *)
(* their pointers; a node out of the list does not come back.              *)
LEMMA StepKeeps ==
  ASSUME TypeOK, Nodes, Effect, NEW u \in Tid, u \in active, u \in active',
         NEW n \in Node, Keeps(u, n)
  PROVE  /\ Keeps(u, n)'
         /\ key'[n] = key[n]
         /\ marked[n] => marked'[n] /\ next'[n] = next[n]
         /\ status'[n] = "linked" => status[n] = "linked"
<1> DEFINE Kept == /\ Keeps(u, n)' /\ key'[n] = key[n]
                   /\ marked[n] => marked'[n] /\ next'[n] = next[n]
                   /\ status'[n] = "linked" => status[n] = "linked"
<1> SUFFICES Kept
  OBVIOUS
<1> USE DEF TypeOK, ClientTypeOK, Nodes, Keeps
<1>0. status[n] # "free"
  BY KeptNotFree
<1>1. CASE Quiet
  BY <1>1 DEF Quiet
<1>2. ASSUME NEW t \in Tid, Begins(t) PROVE Kept
  BY <1>2 DEF Begins
<1>3. ASSUME NEW t \in Tid, NEW m \in Node, Links(t, m) PROVE Kept
  <2>1. m # n /\ (marked[n] => n # pred[t])
    BY <1>0, <1>3 DEF Links, Adjacent
  <2>2. next'[n] = IF n = pred[t] THEN m ELSE next[n]
    BY <1>3, <2>1, Sentinels DEF Links
  <2>3. status'[n] = status[n] /\ key'[n] = key[n] /\ waiting' = waiting /\ marked' = marked
    BY <1>3, <2>1 DEF Links
  <2>4. QED BY <2>1, <2>2, <2>3
<1>4. ASSUME NEW t \in Tid, Marks(t) PROVE Kept
  BY <1>4 DEF Marks
<1>5. ASSUME NEW t \in Tid, Unlinks(t) PROVE Kept
  <2>1. marked[n] => n # pred[t]
    BY <1>5 DEF Unlinks, Adjacent
  <2>2. n # pred[t] => next'[n] = next[n]
    BY <1>5 DEF Unlinks
  <2>3. /\ status'[n] = IF n = curr[t] THEN "unlinked" ELSE status[n]
        /\ waiting'[n] = IF n = curr[t] THEN active ELSE waiting[n]
        /\ key' = key /\ marked' = marked
    BY <1>5 DEF Unlinks
  <2>4. QED BY <2>1, <2>2, <2>3
<1>6. ASSUME NEW t \in Tid, Retires(t) PROVE Kept
  BY <1>6 DEF Retires
<1>7. ASSUME NEW t \in Tid, Ends(t) PROVE Kept
  BY <1>7 DEF Ends
<1>8. ASSUME NEW m \in Node, Frees(m) PROVE Kept
  <2>1. m # n
    BY <1>0, <1>8 DEF Frees
  <2>2. QED BY <1>8, <2>1 DEF Frees
<1>9. QED BY <1>1, <1>2, <1>3, <1>4, <1>5, <1>6, <1>7, <1>8 DEF Effect, EffectOf

(* The states of the nodes. *)
LEMMA NodesStep ==
  ASSUME Local, Effect
  PROVE  Nodes'
<1> USE Sentinels DEF Local, TypeOK, ClientTypeOK, Nodes
<1>1. CASE Quiet
  BY <1>1 DEF Quiet
<1>2. ASSUME NEW t \in Tid, Begins(t) PROVE Nodes'
  BY <1>2 DEF Begins
<1>3. ASSUME NEW t \in Tid, NEW m \in Node, Links(t, m) PROVE Nodes'
  <2>1. \A n \in Node : /\ status'[n] = IF n = m THEN "linked" ELSE status[n]
                        /\ key'[n] = IF n = m THEN op[t].key ELSE key[n]
    BY <1>3 DEF Links
  <2>2. op[t].key \in Key /\ status[m] = "free" /\ UNCHANGED <<marked, active, waiting>>
    BY <1>3 DEF Links
  <2>3. QED BY <2>1, <2>2
<1>4. ASSUME NEW t \in Tid, Marks(t) PROVE Nodes'
  <2>1. curr[t] \in Node /\ status[curr[t]] = "linked"
    BY <1>4 DEF Marks, LinkedNodes
  <2>2. \A n \in Node \union {Head, Tail} : marked'[n] = IF n = curr[t] THEN TRUE ELSE marked[n]
    BY <1>4, <2>1 DEF Marks
  <2>3. UNCHANGED <<key, status, active, waiting>>
    BY <1>4 DEF Marks
  <2>4. QED BY <2>1, <2>2, <2>3
<1>5. ASSUME NEW t \in Tid, Unlinks(t) PROVE Nodes'
  <2>1. \A n \in Node : /\ status'[n] = IF n = curr[t] THEN "unlinked" ELSE status[n]
                        /\ waiting'[n] = IF n = curr[t] THEN active ELSE waiting[n]
    BY <1>5 DEF Unlinks
  <2>2. marked[curr[t]] /\ UNCHANGED <<marked, key, active>>
    BY <1>5 DEF Unlinks
  <2>3. QED BY <2>1, <2>2
<1>6. ASSUME NEW t \in Tid, Retires(t) PROVE Nodes'
  BY <1>6 DEF Retires
<1>7. ASSUME NEW t \in Tid, Ends(t) PROVE Nodes'
  BY <1>7 DEF Ends
<1>8. ASSUME NEW n \in Node, Frees(n) PROVE Nodes'
  <2>1. \A m \in Node : /\ status'[m] = IF m = n THEN "free" ELSE status[m]
                        /\ marked'[m] = IF m = n THEN FALSE ELSE marked[m]
                        /\ m # n => key'[m] = key[m]
    BY <1>8 DEF Frees
  <2>2. waiting[n] = {} /\ UNCHANGED <<active, waiting>>
    BY <1>8 DEF Frees
  <2>3. ~marked'[Head] /\ ~marked'[Tail]
    BY <1>8 DEF Frees
  <2>4. QED BY <2>1, <2>2, <2>3
<1>9. QED BY <1>1, <1>2, <1>3, <1>4, <1>5, <1>6, <1>7, <1>8 DEF Effect, EffectOf

-------------------------------------------------------------------------------
(* No two nodes of the list have the same key or the same successor. *)
LEMMA OneOfAKind ==
  ASSUME TypeOK, Nodes, Chain,
         NEW n \in LinkedNodes \union {Head}, NEW m \in LinkedNodes \union {Head}
  PROVE  /\ keyOf(n) = keyOf(m) => n = m
         /\ next[n] = next[m] => n = m
<1>1. \A x \in LinkedNodes : x \in Node /\ keyOf(x) = key[x] /\ key[x] \in Key
  BY KeyOf DEF Nodes, LinkedNodes
<1>2. \A x \in LinkedNodes : KEY_MIN < keyOf(x)
  BY <1>1, KeysAreNat
<1>3. \A x \in LinkedNodes \union {Head, Tail} : keyOf(x) \in Nat
  BY <1>1, KeysAreNat
<1>4. keyOf(n) = keyOf(m) => n = m
  BY <1>1, <1>2, KeysAreNat, KeyOf DEF Chain
<1>5. ASSUME NEW x \in LinkedNodes \union {Head}, NEW y \in LinkedNodes \union {Head},
             next[x] = next[y]
      PROVE  ~(keyOf(x) < keyOf(y))
  <2>1. SUFFICES ASSUME keyOf(x) < keyOf(y) PROVE FALSE
    OBVIOUS
  <2>2. y \in LinkedNodes
    BY <1>3, <2>1, KeyOf DEF KEY_MIN
  <2>3. keyOf(next[x]) <= keyOf(y) /\ keyOf(y) < keyOf(next[y])
    BY <2>1, <2>2 DEF Chain
  <2>4. next[y] \in LinkedNodes \union {Tail}
    BY DEF Chain
  <2>5. QED BY <1>3, <1>5, <2>3, <2>4
<1>6. QED BY <1>3, <1>4, <1>5

(* The chain stays what it is when it does not change, *)
LEMMA ChainSame ==
  ASSUME Chain, LinkedNodes' = LinkedNodes, \A n \in LinkedNodes : key'[n] = key[n],
         \A n \in LinkedNodes \union {Head} : next'[n] = next[n]
  PROVE  Chain'
<1>1. \A n \in LinkedNodes \union {Head, Tail} : keyOf(n)' = keyOf(n)
  <2>1. \A n \in LinkedNodes : n \in Node
    BY DEF LinkedNodes
  <2>2. QED BY <2>1, KeyOf
<1>2. /\ \A n \in LinkedNodes \union {Head} :
            /\ next'[n] \in LinkedNodes \union {Tail}
            /\ keyOf(n)' < keyOf(next[n])'
            /\ \A x \in LinkedNodes : keyOf(n)' < keyOf(x)' => keyOf(next[n])' <= keyOf(x)'
      /\ \A n, m \in LinkedNodes : key'[n] = key'[m] => n = m
      /\ \A n \in LinkedNodes \union {Tail} :
            \E m \in LinkedNodes \union {Head} : next'[m] = n
  BY <1>1 DEF Chain
<1>3. QED BY <1>2 DEF Chain, keyOf

(* when a node leaves it, *)
LEMMA ChainRemove ==
  ASSUME TypeOK, Nodes, Chain, key' = key, NEW p \in LinkedNodes \union {Head},
         NEW c \in LinkedNodes, NEW q, next[p] = c, next[c] = q,
         LinkedNodes' = LinkedNodes \ {c}, next'[p] = q,
         \A n \in LinkedNodes \union {Head} : n # p => next'[n] = next[n]
  PROVE  Chain'
<1> DEFINE L == LinkedNodes
<1>1. /\ L \subseteq Node /\ Tail \notin L \union {Head} /\ Head \notin L
      /\ q \in L \union {Tail} /\ q # c
      /\ keyOf(p) < keyOf(c) /\ keyOf(c) < keyOf(q)
  <2>1. q \in L \union {Tail} /\ keyOf(p) < keyOf(c) /\ keyOf(c) < keyOf(q)
    BY DEF Chain
  <2>2. L \subseteq Node /\ Tail \notin L \union {Head} /\ Head \notin L
    BY Sentinels DEF LinkedNodes
  <2>3. keyOf(c) \in Nat
    BY <2>2, KeysAreNat
  <2>4. QED BY <2>1, <2>2, <2>3
<1>2. \A n \in L \union {Head, Tail} : keyOf(n)' = keyOf(n) /\ keyOf(n) \in Nat
  BY <1>1, KeyOf, KeysAreNat
<1>3. \A n \in (L \ {c}) \union {Head} : n # p => next'[n] = next[n] /\ next[n] # c
  BY OneOfAKind
<1>4. ASSUME NEW x \in L \ {c}, keyOf(p) < keyOf(x) PROVE keyOf(q) <= keyOf(x)
  <2>1. keyOf(c) <= keyOf(x)
    BY <1>4 DEF Chain
  <2>2. keyOf(c) # keyOf(x)
    BY <1>4, OneOfAKind
  <2>3. keyOf(c) < keyOf(x)
    BY <1>1, <1>2, <2>1, <2>2
  <2>4. QED BY <2>3 DEF Chain
<1>5. \A n \in (L \ {c}) \union {Head} : \E m \in (L \ {c}) \union {Tail} :
        /\ next'[n] = m /\ keyOf(n)' < keyOf(m)'
        /\ \A x \in L \ {c} : keyOf(n)' < keyOf(x)' => keyOf(m)' <= keyOf(x)'
  <2>1. ASSUME NEW n \in (L \ {c}) \union {Head}, n # p
        PROVE  \E m \in (L \ {c}) \union {Tail} :
                  /\ next'[n] = m /\ keyOf(n)' < keyOf(m)'
                  /\ \A x \in L \ {c} : keyOf(n)' < keyOf(x)' => keyOf(m)' <= keyOf(x)'
    <3>1. /\ next[n] \in L \union {Tail} /\ keyOf(n) < keyOf(next[n])
          /\ \A x \in L : keyOf(n) < keyOf(x) => keyOf(next[n]) <= keyOf(x)
      BY <2>1 DEF Chain
    <3>2. QED BY <1>2, <1>3, <2>1, <3>1
  <2>2. keyOf(p)' < keyOf(q)'
    BY <1>1, <1>2
  <2>3. \A x \in L \ {c} : keyOf(p)' < keyOf(x)' => keyOf(q)' <= keyOf(x)'
    BY <1>1, <1>2, <1>4
  <2>4. QED BY <1>1, <2>1, <2>2, <2>3
<1>6. \A n \in (L \ {c}) \union {Tail} : \E m \in (L \ {c}) \union {Head} : next'[m] = n
  <2>1. ASSUME NEW n \in (L \ {c}) \union {Tail}, n # q
        PROVE  \E m \in (L \ {c}) \union {Head} : next'[m] = n
    <3>1. PICK m \in L \union {Head} : next[m] = n
      BY <2>1 DEF Chain
    <3>2. m # c /\ m # p
      BY <1>1, <2>1, <3>1
    <3>3. QED BY <3>1, <3>2
  <2>2. p \in (L \ {c}) \union {Head}
    BY <1>1, <1>2
  <2>3. QED BY <2>1, <2>2
<1>7. \A n, m \in L \ {c} : key'[n] = key'[m] => n = m
  BY DEF Chain
<1>8. \A n \in (LinkedNodes \union {Head})' :
        /\ next'[n] \in (LinkedNodes \union {Tail})'
        /\ keyOf(n)' < keyOf(next[n])'
        /\ \A x \in LinkedNodes' : keyOf(n)' < keyOf(x)' => keyOf(next[n])' <= keyOf(x)'
  <2>1. \A n, m : next'[n] = m => keyOf(next[n])' = keyOf(m)'
    BY DEF keyOf
  <2>2. QED BY <1>5, <2>1
<1>9. QED BY <1>6, <1>7, <1>8 DEF Chain

(* and when one is put into it. *)
LEMMA ChainInsert ==
  ASSUME TypeOK, Nodes, Chain, NEW p \in LinkedNodes \union {Head},
         NEW x \in Node, x \notin LinkedNodes, LinkedNodes' = LinkedNodes \union {x},
         NEW k \in Key, key'[x] = k, \A n \in LinkedNodes : key'[n] = key[n],
         NEW c, next[p] = c, keyOf(p) < k, k < keyOf(c),
         next'[p] = x, next'[x] = c,
         \A n \in LinkedNodes \union {Head} : n # p => next'[n] = next[n]
  PROVE  Chain'
<1> DEFINE L == LinkedNodes
<1>1. L \subseteq Node /\ Tail \notin L \union {Head} /\ Head \notin L /\ x # Head /\ x # Tail
      /\ c \in L \union {Tail}
  BY Sentinels DEF LinkedNodes, Chain
<1>2. /\ \A n \in L \union {Head, Tail} : keyOf(n)' = keyOf(n) /\ keyOf(n) \in Nat
      /\ keyOf(x)' = k /\ k \in Nat
  BY <1>1, KeyOf, KeysAreNat
<1>3. \A y \in L : /\ keyOf(p) < keyOf(y) => k < keyOf(y)
                   /\ k < keyOf(y) => keyOf(c) <= keyOf(y)
                   /\ k # keyOf(y)
  <2>1. \A y \in L : keyOf(p) < keyOf(y) => keyOf(c) <= keyOf(y)
    BY DEF Chain
  <2>2. QED BY <1>1, <1>2, <2>1
<1>4. \A n \in L \union {Head} : n # p => next'[n] = next[n] /\ next[n] # c
  BY OneOfAKind
<1>5. ASSUME NEW n \in L \union {Head}, n # p, keyOf(n) < k
      PROVE  keyOf(next[n]) <= k
  <2>1. keyOf(n) < keyOf(p)
    <3>1. keyOf(n) # keyOf(p)
      BY <1>5, OneOfAKind
    <3>2. n \in L => ~(keyOf(p) < keyOf(n))
      BY <1>2, <1>3, <1>5
    <3>3. n = Head => ~(keyOf(p) < keyOf(n))
      BY <1>2, KeyOf DEF KEY_MIN
    <3>4. QED BY <1>2, <1>5, <3>1, <3>2, <3>3
  <2>2. p \in L
    BY <1>2, <2>1, KeyOf DEF KEY_MIN
  <2>3. keyOf(next[n]) <= keyOf(p) /\ next[n] \in L \union {Tail}
    BY <1>5, <2>1, <2>2 DEF Chain
  <2>4. QED BY <1>2, <2>3
<1>6. \A n \in L \union {x, Head} : \E m \in L \union {x, Tail} :
        /\ next'[n] = m /\ keyOf(n)' < keyOf(m)'
        /\ \A y \in L \union {x} : keyOf(n)' < keyOf(y)' => keyOf(m)' <= keyOf(y)'
  <2>1. ASSUME NEW n \in L \union {Head}, n # p
        PROVE  \E m \in L \union {x, Tail} :
                  /\ next'[n] = m /\ keyOf(n)' < keyOf(m)'
                  /\ \A y \in L \union {x} : keyOf(n)' < keyOf(y)' => keyOf(m)' <= keyOf(y)'
    <3>1. /\ next[n] \in L \union {Tail} /\ keyOf(n) < keyOf(next[n])
          /\ \A y \in L : keyOf(n) < keyOf(y) => keyOf(next[n]) <= keyOf(y)
      BY <2>1 DEF Chain
    <3>2. QED BY <1>2, <1>4, <1>5, <2>1, <3>1
  <2>2. \A y \in L \union {x} : keyOf(p)' < keyOf(y)' => keyOf(x)' <= keyOf(y)'
    BY <1>2, <1>3
  <2>3. \A y \in L \union {x} : keyOf(x)' < keyOf(y)' => keyOf(c)' <= keyOf(y)'
    BY <1>1, <1>2, <1>3
  <2>4. QED BY <1>1, <1>2, <2>1, <2>2, <2>3
<1>7. \A n \in L \union {x, Tail} : \E m \in L \union {x, Head} : next'[m] = n
  <2>1. ASSUME NEW n \in L \union {Tail}, n # c
        PROVE  \E m \in L \union {x, Head} : next'[m] = n
    <3>1. PICK m \in L \union {Head} : next[m] = n
      BY <2>1 DEF Chain
    <3>2. QED BY <2>1, <3>1
  <2>2. QED BY <2>1
<1>8. \A n, m \in L \union {x} : key'[n] = key'[m] => n = m
  <2>1. \A y \in L : key[y] # k
    BY <1>1, <1>3, KeyOf
  <2>2. QED BY <2>1 DEF Chain
<1>9. \A n \in (LinkedNodes \union {Head})' :
        /\ next'[n] \in (LinkedNodes \union {Tail})'
        /\ keyOf(n)' < keyOf(next[n])'
        /\ \A y \in LinkedNodes' : keyOf(n)' < keyOf(y)' => keyOf(next[n])' <= keyOf(y)'
  <2>1. \A n, m : next'[n] = m => keyOf(next[n])' = keyOf(m)'
    BY DEF keyOf
  <2>2. QED BY <1>6, <2>1
<1>10. QED
  <2>1. L \union {x, Head} = LinkedNodes' \union {Head}
        /\ L \union {x, Tail} = LinkedNodes' \union {Tail}
    OBVIOUS
  <2>2. QED BY <1>7, <1>8, <1>9, <2>1 DEF Chain

(* Which nodes are linked after a step. *)
LEMMA LinkedAfter ==
  ASSUME TypeOK, NEW t \in Tid
  PROVE  /\ Quiet \/ Begins(t) \/ Marks(t) \/ Retires(t) \/ Ends(t) => LinkedNodes' = LinkedNodes
         /\ \A n \in Node : Links(t, n) => /\ n \notin LinkedNodes
                                           /\ LinkedNodes' = LinkedNodes \union {n}
         /\ Unlinks(t) => LinkedNodes' = LinkedNodes \ {curr[t]}
         /\ \A n \in Node : Frees(n) => n \notin LinkedNodes /\ LinkedNodes' = LinkedNodes
<1> USE DEF TypeOK, ClientTypeOK, LinkedNodes
<1>1. Quiet \/ Begins(t) \/ Marks(t) \/ Retires(t) \/ Ends(t) => LinkedNodes' = LinkedNodes
  BY DEF Quiet, Begins, Marks, Retires, Ends
<1>2. ASSUME NEW n \in Node, Links(t, n)
      PROVE  n \notin LinkedNodes /\ LinkedNodes' = LinkedNodes \union {n}
  BY <1>2 DEF Links
<1>3. Unlinks(t) => LinkedNodes' = LinkedNodes \ {curr[t]}
  BY DEF Unlinks
<1>4. ASSUME NEW n \in Node, Frees(n) PROVE n \notin LinkedNodes /\ LinkedNodes' = LinkedNodes
  BY <1>4 DEF Frees
<1>5. QED BY <1>1, <1>2, <1>3, <1>4

(* The linked nodes stay a chain in the order of their keys, whatever a    *)
(* step does.                                                              *)
LEMMA ChainStep ==
  ASSUME Local, Effect
  PROVE  Chain'
<1> USE DEF Local
<1>0. /\ next \in [Node \union {Head} -> Node \union {Tail, NULL}] /\ key = [n \in Node |-> key[n]]
      /\ LinkedNodes \subseteq Node
  BY DEF TypeOK, ClientTypeOK, LinkedNodes
<1>1. ASSUME NEW t \in Tid, Quiet \/ Begins(t) \/ Marks(t) \/ Retires(t) \/ Ends(t)
      PROVE  Chain'
  <2>1. next' = next /\ key' = key
    BY <1>1 DEF Quiet, Begins, Marks, Retires, Ends
  <2>2. QED BY <1>1, <2>1, LinkedAfter, ChainSame
<1>2. ASSUME NEW t \in Tid, NEW n \in Node, Links(t, n) PROVE Chain'
  <2>1. n \notin LinkedNodes /\ LinkedNodes' = LinkedNodes \union {n}
    BY <1>2, LinkedAfter
  <2>2. /\ pred[t] \in LinkedNodes \union {Head} /\ next[pred[t]] = curr[t] /\ op[t].key \in Key
        /\ keyOf(pred[t]) < op[t].key /\ op[t].key < keyOf(curr[t])
    BY <1>2 DEF Links, Adjacent
  <2>3. key'[n] = op[t].key /\ \A m \in LinkedNodes : key'[m] = key[m]
    BY <1>0, <1>2, <2>1 DEF Links
  <2>4. /\ next'[pred[t]] = n /\ next'[n] = curr[t]
        /\ \A m \in LinkedNodes \union {Head} : m # pred[t] => next'[m] = next[m]
    BY <1>0, <1>2, <2>1, <2>2, Sentinels DEF Links
  <2>5. QED BY <2>1, <2>2, <2>3, <2>4, ChainInsert
<1>3. ASSUME NEW t \in Tid, Unlinks(t) PROVE Chain'
  <2>1. LinkedNodes' = LinkedNodes \ {curr[t]}
    BY <1>3, LinkedAfter
  <2>2. pred[t] \in LinkedNodes \union {Head} /\ curr[t] \in LinkedNodes /\ next[pred[t]] = curr[t]
    BY <1>3 DEF Unlinks, Adjacent
  <2>3. /\ next'[pred[t]] = next[curr[t]] /\ key' = key
        /\ \A m \in LinkedNodes \union {Head} : m # pred[t] => next'[m] = next[m]
    BY <1>0, <1>3, <2>2 DEF Unlinks
  <2>4. QED BY <2>1, <2>2, <2>3, ChainRemove
<1>4. ASSUME NEW n \in Node, Frees(n) PROVE Chain'
  <2>1. LinkedNodes' = LinkedNodes /\ n \notin LinkedNodes
    BY <1>4 DEF Frees, LinkedNodes, TypeOK, ClientTypeOK
  <2>2. /\ \A m \in LinkedNodes \union {Head} : next'[m] = next[m]
        /\ \A m \in LinkedNodes : key'[m] = key[m]
    BY <1>0, <1>4, <2>1, Sentinels DEF Frees
  <2>3. QED BY <2>1, <2>2, ChainSame
<1>5. QED BY <1>1, <1>2, <1>3, <1>4 DEF Effect, EffectOf

(* A node that is out of the list does not change while a call keeps it,   *)
(* nor does the key of its successor.                                      *)
LEMMA OutOfTheList ==
  ASSUME Local, Frozen, Effect, NEW n \in Node, NEW u \in waiting[n], u \in active'
  PROVE  /\ next'[n] = next[n] /\ next'[n] \in Node \union {Tail} /\ Keeps(u, next[n])'
         /\ keyOf(n)' = keyOf(n) /\ keyOf(next[n])' = keyOf(next[n])
         /\ keyOf(n)' < keyOf(next[n])'
<1> USE DEF Local
<1>1. u \in Tid /\ u \in active /\ Keeps(u, n) /\ marked[n]
  BY DEF Keeps, Nodes, TypeOK, ClientTypeOK
<1>2. next[n] \in Node \union {Tail} /\ Keeps(u, next[n]) /\ keyOf(n) < keyOf(next[n])
  BY DEF Frozen
<1>3. next'[n] = next[n] /\ key'[n] = key[n]
  BY <1>1, StepKeeps
<1>4. next[n] \in Node => Keeps(u, next[n])' /\ key'[next[n]] = key[next[n]]
  BY <1>1, <1>2, <1>3, StepKeeps DEF Keeps
<1>5. next[n] = Tail => Keeps(u, next[n])' /\ keyOf(next[n])' = keyOf(next[n])
  BY <1>3, Sentinels, KeyOf DEF Keeps, keyOf
<1>6. keyOf(next[n])' = keyOf(next[n])
  BY <1>2, <1>3, <1>4, <1>5 DEF keyOf
<1>7. keyOf(n)' = keyOf(n)
  BY <1>3, KeyOf
<1>8. QED BY <1>2, <1>3, <1>4, <1>5, <1>6, <1>7

(* A node that leaves the list still points into it, and the pointers of   *)
(* those that have left it do not change while a call keeps them.          *)
LEMMA FrozenStep ==
  ASSUME Local, Frozen, Effect
  PROVE  Frozen'
<1> USE DEF Local
<1>1. /\ TypeOK /\ Nodes /\ Nodes'
      /\ \A n \in Node : waiting[n] \subseteq Tid /\ waiting[n] \subseteq active
    BY NodesStep DEF TypeOK, ClientTypeOK, Nodes
<1>2. ASSUME NEW n \in Node, NEW u \in waiting'[n], u \in waiting[n]
      PROVE  /\ next'[n] \in Node \union {Tail} /\ Keeps(u, next[n])'
             /\ keyOf(n)' < keyOf(next[n])'
  <2>1. u \in active'
    BY <1>1, <1>2 DEF Nodes
  <2>2. QED BY <1>2, <2>1, OutOfTheList
<1>3. ASSUME NEW n \in Node, NEW u \in waiting'[n], u \notin waiting[n]
      PROVE  /\ next'[n] \in Node \union {Tail} /\ Keeps(u, next[n])'
             /\ keyOf(n)' < keyOf(next[n])'
  <2>1. PICK t \in Tid : Unlinks(t) /\ n = curr[t] /\ waiting' = [m \in Node |-> IF m = n THEN active
                                                                          ELSE waiting[m]]
    <3>1. ASSUME NEW t \in Tid, EffectOf(t) PROVE Unlinks(t) /\ n = curr[t]
      <4>1. ~(Quiet \/ Begins(t) \/ Marks(t) \/ Retires(t))
        BY <1>3 DEF Quiet, Begins, Marks, Retires
      <4>2. ~Ends(t) /\ \A m \in Node : ~Links(t, m)
        BY <1>3 DEF Ends, Links
      <4>3. Unlinks(t)
        BY <3>1, <4>1, <4>2 DEF EffectOf
      <4>4. QED BY <1>3, <4>3 DEF Unlinks
    <3>2. \A m \in Node : ~Frees(m)
      BY <1>3 DEF Frees
    <3>3. QED BY <3>1, <3>2 DEF Effect, Unlinks
  <2>2. /\ n \in LinkedNodes /\ n # pred[t] /\ next' = [next EXCEPT ![pred[t]] = next[n]]
        /\ key' = key /\ status' = [m \in Node |-> IF m = n THEN "unlinked" ELSE status[m]]
    <3>1. n \in LinkedNodes /\ marked[n] /\ ~marked[pred[t]]
      BY <2>1 DEF Unlinks, Adjacent
    <3>2. QED BY <2>1, <3>1 DEF Unlinks
  <2>3. next[n] \in LinkedNodes \union {Tail} /\ keyOf(n) < keyOf(next[n])
    BY <2>2 DEF Chain
  <2>4. next'[n] = next[n]
    BY <2>2 DEF TypeOK
  <2>5. next[n] # n
    <3>1. keyOf(n) \in Nat
      BY <1>1, KeysAreNat
    <3>2. QED BY <2>3, <3>1
  <2>6. \A x : keyOf(x)' = keyOf(x)
    BY <2>2 DEF keyOf
  <2>7. Keeps(u, next[n])'
    BY <2>2, <2>3, <2>4, <2>5, Sentinels DEF Keeps, LinkedNodes
  <2>8. keyOf(next[n])' = keyOf(next[n]) /\ keyOf(n)' = keyOf(n)
    BY <2>2, <2>4 DEF keyOf
  <2>9. QED BY <2>3, <2>4, <2>7, <2>8 DEF LinkedNodes
<1>4. QED BY <1>2, <1>3 DEF Frozen

-------------------------------------------------------------------------------
(* One thread's step leaves what the others have alone; their seen may     *)
(* grow.                                                                   *)
Same(u) ==
    /\ pc'[u] = pc[u] /\ op'[u] = op[u] /\ answer'[u] = answer[u] /\ seen[u] \subseteq seen'[u]
    /\ pred'[u] = pred[u] /\ curr'[u] = curr[u]
    /\ u \in active' <=> u \in active

Moves(t) ==
    \/ step(t)
    \/ (startOp(t, "search", set, 1) \/ endOp(t)) /\ UNCHANGED list

(* What is noticed is added. *)
LEMMA NoticeGrows ==
  ASSUME seen \in [Tid -> SUBSET BOOLEAN], NEW k, NEW b \in BOOLEAN, notice(k, b)
  PROVE  seen' \in [Tid -> SUBSET BOOLEAN] /\ \A u \in Tid : seen[u] \subseteq seen'[u]
<1>1. \A t \in Tid : seen[t] \union {b} \in SUBSET BOOLEAN /\ seen[t] \in SUBSET BOOLEAN
  OBVIOUS
<1>2. QED BY <1>1 DEF notice

(* A step of one thread leaves the locals of the others as they are, and   *)
(* while a call runs it stays the same call.                               *)
LEMMA OthersSame ==
  ASSUME Local
  PROVE  /\ \A t \in Tid : Moves(t) => \A u \in Tid \ {t} : Same(u)
         /\ \A n \in Node : freeNode(n) => \A u \in Tid : Same(u)
         /\ \A t \in Tid : step(t) => /\ op' = op /\ active' = active
                                      /\ seen[t] \subseteq seen'[t]
<1> USE DEF Local, Same, goto, call, position
<1>1. ASSUME NEW t \in Tid, startOp(t, "search", set, 1), NEW u \in Tid \ {t} PROVE Same(u)
  BY <1>1 DEF startOp, TypeOK, ClientTypeOK, Calls
<1>2. ASSUME NEW t \in Tid, endOp(t), NEW u \in Tid \ {t} PROVE Same(u)
  BY <1>2 DEF endOp, TypeOK, ClientTypeOK, Calls
<1>3. ASSUME NEW t \in Tid, step(t), NEW u \in Tid \ {t}
      PROVE  Same(u)
  <2> USE <1>3 DEF TypeOK, ClientTypeOK, Calls
  <2>1. CASE search_start(t) \/ search_walk(t)
    BY <2>1 DEF search_start, search_walk, setPosition
  <2>2. CASE search_return(t)
    BY <2>2 DEF search_return, decide
  <2>3. CASE lockPred(t) \/ erase_lockCurr(t) \/ erase_unlockCurr(t) \/ unlockPred(t)
    BY <2>3 DEF lockPred, erase_lockCurr, erase_unlockCurr, unlockPred
  <2>4. CASE validate(t)
    BY <2>4 DEF validate, decide
  <2>5. CASE insert_link(t)
    <3>1. \A v \in Tid : seen[v] \subseteq seen'[v]
      BY <2>5, NoticeGrows DEF insert_link, takeEffect
    <3>2. QED BY <2>5, <3>1 DEF insert_link, takeEffect, decide
  <2>6. CASE erase_mark(t)
    <3>1. \A v \in Tid : seen[v] \subseteq seen'[v]
      BY <2>6, NoticeGrows DEF erase_mark, takeEffect
    <3>2. QED BY <2>6, <3>1 DEF erase_mark, takeEffect, decide
  <2>7. CASE erase_unlink(t) \/ erase_retire(t)
    BY <2>7 DEF erase_unlink, erase_retire
  <2>8. QED BY <1>3, <2>1, <2>2, <2>3, <2>4, <2>5, <2>6, <2>7 DEF step
<1>4. ASSUME NEW n \in Node, freeNode(n), NEW u \in Tid PROVE Same(u)
  BY <1>4 DEF freeNode, free
<1>5. ASSUME NEW t \in Tid, step(t) PROVE op' = op /\ active' = active /\ seen[t] \subseteq seen'[t]
  <2> USE <1>5 DEF TypeOK, ClientTypeOK
  <2>1. CASE insert_link(t)
    BY <2>1, NoticeGrows DEF insert_link, takeEffect
  <2>2. CASE erase_mark(t)
    BY <2>2, NoticeGrows DEF erase_mark, takeEffect
  <2>3. QED
    BY <1>5, <2>1, <2>2
    DEF step, search_start, search_walk, search_return, lockPred, erase_lockCurr, validate,
        erase_unlink, erase_retire, erase_unlockCurr, unlockPred
<1>6. QED BY <1>1, <1>2, <1>3, <1>4, <1>5 DEF Moves

(* A step is a step of a thread or frees a node. *)
LEMMA NextMoves == Next <=> (\E t \in Tid : Moves(t)) \/ (\E n \in Node : freeNode(n))
BY DEF Next, Moves

(* A running call stays the same call. *)
LEMMA RunsOn ==
  ASSUME Local, Next, NEW u \in Tid, u \in active, u \in active'
  PROVE  op'[u] = op[u] /\ seen[u] \subseteq seen'[u]
<1>1. ASSUME NEW t \in Tid, Moves(t) PROVE op'[u] = op[u] /\ seen[u] \subseteq seen'[u]
  <2>1. CASE u # t
    BY <1>1, <2>1, OthersSame DEF Same
  <2>2. CASE u = t
    <3>1. ~startOp(t, "search", set, 1) /\ ~endOp(t)
      BY <2>2 DEF startOp, endOp, goto, Local, Calls, CallOf
    <3>2. QED BY <1>1, <2>2, <3>1, OthersSame DEF Moves
  <2>3. QED BY <2>1, <2>2
<1>2. ASSUME NEW n \in Node, freeNode(n) PROVE op'[u] = op[u] /\ seen[u] \subseteq seen'[u]
  BY <1>2, OthersSame DEF Same
<1>3. QED BY <1>1, <1>2, NextMoves

(* What a search has in hand, once it has started. *)
LEMMA Hands ==
  ASSUME Local, NEW t \in Tid, pc[t] \in {"walk", "lockPred"} \union UnderPred
  PROVE  /\ t \in active /\ op[t] \in Operation /\ op[t] # NONE /\ op[t].key \in Key
         /\ pred[t] \in Node \union {Head} /\ Keeps(t, pred[t]) /\ keyOf(pred[t]) \in Nat
         /\ curr[t] \in Node \union {Tail} /\ Keeps(t, curr[t]) /\ keyOf(curr[t]) \in Nat
         /\ keyOf(pred[t]) < op[t].key /\ keyOf(pred[t]) < keyOf(curr[t]) /\ pred[t] # curr[t]
<1> USE DEF Local
<1>1. pc[t] # "idle" /\ t \in active
  BY DEF UnderPred, Calls, CallOf
<1>2. op[t] \in Operation /\ op[t] # NONE /\ op[t].key \in Key
  BY <1>1, CallTyped
<1>3. /\ pred[t] \in Node \union {Head} /\ Keeps(t, pred[t])
      /\ curr[t] \in Node \union {Tail} /\ Keeps(t, curr[t])
      /\ keyOf(pred[t]) < op[t].key /\ keyOf(pred[t]) < keyOf(curr[t])
  BY <1>1 DEF Searches, SearchOf
<1>4. keyOf(pred[t]) \in Nat /\ keyOf(curr[t]) \in Nat
  BY <1>3, KeysAreNat
<1>5. pred[t] # curr[t]
  BY <1>3, <1>4
<1>6. QED BY <1>1, <1>2, <1>3, <1>4, <1>5

(* The sentinel at the end stops every search. *)
LEMMA WalksFromNode ==
  ASSUME Local, NEW t \in Tid, search_walk(t)
  PROVE  pc[t] = "walk" /\ curr[t] \in Node
<1>1. pc[t] = "walk"
  BY DEF search_walk, goto
<1>2. op[t].key \in Key /\ curr[t] \in Node \union {Tail}
  BY <1>1, Hands
<1>3. curr[t] # Tail
  BY <1>2, KeysAreNat, KeyOf DEF search_walk
<1>4. QED BY <1>1, <1>2, <1>3

(* Every step keeps the variables in their types.                          *)
LEMMA TypeStep ==
  ASSUME Local, Next
  PROVE  TypeOK' /\ pc' \in [Tid -> Steps]
<1> USE DEF Local, Steps, UnderPred, TypeOK, ClientTypeOK, goto, call, nodes, list, position
<1>0. pc \in [Tid -> Steps]
  BY DEF Calls
<1>1. ASSUME NEW t \in Tid, startOp(t, "search", set, 1), UNCHANGED list
      PROVE  TypeOK' /\ pc' \in [Tid -> Steps]
  <2>1. PICK o \in Operation : /\ op' = [op EXCEPT ![t] = o]
                               /\ seen' = [seen EXCEPT ![t] = {o.key \in set}]
    BY <1>1 DEF startOp
  <2>2. {o.key \in set} \in SUBSET BOOLEAN
    OBVIOUS
  <2>3. seen' \in [Tid -> SUBSET BOOLEAN]
    BY <2>1, <2>2
  <2>4. op' \in [Tid -> Operation \union {NONE}]
    BY <2>1
  <2>5. waiting' \in [Node -> SUBSET active'] /\ active' \subseteq Tid
    BY <1>1 DEF startOp
  <2>6. UNCHANGED <<key, status, pred, curr, answer, next, marked, lock>>
    BY <1>1 DEF startOp
  <2>7. pc' \in [Tid -> Steps]
    BY <1>0, <1>1 DEF startOp
  <2>8. QED BY <2>3, <2>4, <2>5, <2>6, <2>7
<1>2. ASSUME NEW t \in Tid, endOp(t), UNCHANGED list
      PROVE  TypeOK' /\ pc' \in [Tid -> Steps]
  <2>1. active' \subseteq Tid /\ waiting' \in [Node -> SUBSET active']
    BY <1>2 DEF endOp
  <2>2. QED BY <1>0, <1>2, <2>1 DEF endOp
<1>3. ASSUME NEW t \in Tid, search_start(t) PROVE TypeOK' /\ pc' \in [Tid -> Steps]
  BY <1>0, <1>3 DEF search_start, setPosition
<1>4. ASSUME NEW t \in Tid, search_walk(t) PROVE TypeOK' /\ pc' \in [Tid -> Steps]
  <2>1. curr[t] \in Node
    BY <1>4, WalksFromNode
  <2>2. QED BY <1>0, <1>4, <2>1 DEF search_walk, setPosition
<1>5. ASSUME NEW t \in Tid, search_return(t) PROVE TypeOK' /\ pc' \in [Tid -> Steps]
  <2>1. answer' \in [Tid -> BOOLEAN \union {NONE}]
    <3>1. ASSUME NEW b \in BOOLEAN, decide(t, b) PROVE answer' \in [Tid -> BOOLEAN \union {NONE}]
      BY <3>1 DEF decide
    <3>2. (keyOf(curr[t]) = op[t].key /\ ~marked[curr[t]]) \in BOOLEAN
      OBVIOUS
    <3>3. QED BY <1>5, <3>1, <3>2 DEF search_return
  <2>2. pc' \in [Tid -> Steps]
    BY <1>0, <1>5 DEF search_return
  <2>3. QED BY <1>5, <2>1, <2>2 DEF search_return
<1>6. ASSUME NEW t \in Tid,
             lockPred(t) \/ erase_lockCurr(t) \/ erase_unlockCurr(t) \/ unlockPred(t)
      PROVE  TypeOK' /\ pc' \in [Tid -> Steps]
  <2>1. lock' \in [Node \union {Head, Tail} -> BOOLEAN]
    BY <1>6 DEF lockPred, erase_lockCurr, erase_unlockCurr, unlockPred, acquireLock, releaseLock
  <2>2. pc' \in [Tid -> Steps]
    BY <1>0, <1>6 DEF lockPred, erase_lockCurr, erase_unlockCurr, unlockPred
  <2>3. QED BY <1>6, <2>1, <2>2 DEF lockPred, erase_lockCurr, erase_unlockCurr, unlockPred
<1>7. ASSUME NEW t \in Tid, validate(t) PROVE TypeOK' /\ pc' \in [Tid -> Steps]
  <2>1. answer' \in [Tid -> BOOLEAN \union {NONE}]
    BY <1>7 DEF validate, decide
  <2>2. pc' \in [Tid -> Steps]
    BY <1>0, <1>7 DEF validate
  <2>3. QED BY <1>7, <2>1, <2>2 DEF validate
<1>8. ASSUME NEW t \in Tid, insert_link(t) PROVE TypeOK' /\ pc' \in [Tid -> Steps]
  <2>1. PICK n \in Node : Links(t, n)
    BY <1>8, LinkEffect
  <2>2. key' \in [Node -> KEY_MIN .. KEY_MAX]
    BY <2>1, KeysAreNat DEF Links
  <2>3. status' \in [Node -> {"free", "linked", "unlinked", "retired"}]
    BY <2>1 DEF Links
  <2>4. next' \in [Node \union {Head} -> Node \union {Tail, NULL}]
    BY <2>1 DEF Links
  <2>5. seen' \in [Tid -> SUBSET BOOLEAN] /\ answer' \in [Tid -> BOOLEAN \union {NONE}]
    BY <1>8, NoticeGrows DEF insert_link, takeEffect, decide
  <2>6. UNCHANGED <<marked, lock, active, waiting, op, pred, curr>>
    BY <1>8, <2>1 DEF insert_link, Links
  <2>7. pc' \in [Tid -> Steps]
    BY <1>0, <1>8 DEF insert_link
  <2>8. QED BY <2>2, <2>3, <2>4, <2>5, <2>6, <2>7
<1>9. ASSUME NEW t \in Tid, erase_mark(t) PROVE TypeOK' /\ pc' \in [Tid -> Steps]
  <2>1. seen' \in [Tid -> SUBSET BOOLEAN] /\ answer' \in [Tid -> BOOLEAN \union {NONE}]
    BY <1>9, NoticeGrows DEF erase_mark, takeEffect, decide
  <2>2. QED BY <1>0, <1>9, <2>1 DEF erase_mark
<1>10. ASSUME NEW t \in Tid, erase_unlink(t) PROVE TypeOK' /\ pc' \in [Tid -> Steps]
  <2>1. Unlinks(t)
    BY <1>10, EraseEffect
  <2>2. next' \in [Node \union {Head} -> Node \union {Tail, NULL}]
    BY <2>1 DEF Unlinks, LinkedNodes
  <2>3. QED BY <1>0, <1>10, <2>1, <2>2 DEF erase_unlink, Unlinks
<1>11. ASSUME NEW t \in Tid, erase_retire(t) PROVE TypeOK' /\ pc' \in [Tid -> Steps]
  BY <1>0, <1>11 DEF erase_retire, retireNode
<1>12. ASSUME NEW n \in Node, freeNode(n) PROVE TypeOK' /\ pc' \in [Tid -> Steps]
  BY <1>0, <1>12, KeysAreNat DEF freeNode, free
<1>13. QED BY <1>1, <1>2, <1>3, <1>4, <1>5, <1>6, <1>7, <1>8, <1>9, <1>10, <1>11, <1>12
          DEF Next, step

(* The calls. *)
LEMMA CallsStep ==
  ASSUME Local, Next
  PROVE  Calls'
<1> USE DEF Local
<1>0. NONE \notin BOOLEAN /\ NONE \notin Operation /\ pc \in [Tid -> Steps]
  BY ListClientAssumption DEF Calls
<1>1. ASSUME NEW u \in Tid, Same(u) PROVE CallOf(u)'
  <2>1. CallOf(u)
    BY DEF Calls
  <2>2. QED BY <1>1, <2>1 DEF Same, CallOf
<1>2. ASSUME NEW t \in Tid, startOp(t, "search", set, 1) PROVE CallOf(t)'
  <2>1. /\ pc'[t] = "search" /\ t \in active' /\ answer'[t] = NONE /\ op'[t] # NONE
    BY <1>0, <1>2 DEF startOp, goto, Calls, CallOf, TypeOK, ClientTypeOK
  <2>2. QED BY <2>1 DEF CallOf, UnderPred, UnderCurr
<1>3. ASSUME NEW t \in Tid, endOp(t) PROVE CallOf(t)'
  BY <1>0, <1>3 DEF endOp, goto, TypeOK, ClientTypeOK, CallOf, UnderPred, UnderCurr
<1>4. ASSUME NEW t \in Tid, step(t), NEW q \in Steps \ {"idle"}, pc'[t] = q, NEW a, answer'[t] = a,
             q \in {"search", "walk", "lockPred", "lockCurr", "validate", "link", "mark"} => a = NONE,
             q \in {"unlink", "retire"} => a = TRUE,
             q = "end" => a # NONE,
             q \in {"lockPred"} \union UnderPred => op[t].kind # "contains",
             q \in {"lockCurr"} \union UnderCurr => op[t].kind = "erase",
             q = "link" => op[t].kind = "insert",
             pc[t] # "idle"
      PROVE  CallOf(t)'
  <2>1. op' = op /\ active' = active
    BY <1>4, OthersSame
  <2>2. op[t] # NONE /\ t \in active
    BY <1>4 DEF Calls, CallOf
  <2>3. QED BY <1>4, <2>1, <2>2 DEF CallOf
<1>5. ASSUME NEW t \in Tid, step(t) PROVE CallOf(t)'
  <2> USE DEF goto, Steps, UnderPred, UnderCurr, call
  <2>1. CallOf(t) /\ answer[t] \in BOOLEAN \union {NONE}
    BY DEF Calls, TypeOK, ClientTypeOK
  <2>2. pc[t] # "idle" => op[t].kind \in {"contains", "insert", "erase"}
    BY CallTyped DEF Operation
  <2>3. CASE search_start(t) \/ search_walk(t)
    BY <1>0, <1>4, <1>5, <2>1, <2>3 DEF search_start, search_walk, CallOf
  <2>4. CASE search_return(t)
    <3>1. ASSUME NEW b \in BOOLEAN, decide(t, b), pc'[t] = "end", pc[t] = "walk" PROVE CallOf(t)'
      <4>1. answer'[t] = b /\ b # NONE
        BY <1>0, <3>1 DEF decide, TypeOK, ClientTypeOK
      <4>2. QED BY <1>4, <1>5, <3>1, <4>1
    <3>2. (keyOf(curr[t]) = op[t].key /\ ~marked[curr[t]]) \in BOOLEAN
      OBVIOUS
    <3>3. ASSUME pc'[t] = "lockPred", pc[t] = "walk", is(t, "insert") \/ is(t, "erase"),
                 UNCHANGED answer
          PROVE  CallOf(t)'
      BY <1>4, <1>5, <2>1, <3>3 DEF CallOf, is
    <3>4. QED BY <1>0, <2>4, <3>1, <3>2, <3>3 DEF search_return
  <2>5. CASE lockPred(t)
    <3>1. /\ pc[t] = "lockPred" /\ UNCHANGED answer /\ op[t] # NONE
          /\ \/ pc'[t] = "validate"
             \/ pc'[t] = "lockCurr" /\ op[t].kind # "insert"
      BY <1>0, <2>1, <2>5 DEF lockPred, is, CallOf
    <3>2. QED BY <1>4, <1>5, <2>1, <2>2, <3>1 DEF CallOf
  <2>6. CASE erase_lockCurr(t) \/ erase_unlockCurr(t)
    <3>1. UNCHANGED answer /\ \/ pc[t] = "lockCurr" /\ pc'[t] = "validate"
                              \/ pc[t] = "unlockCurr" /\ pc'[t] = "unlockPred"
      BY <1>0, <2>6 DEF erase_lockCurr, erase_unlockCurr
    <3>2. QED BY <1>4, <1>5, <2>1, <3>1 DEF CallOf
  <2>7. CASE validate(t)
    <3>1. pc[t] = "validate" /\ answer[t] = NONE /\ op[t] # NONE /\ op[t].kind # "contains"
      BY <2>1, <2>7 DEF validate, CallOf
    <3>2. \/ pc'[t] = "unlockPred"
          \/ pc'[t] = "unlockCurr" /\ op[t].kind = "erase"
          \/ pc'[t] = "link" /\ op[t].kind = "insert" /\ answer'[t] = NONE
          \/ pc'[t] = "mark" /\ op[t].kind = "erase" /\ answer'[t] = NONE
      BY <1>0, <2>2, <2>7, <3>1 DEF validate, is
    <3>3. QED BY <1>4, <1>5, <3>1, <3>2
  <2>8. CASE insert_link(t) \/ erase_mark(t)
    <3>1. \/ pc[t] = "link" /\ pc'[t] = "unlockPred"
          \/ pc[t] = "mark" /\ pc'[t] = "unlink"
      BY <1>0, <2>8 DEF insert_link, erase_mark
    <3>2. answer'[t] = TRUE
      BY <2>8 DEF insert_link, erase_mark, takeEffect, decide, TypeOK, ClientTypeOK
    <3>3. QED BY <1>4, <1>5, <2>1, <3>1, <3>2 DEF CallOf
  <2>9. CASE erase_unlink(t) \/ erase_retire(t)
    <3>1. UNCHANGED answer /\ \/ pc[t] = "unlink" /\ pc'[t] = "retire"
                              \/ pc[t] = "retire" /\ pc'[t] = "unlockCurr"
      BY <1>0, <2>9 DEF erase_unlink, erase_retire
    <3>2. QED BY <1>4, <1>5, <2>1, <3>1 DEF CallOf
  <2>10. CASE unlockPred(t)
    <3>1. UNCHANGED answer /\ pc[t] = "unlockPred"
          /\ \/ pc'[t] = "search" /\ answer[t] = NONE
             \/ pc'[t] = "end" /\ answer[t] # NONE
      BY <1>0, <2>10 DEF unlockPred
    <3>2. QED BY <1>4, <1>5, <3>1
  <2>11. QED BY <1>5, <2>3, <2>4, <2>5, <2>6, <2>7, <2>8, <2>9, <2>10 DEF step
<1>6. ASSUME NEW t \in Tid, Moves(t) PROVE \A u \in Tid : CallOf(u)'
  <2>1. CallOf(t)'
    BY <1>2, <1>3, <1>5, <1>6 DEF Moves
  <2>2. \A u \in Tid \ {t} : CallOf(u)'
    BY <1>1, <1>6, OthersSame
  <2>3. QED BY <2>1, <2>2
<1>7. ASSUME NEW n \in Node, freeNode(n) PROVE \A u \in Tid : CallOf(u)'
  BY <1>1, <1>7, OthersSame
<1>8. QED BY <1>6, <1>7, NextMoves, TypeStep DEF Calls

-------------------------------------------------------------------------------
(* The set: a key is in it when an unmarked node of the list has it. *)
LEMMA InSet ==
  /\ \A k : k \in set <=> \E n \in LinkedNodes : ~marked[n] /\ key[n] = k
  /\ \A k : k \in set' <=> \E n \in LinkedNodes' : ~marked'[n] /\ key'[n] = k
BY DEF set, LinkedNodes

(* What is between two neighbours is absent, and a node with a mark is the *)
(* only one with its key.                                                  *)
LEMMA Between ==
  ASSUME Local, NEW n \in LinkedNodes \union {Head}, NEW k
  PROVE  /\ keyOf(n) < k /\ k < keyOf(next[n]) => k \notin set
         /\ n \in LinkedNodes /\ marked[n] /\ k = keyOf(n) => k \notin set
<1> USE DEF Local
<1>1. \A x \in LinkedNodes : keyOf(x) = key[x] /\ keyOf(x) \in Nat /\ x \in Node
  BY KeyOf, KeysAreNat DEF LinkedNodes
<1>2. ASSUME keyOf(n) < k, k < keyOf(next[n]), k \in set PROVE FALSE
  <2>1. PICK x \in LinkedNodes : key[x] = k
    BY <1>2, InSet
  <2>2. keyOf(next[n]) <= keyOf(x)
    BY <1>1, <1>2, <2>1 DEF Chain
  <2>3. keyOf(next[n]) \in Nat
    BY KeysAreNat DEF Chain, LinkedNodes
  <2>4. QED BY <1>1, <1>2, <2>1, <2>2, <2>3
<1>3. ASSUME n \in LinkedNodes, marked[n], k = keyOf(n), k \in set PROVE FALSE
  <2>1. PICK x \in LinkedNodes : key[x] = k /\ ~marked[x]
    BY <1>3, InSet
  <2>2. x = n
    BY <1>1, <1>3, <2>1 DEF Chain
  <2>3. QED BY <1>3, <2>1, <2>2
<1>4. QED BY <1>2, <1>3

(* The pointer that a search reads leads it on, past keys that it may deny.*)
LEMMA Onward ==
  ASSUME Local, Frozen, Gone, Seen, NEW t \in Tid, t \in active, op[t].key \in Key, op[t] # NONE,
         NEW n \in Node \union {Head}, Keeps(t, n), keyOf(n) < op[t].key
  PROVE  /\ next[n] \in Node \union {Tail} /\ Keeps(t, next[n])
         /\ keyOf(n) < keyOf(next[n])
         /\ op[t].key < keyOf(next[n]) => CanDeny(t)
<1> USE DEF Local
<1>1. CASE n \in LinkedNodes \union {Head}
  <2>1. next[n] \in LinkedNodes \union {Tail} /\ keyOf(n) < keyOf(next[n])
    BY <1>1 DEF Chain
  <2>2. op[t].key < keyOf(next[n]) => op[t].key \notin set
    BY <1>1, Between
  <2>3. QED BY <2>1, <2>2, Sentinels DEF LinkedNodes, Keeps, Seen, SeenOf, CanDeny
<1>2. CASE n \notin LinkedNodes \union {Head}
  <2>1. n \in Node /\ t \in waiting[n]
    BY <1>2 DEF LinkedNodes, Keeps
  <2>2. next[n] \in Node \union {Tail} /\ Keeps(t, next[n]) /\ keyOf(n) < keyOf(next[n])
    BY <2>1 DEF Frozen
  <2>3. keyOf(n) <= op[t].key
    BY <2>1, KeysAreNat
  <2>4. QED BY <2>1, <2>2, <2>3 DEF Gone
<1>3. QED BY <1>1, <1>2

(* What a search has in hand stays good while it stays there. *)
LEMMA SearchStays ==
  ASSUME Local, Effect, NEW u \in Tid, u \in active, u \in active',
         pred'[u] = pred[u], curr'[u] = curr[u], op'[u] = op[u], seen[u] \subseteq seen'[u]
  PROVE  /\ Keeps(u, pred[u])' /\ Keeps(u, curr[u])'
         /\ pc[u] \in {"walk", "lockPred"} \union UnderPred =>
               keyOf(pred[u])' = keyOf(pred[u]) /\ keyOf(curr[u])' = keyOf(curr[u])
         /\ CanDeny(u) => CanDeny(u)'
<1> USE DEF Local
<1>1. Keeps(u, pred[u]) /\ Keeps(u, curr[u])
  BY DEF Searches, SearchOf
<1>2. ASSUME NEW n \in Node, Keeps(u, n) PROVE Keeps(u, n)' /\ keyOf(n)' = keyOf(n)
  BY <1>2, StepKeeps, KeyOf
<1>3. Keeps(u, pred[u])' /\ Keeps(u, curr[u])'
  BY <1>1, <1>2 DEF Keeps
<1>4. ASSUME pc[u] \in {"walk", "lockPred"} \union UnderPred
      PROVE  keyOf(pred[u])' = keyOf(pred[u]) /\ keyOf(curr[u])' = keyOf(curr[u])
  <2>1. pred[u] \in Node \union {Head} /\ curr[u] \in Node \union {Tail}
    BY <1>4 DEF Searches, SearchOf
  <2>2. \A n \in {Head, Tail} : keyOf(n)' = keyOf(n)
    BY KeyOf
  <2>3. ASSUME NEW n, n = pred[u] PROVE keyOf(n)' = keyOf(n)
    BY <1>1, <1>2, <2>1, <2>2, <2>3
  <2>4. ASSUME NEW n, n = curr[u] PROVE keyOf(n)' = keyOf(n)
    BY <1>1, <1>2, <2>1, <2>2, <2>4
  <2>5. QED BY <2>3, <2>4 DEF keyOf
<1>5. QED BY <1>3, <1>4 DEF CanDeny

(* The searches. *)
LEMMA SearchesStep ==
  ASSUME Local, Frozen, Gone, Seen, Next
  PROVE  Searches'
<1> USE DEF Local
<1>0. Effect /\ Calls'
  BY NextHasEffect, CallsStep
<1>1. ASSUME NEW u \in Tid, Same(u) PROVE SearchOf(u)'
  <2>1. SearchOf(u)
    BY DEF Searches
  <2>2. CASE u \in active
    <3>1. u \in active'
      BY <1>1, <2>2 DEF Same
    <3>2. /\ Keeps(u, pred[u])' /\ Keeps(u, curr[u])'
          /\ pc[u] \in {"walk", "lockPred"} \union UnderPred =>
                keyOf(pred[u])' = keyOf(pred[u]) /\ keyOf(curr[u])' = keyOf(curr[u])
          /\ CanDeny(u) => CanDeny(u)'
      BY <1>0, <1>1, <2>2, <3>1, SearchStays DEF Same
    <3>3. pc'[u] = pc[u] /\ op'[u] = op[u] /\ pred'[u] = pred[u] /\ curr'[u] = curr[u]
      BY <1>1 DEF Same
    <3>4. QED BY <2>1, <2>2, <3>2, <3>3 DEF SearchOf, UnderPred
  <2>3. CASE u \notin active
    <3>1. pc'[u] = "idle" /\ u \notin active'
      BY <1>1, <2>3 DEF Same, Calls, CallOf
    <3>2. QED BY <3>1 DEF SearchOf, UnderPred
  <2>4. QED BY <2>2, <2>3
<1>2. ASSUME NEW t \in Tid, startOp(t, "search", set, 1) PROVE SearchOf(t)'
  <2>1. pc'[t] = "search" /\ pred'[t] = NULL /\ curr'[t] = NULL
    BY <1>2 DEF startOp, goto, position, Calls, CallOf
  <2>2. QED BY <2>1, Sentinels DEF SearchOf, Keeps, UnderPred
<1>3. ASSUME NEW t \in Tid, endOp(t) PROVE SearchOf(t)'
  <2>1. pc'[t] = "idle" /\ t \notin active'
    BY <1>3 DEF endOp, goto, Calls
  <2>2. QED BY <2>1 DEF SearchOf, UnderPred
<1>4. ASSUME NEW t \in Tid, NEW n \in Node \union {Head}, pc[t] \in {"search", "walk"}, pc'[t] = "walk",
             Keeps(t, n), keyOf(n) < op[t].key, pred'[t] = n, curr'[t] = next[n],
             UNCHANGED <<key, status, waiting, active, op, seen>>
      PROVE  SearchOf(t)'
  <2>1. t \in active /\ op[t] # NONE /\ op[t].key \in Key
    BY <1>4, CallTyped DEF Calls, CallOf
  <2>2. /\ next[n] \in Node \union {Tail} /\ Keeps(t, next[n]) /\ keyOf(n) < keyOf(next[n])
        /\ op[t].key < keyOf(next[n]) => CanDeny(t)
    BY <1>4, <2>1, Onward
  <2>3. keyOf(pred[t])' = keyOf(n) /\ keyOf(curr[t])' = keyOf(next[n])
    BY <1>4 DEF keyOf
  <2>4. Keeps(t, pred[t])' /\ Keeps(t, curr[t])' /\ (CanDeny(t) => CanDeny(t)')
    BY <1>4, <2>2 DEF Keeps, CanDeny
  <2>5. QED BY <1>4, <2>2, <2>3, <2>4 DEF SearchOf, UnderPred
<1>5. ASSUME NEW t \in Tid, search_start(t) PROVE SearchOf(t)'
  <2>1. /\ pc[t] = "search" /\ pc'[t] = "walk" /\ pred'[t] = Head /\ curr'[t] = next[Head]
        /\ UNCHANGED <<key, status, waiting, active, op, seen>>
    BY <1>5 DEF search_start, goto, setPosition, nodes, call, Calls, TypeOK, ClientTypeOK
  <2>2. Keeps(t, Head) /\ keyOf(Head) < op[t].key
    BY <2>1, CallTyped, KeysAreNat, KeyOf, Sentinels DEF Keeps
  <2>3. QED BY <1>4, <2>1, <2>2
<1>6. ASSUME NEW t \in Tid, search_walk(t) PROVE SearchOf(t)'
  <2>1. /\ pc[t] = "walk" /\ pc'[t] = "walk" /\ pred'[t] = curr[t] /\ curr'[t] = next[curr[t]]
        /\ UNCHANGED <<key, status, waiting, active, op, seen>> /\ keyOf(curr[t]) < op[t].key
    BY <1>6 DEF search_walk, goto, setPosition, nodes, call, Calls, TypeOK, ClientTypeOK
  <2>2. curr[t] \in Node /\ Keeps(t, curr[t])
    BY <1>6, <2>1, WalksFromNode, Hands
  <2>3. QED BY <1>4, <2>1, <2>2
<1>7. ASSUME NEW t \in Tid, step(t), UNCHANGED position, pc[t] # "idle",
             pc'[t] \in {"walk", "lockPred"} \union UnderPred =>
                pc[t] \in {"walk", "lockPred"} \union UnderPred,
             pc'[t] \in {"lockPred"} \union UnderPred =>
                /\ op[t].key <= keyOf(curr[t])
                /\ op[t].kind = "erase" => keyOf(curr[t]) = op[t].key,
             pc'[t] = "link" => op[t].key # keyOf(curr[t])
      PROVE  SearchOf(t)'
  <2>1. op' = op /\ active' = active /\ seen[t] \subseteq seen'[t] /\ t \in active
        /\ pred'[t] = pred[t] /\ curr'[t] = curr[t]
    BY <1>7, OthersSame DEF Calls, CallOf, position
  <2>2. SearchOf(t)
    BY DEF Searches
  <2>3. /\ Keeps(t, pred[t])' /\ Keeps(t, curr[t])'
        /\ pc[t] \in {"walk", "lockPred"} \union UnderPred =>
              keyOf(pred[t])' = keyOf(pred[t]) /\ keyOf(curr[t])' = keyOf(curr[t])
        /\ CanDeny(t) => CanDeny(t)'
    BY <1>0, <2>1, SearchStays
  <2>4. QED BY <1>7, <2>1, <2>2, <2>3 DEF SearchOf, UnderPred
<1>8. ASSUME NEW t \in Tid, step(t), UNCHANGED position, pc[t] \in {"lockPred"} \union UnderPred,
             pc'[t] = "link" => op[t].key # keyOf(curr[t])
      PROVE  SearchOf(t)'
  <2>1. pc[t] # "idle" /\ SearchOf(t)
    BY <1>8 DEF UnderPred, Searches
  <2>2. QED BY <1>7, <1>8, <2>1 DEF SearchOf
<1>9. ASSUME NEW t \in Tid, search_return(t) PROVE SearchOf(t)'
  <2>1. pc[t] = "walk" /\ UNCHANGED position /\ keyOf(curr[t]) >= op[t].key
    BY <1>9 DEF search_return
  <2>2. \/ pc'[t] = "end"
        \/ pc'[t] = "lockPred" /\ (op[t].kind = "erase" => keyOf(curr[t]) = op[t].key)
    BY <1>9 DEF search_return, goto, is, Calls
  <2>3. op[t].key <= keyOf(curr[t])
    BY <2>1, Hands, KeysAreNat
  <2>4. step(t)
    BY <1>9 DEF step
  <2>5. QED BY <1>7, <2>1, <2>2, <2>3, <2>4 DEF UnderPred
<1>10. ASSUME NEW t \in Tid, validate(t) PROVE SearchOf(t)'
  <2>1. pc[t] = "validate" /\ UNCHANGED position /\ step(t)
    BY <1>10 DEF validate, step
  <2>2. pc'[t] = "link" => keyOf(curr[t]) # op[t].key
    BY <1>10 DEF validate, goto, Calls
  <2>3. QED BY <1>8, <2>1, <2>2 DEF UnderPred
<1>11. ASSUME NEW t \in Tid,
              \/ lockPred(t) \/ erase_lockCurr(t) \/ insert_link(t) \/ erase_mark(t)
              \/ erase_unlink(t) \/ erase_retire(t) \/ erase_unlockCurr(t) \/ unlockPred(t)
       PROVE  SearchOf(t)'
  <2>1. /\ pc[t] \in {"lockPred"} \union UnderPred /\ UNCHANGED position /\ pc'[t] # "link"
    BY <1>11 DEF lockPred, erase_lockCurr, insert_link, erase_mark, erase_unlink, erase_retire,
                 erase_unlockCurr, unlockPred, goto, UnderPred, Calls
  <2>2. step(t)
    BY <1>11 DEF step
  <2>3. QED BY <1>8, <2>1, <2>2
<1>12. ASSUME NEW t \in Tid, Moves(t) PROVE \A u \in Tid : SearchOf(u)'
  <2>1. SearchOf(t)'
    BY <1>2, <1>3, <1>5, <1>6, <1>9, <1>10, <1>11, <1>12 DEF Moves, step
  <2>2. \A u \in Tid \ {t} : SearchOf(u)'
    BY <1>1, <1>12, OthersSame
  <2>3. QED BY <2>1, <2>2
<1>13. ASSUME NEW n \in Node, freeNode(n) PROVE \A u \in Tid : SearchOf(u)'
  BY <1>1, <1>13, OthersSame
<1>14. QED BY <1>12, <1>13, NextMoves DEF Searches

(* A node that is taken out leaves behind what its calls may deny. *)
LEMMA GoneStep ==
  ASSUME Local, Frozen, Gone, Seen, Next
  PROVE  Gone'
<1> USE DEF Local
<1>1. Effect /\ Nodes'
  BY NextHasEffect, NodesStep
<1>2. ASSUME NEW n \in Node, NEW u \in waiting'[n], keyOf(n)' <= op'[u].key,
             op'[u].key < keyOf(next[n])'
      PROVE  CanDeny(u)'
  <2>1. CASE u \in waiting[n]
    <3>1. u \in active' /\ u \in active /\ u \in Tid
      BY <1>1, <1>2, <2>1 DEF Nodes, TypeOK, ClientTypeOK
    <3>2. op'[u] = op[u] /\ seen[u] \subseteq seen'[u]
      BY <3>1, RunsOn
    <3>3. keyOf(n)' = keyOf(n) /\ keyOf(next[n])' = keyOf(next[n])
      BY <1>1, <2>1, <3>1, OutOfTheList
    <3>4. CanDeny(u)
      BY <1>2, <2>1, <3>2, <3>3 DEF Gone
    <3>5. QED BY <3>2, <3>4 DEF CanDeny
  <2>2. CASE u \notin waiting[n]
    <3>1. PICK t \in Tid : Unlinks(t) /\ n = curr[t]
      <4>1. ASSUME NEW t \in Tid, EffectOf(t) PROVE Unlinks(t) /\ n = curr[t]
        <5>1. ~(Quiet \/ Begins(t) \/ Marks(t) \/ Retires(t))
          BY <1>2, <2>2 DEF Quiet, Begins, Marks, Retires
        <5>2. ~Ends(t) /\ \A m \in Node : ~Links(t, m)
          BY <1>2, <2>2 DEF Ends, Links
        <5>3. Unlinks(t)
          BY <4>1, <5>1, <5>2 DEF EffectOf
        <5>4. QED BY <1>2, <2>2, <5>3 DEF Unlinks
      <4>2. \A m \in Node : ~Frees(m)
        BY <1>2, <2>2 DEF Frees
      <4>3. QED BY <1>1, <4>1, <4>2 DEF Effect
    <3>2. /\ n \in LinkedNodes /\ marked[n] /\ n # pred[t] /\ key' = key
          /\ next'[n] = next[n] /\ active' = active /\ u \in active
      BY <1>2, <3>1 DEF Unlinks, Adjacent, TypeOK, LinkedNodes
    <3>3. u \in Tid /\ op'[u] = op[u] /\ seen[u] \subseteq seen'[u]
      BY <3>2, RunsOn DEF TypeOK, ClientTypeOK
    <3>4. keyOf(n)' = keyOf(n) /\ keyOf(next[n])' = keyOf(next[n])
      BY <3>2 DEF keyOf
    <3>5. op[u] # NONE /\ op[u].key \in Key /\ keyOf(n) \in Nat
      BY <3>2, <3>3, CallTyped, KeysAreNat DEF Calls, CallOf, LinkedNodes
    <3>6. op[u].key \notin set
      <4>1. keyOf(n) <= op[u].key /\ op[u].key < keyOf(next[n])
        BY <1>2, <3>3, <3>4
      <4>2. keyOf(n) < op[u].key \/ keyOf(n) = op[u].key
        BY <3>5, <4>1, KeysAreNat
      <4>3. QED BY <3>2, <4>1, <4>2, Between
    <3>7. QED BY <3>3, <3>5, <3>6 DEF Seen, SeenOf, CanDeny
  <2>3. QED BY <2>1, <2>2
<1>3. QED BY <1>2 DEF Gone

-------------------------------------------------------------------------------
(* The three things a step can do to the locks: nothing, take one that is  *)
(* free, give back one of its own.                                         *)
LEMMA LocksChange ==
  ASSUME TypeOK, Locks, NEW t \in Tid, \A u \in Tid \ {t} : Same(u), UNCHANGED op,
         \/ /\ lock' = lock
            /\ \A n \in Node \union {Head, Tail} : owns(t, n)' <=> owns(t, n)
         \/ \E m \in Node \union {Head, Tail} :
               /\ acquireLock(m)
               /\ \A n \in Node \union {Head, Tail} : owns(t, n)' <=> (owns(t, n) \/ n = m)
         \/ \E m \in Node \union {Head, Tail} :
               /\ releaseLock(m) /\ owns(t, m)
               /\ \A n \in Node \union {Head, Tail} : owns(t, n)' <=> (owns(t, n) /\ n # m)
  PROVE  Locks'
<1> DEFINE N == Node \union {Head, Tail}
           Right == \A n \in N : /\ lock'[n] <=> \E u \in Tid : owns(u, n)'
                                 /\ \A u, v \in Tid : owns(u, n)' /\ owns(v, n)' => u = v
<1>1. \A u \in Tid, n \in N : u # t => (owns(u, n)' <=> owns(u, n))
  BY DEF owns, Same
<1>2. /\ \A n \in N : lock[n] <=> \E u \in Tid : owns(u, n)
      /\ \A n \in N : \A u, v \in Tid : owns(u, n) /\ owns(v, n) => u = v
  BY DEF Locks
<1>3. CASE lock' = lock /\ \A n \in N : owns(t, n)' <=> owns(t, n)
  <2>1. \A u \in Tid, n \in N : owns(u, n)' <=> owns(u, n)
    BY <1>1, <1>3
  <2> HIDE DEF N
  <2>2. Right
    BY <1>2, <1>3, <2>1, Zenon
  <2>3. QED BY <2>2 DEF Right, Locks, N
<1>4. ASSUME NEW m \in N, acquireLock(m), \A n \in N : owns(t, n)' <=> (owns(t, n) \/ n = m)
      PROVE  Locks'
  <2>1. ~lock[m] /\ \A n \in N : lock'[n] <=> (lock[n] \/ n = m)
    BY <1>4 DEF acquireLock, TypeOK
  <2>2. \A u \in Tid : ~owns(u, m)
    BY <1>2, <2>1
  <2>3. \A u \in Tid, n \in N : owns(u, n)' <=> (owns(u, n) \/ (u = t /\ n = m))
    BY <1>1, <1>4
  <2> HIDE DEF N
  <2>4. Right
    BY <1>2, <2>1, <2>2, <2>3, Zenon
  <2>5. QED BY <2>4 DEF Right, Locks, N
<1>5. ASSUME NEW m \in N, releaseLock(m), owns(t, m),
             \A n \in N : owns(t, n)' <=> (owns(t, n) /\ n # m)
      PROVE  Locks'
  <2>1. \A n \in N : lock'[n] <=> (lock[n] /\ n # m)
    BY <1>5 DEF releaseLock, TypeOK
  <2>2. \A u \in Tid : owns(u, m) => u = t
    BY <1>2, <1>5
  <2>3. \A u \in Tid, n \in N : owns(u, n)' <=> (owns(u, n) /\ n # m)
    <3>1. \A u \in Tid, n \in N : u # t => (owns(u, n) => n # m)
      BY <2>2
    <3>2. QED BY <1>1, <1>5, <3>1
  <2> HIDE DEF N
  <2>4. Right
    BY <1>2, <2>1, <2>3, Zenon
  <2>5. QED BY <2>4 DEF Right, Locks, N
<1>6. QED BY <1>3, <1>4, <1>5

(* The locks. *)
LEMMA LocksStep ==
  ASSUME Local, Locks, Next
  PROVE  Locks'
<1> USE DEF Local
<1> DEFINE N == Node \union {Head, Tail}
<1>0. pc \in [Tid -> Steps]
  BY DEF Calls
<1>1. ASSUME NEW t \in Tid, pc[t] \notin UnderPred, NEW n PROVE ~owns(t, n)
  BY <1>1 DEF owns, UnderPred, UnderCurr
<1>2. ASSUME NEW t \in Tid, pc'[t] \notin UnderPred, NEW n PROVE ~owns(t, n)'
  BY <1>2 DEF owns, UnderPred, UnderCurr
<1>3. ASSUME NEW t \in Tid, Moves(t), pc[t] \notin UnderPred, pc'[t] \notin UnderPred, UNCHANGED lock
      PROVE  Locks'
  <2>1. \A u \in Tid \ {t} : Same(u)
    BY <1>3, OthersSame
  <2>2. \A u \in Tid, n \in N : owns(u, n)' <=> owns(u, n)
    <3>1. \A n : ~owns(t, n) /\ ~owns(t, n)'
      BY <1>1, <1>2, <1>3
    <3>2. \A u \in Tid \ {t}, n \in N : owns(u, n)' <=> owns(u, n)
      BY <2>1 DEF owns, Same
    <3>3. QED BY <3>1, <3>2
  <2>3. /\ \A n \in N : lock[n] <=> \E u \in Tid : owns(u, n)
        /\ \A n \in N : \A u, v \in Tid : owns(u, n) /\ owns(v, n) => u = v
    BY DEF Locks
  <2> HIDE DEF N
  <2>4. \A n \in N : /\ lock'[n] <=> \E u \in Tid : owns(u, n)'
                     /\ \A u, v \in Tid : owns(u, n)' /\ owns(v, n)' => u = v
    BY <1>3, <2>2, <2>3, Zenon
  <2>5. QED BY <2>4 DEF Locks, N
<1>4. ASSUME NEW t \in Tid, startOp(t, "search", set, 1) \/ endOp(t), UNCHANGED list PROVE Locks'
  <2>1. pc[t] \notin UnderPred /\ pc'[t] \notin UnderPred
    BY <1>0, <1>4 DEF startOp, endOp, goto, UnderPred
  <2>2. QED BY <1>3, <1>4, <2>1 DEF Moves, list
<1>5. ASSUME NEW t \in Tid, search_start(t) \/ search_walk(t) \/ search_return(t) PROVE Locks'
  <2>1. pc[t] \notin UnderPred /\ pc'[t] \notin UnderPred /\ UNCHANGED lock
    BY <1>0, <1>5 DEF search_start, search_walk, search_return, goto, UnderPred, list
  <2>2. QED BY <1>3, <1>5, <2>1 DEF Moves, step
<1>6. ASSUME NEW t \in Tid, step(t) PROVE \A u \in Tid \ {t} : Same(u) /\ op' = op
  BY <1>6, OthersSame DEF Moves
<1>7. ASSUME NEW t \in Tid, pc[t] \in {"lockPred"} \union UnderPred
      PROVE  pred[t] \in N /\ curr[t] \in N /\ pred[t] # curr[t] /\ op[t].kind # "contains"
             /\ op[t].kind \in {"contains", "insert", "erase"} /\ op[t] # NONE
  <2>1. pred[t] \in N /\ curr[t] \in N /\ pred[t] # curr[t] /\ op[t] \in Operation /\ op[t] # NONE
    BY <1>7, Hands
  <2>2. QED BY <1>7, <2>1 DEF Calls, CallOf, Operation
<1>8. ASSUME NEW t \in Tid, lockPred(t) PROVE Locks'
  <2>1. /\ pc[t] = "lockPred" /\ acquireLock(pred[t]) /\ pred'[t] = pred[t] /\ curr'[t] = curr[t]
        /\ \/ pc'[t] = "validate" /\ op[t].kind = "insert"
           \/ pc'[t] = "lockCurr"
    BY <1>0, <1>8 DEF lockPred, goto, position, is
  <2>2. op' = op /\ (\A u \in Tid \ {t} : Same(u)) /\ pred[t] \in N
    BY <1>6, <1>7, <1>8, <2>1, OthersSame DEF step
  <2>3. \A n \in N : owns(t, n)' <=> (owns(t, n) \/ n = pred[t])
    BY <2>1, <2>2 DEF owns, UnderPred, UnderCurr
  <2>4. QED BY <2>1, <2>2, <2>3, LocksChange
<1>9. ASSUME NEW t \in Tid, erase_lockCurr(t) PROVE Locks'
  <2>1. /\ pc[t] = "lockCurr" /\ acquireLock(curr[t]) /\ pred'[t] = pred[t] /\ curr'[t] = curr[t]
        /\ pc'[t] = "validate" /\ op[t].kind = "erase"
    BY <1>0, <1>9 DEF erase_lockCurr, goto, position, Calls, CallOf
  <2>2. op' = op /\ (\A u \in Tid \ {t} : Same(u)) /\ curr[t] \in N
    BY <1>6, <1>7, <1>9, <2>1, OthersSame DEF step, UnderPred
  <2>3. \A n \in N : owns(t, n)' <=> (owns(t, n) \/ n = curr[t])
    BY <2>1, <2>2 DEF owns, UnderPred, UnderCurr
  <2>4. QED BY <2>1, <2>2, <2>3, LocksChange
<1>10. ASSUME NEW t \in Tid, erase_unlockCurr(t) PROVE Locks'
  <2>1. /\ pc[t] = "unlockCurr" /\ releaseLock(curr[t]) /\ pred'[t] = pred[t] /\ curr'[t] = curr[t]
        /\ pc'[t] = "unlockPred"
    BY <1>0, <1>10 DEF erase_unlockCurr, goto, position
  <2>2. op' = op /\ (\A u \in Tid \ {t} : Same(u)) /\ curr[t] \in N /\ pred[t] # curr[t]
    BY <1>6, <1>7, <1>10, <2>1, OthersSame DEF step, UnderPred
  <2>3. owns(t, curr[t]) /\ \A n \in N : owns(t, n)' <=> (owns(t, n) /\ n # curr[t])
    BY <2>1, <2>2 DEF owns, UnderPred, UnderCurr
  <2>4. QED BY <2>1, <2>2, <2>3, LocksChange
<1>11. ASSUME NEW t \in Tid, unlockPred(t) PROVE Locks'
  <2>1. /\ pc[t] = "unlockPred" /\ releaseLock(pred[t])
        /\ pc'[t] \in {"search", "end"}
    BY <1>0, <1>11 DEF unlockPred, goto
  <2>2. op' = op /\ (\A u \in Tid \ {t} : Same(u)) /\ pred[t] \in N
    BY <1>6, <1>7, <1>11, <2>1, OthersSame DEF step, UnderPred
  <2>3. owns(t, pred[t]) /\ \A n \in N : owns(t, n)' <=> (owns(t, n) /\ n # pred[t])
    BY <2>1, <2>2 DEF owns, UnderPred, UnderCurr
  <2>4. QED BY <2>1, <2>2, <2>3, LocksChange
<1>12. ASSUME NEW t \in Tid,
              \/ validate(t) \/ insert_link(t) \/ erase_mark(t) \/ erase_unlink(t) \/ erase_retire(t)
       PROVE  Locks'
  <2>0. step(t)
    BY <1>12 DEF step
  <2>1. UNCHANGED <<lock, position>> /\ pc[t] \in UnderPred
    BY <1>12 DEF validate, insert_link, erase_mark, erase_unlink, erase_retire, goto, list, UnderPred
  <2>2. op' = op /\ (\A u \in Tid \ {t} : Same(u))
        /\ op[t].kind \in {"insert", "erase"} /\ op[t] # NONE
    BY <1>6, <1>7, <2>0, <2>1, OthersSame
  <2>3. /\ pc'[t] \in UnderPred
        /\ pc[t] \in UnderCurr \/ (pc[t] = "validate" /\ op[t].kind = "erase") <=>
              pc'[t] \in UnderCurr
    <3>1. CASE validate(t)
      BY <1>0, <2>2, <3>1 DEF validate, goto, is, UnderPred, UnderCurr
    <3>2. CASE ~validate(t)
      BY <1>0, <1>12, <3>2
      DEF insert_link, erase_mark, erase_unlink, erase_retire, goto, UnderPred, UnderCurr
    <3>3. QED BY <3>1, <3>2
  <2>4. \A n \in N : owns(t, n)' <=> owns(t, n)
    <3>1. pc'[t] = "validate" => FALSE
      BY <1>0, <1>12 DEF validate, insert_link, erase_mark, erase_unlink, erase_retire, goto
    <3>2. QED BY <2>1, <2>2, <2>3, <3>1 DEF owns, position
  <2>5. QED BY <2>1, <2>2, <2>4, LocksChange
<1>13. ASSUME NEW n \in Node, freeNode(n) PROVE Locks'
  <2>1. UNCHANGED <<pc, op, pred, curr, lock>>
    BY <1>13 DEF freeNode, free, call, position
  <2>2. QED BY <2>1 DEF Locks, owns
<1>14. QED BY <1>4, <1>5, <1>8, <1>9, <1>10, <1>11, <1>12, <1>13 DEF Next, step

(* Two calls do not hold the lock of one node. *)
LEMMA LocksDiffer ==
  ASSUME Local, Locks, NEW t \in Tid, NEW u \in Tid \ {t}
  PROVE  /\ pc[t] \in UnderPred /\ pc[u] \in UnderPred => pred[t] # pred[u]
         /\ pc[t] \in UnderCurr /\ pc[u] \in UnderPred => curr[t] # pred[u]
         /\ pc[t] \in UnderCurr /\ pc[u] \in UnderCurr => curr[t] # curr[u]
<1> USE DEF Local
<1>1. \A n \in Node \union {Head, Tail} : ~(owns(t, n) /\ owns(u, n))
  BY DEF Locks
<1>2. UnderCurr \subseteq UnderPred
  BY DEF UnderCurr, UnderPred
<1>3. \A v \in {t, u} : pc[v] \in UnderPred =>
         pred[v] \in Node \union {Head, Tail} /\ curr[v] \in Node \union {Head, Tail}
  BY Hands
<1>4. \A v \in {t, u} : /\ pc[v] \in UnderPred => owns(v, pred[v])
                        /\ pc[v] \in UnderCurr => owns(v, curr[v])
  BY DEF owns
<1>5. QED
  <2>1. ASSUME pc[t] \in UnderPred, pc[u] \in UnderPred PROVE pred[t] # pred[u]
    BY <1>1, <1>3, <1>4, <2>1
  <2>2. ASSUME pc[t] \in UnderCurr, pc[u] \in UnderPred PROVE curr[t] # pred[u]
    BY <1>1, <1>2, <1>3, <1>4, <2>2
  <2>3. ASSUME pc[t] \in UnderCurr, pc[u] \in UnderCurr PROVE curr[t] # curr[u]
    BY <1>1, <1>2, <1>3, <1>4, <2>3
  <2>4. QED BY <2>1, <2>2, <2>3

(* A step of another thread does not touch what validate has seen: it      *)
(* would need a lock.                                                      *)
LEMMA ValidatedStays ==
  ASSUME Local, Locks, NEW u \in Tid, Same(u),
         \/ \E t \in Tid \ {u} : EffectOf(t)
         \/ \E n \in Node : Frees(n)
  PROVE  ValidatedOf(u)'
<1> USE DEF Local
<1>0. /\ LinkedNodes \subseteq Node /\ \A n : n \in LinkedNodes <=> n \in Node /\ status[n] = "linked"
      /\ \A n : n \in LinkedNodes' <=> n \in Node /\ status'[n] = "linked"
      /\ Head \notin Node /\ Tail \notin Node /\ Head # Tail
  BY Sentinels DEF LinkedNodes
<1>1. /\ next \in [Node \union {Head} -> Node \union {Tail, NULL}]
      /\ marked \in [Node \union {Head, Tail} -> BOOLEAN]
      /\ status \in [Node -> {"free", "linked", "unlinked", "retired"}]
  BY DEF TypeOK, ClientTypeOK
<1>2. ValidatedOf(u) /\ UNCHANGED <<pc[u], pred[u], curr[u]>>
  BY DEF Same, Validated
<1> DEFINE Both == /\ pred[u] \in LinkedNodes \union {Head} /\ ~marked[pred[u]]
                   /\ curr[u] \in LinkedNodes \union {Tail} /\ next[pred[u]] = curr[u]
           Stay == /\ pred[u] \in LinkedNodes' \union {Head} /\ ~marked'[pred[u]]
                   /\ curr[u] \in LinkedNodes' \union {Tail} /\ next'[pred[u]] = curr[u]
                   /\ pc[u] \in {"mark", "unlink"} => marked'[curr[u]] = marked[curr[u]]
<1>3. ASSUME pc[u] \in {"link", "mark", "unlink"}, Both, NEW t \in Tid \ {u}, EffectOf(t) PROVE Stay
  <2>1. CASE Quiet \/ Begins(t) \/ Retires(t) \/ Ends(t)
    <3>1. LinkedNodes' = LinkedNodes
      BY <2>1, LinkedAfter
    <3>2. next' = next /\ marked' = marked
      BY <2>1 DEF Quiet, Begins, Retires, Ends
    <3>3. QED BY <1>3, <3>1, <3>2
  <2>2. ASSUME NEW n \in Node, Links(t, n) PROVE Stay
    <3>1. LinkedNodes' = LinkedNodes \union {n} /\ n \notin LinkedNodes
      BY <2>2, LinkedAfter
    <3>2. pred[u] # pred[t]
      BY <1>3, <2>2, LocksDiffer DEF Links, UnderPred
    <3>3. next'[pred[u]] = next[pred[u]] /\ marked' = marked
      BY <1>0, <1>1, <1>3, <2>2, <3>1, <3>2 DEF Links
    <3>4. QED BY <1>3, <3>1, <3>3
  <2>3. CASE Marks(t)
    <3>1. LinkedNodes' = LinkedNodes
      BY <2>3, LinkedAfter
    <3>2. curr[t] # pred[u] /\ (pc[u] \in {"mark", "unlink"} => curr[t] # curr[u])
      BY <1>3, <2>3, LocksDiffer DEF Marks, UnderPred, UnderCurr
    <3>3. next' = next /\ \A n \in Node \union {Head, Tail} : n # curr[t] => marked'[n] = marked[n]
      BY <1>1, <2>3 DEF Marks
    <3>4. QED BY <1>0, <1>3, <3>1, <3>2, <3>3
  <2>4. CASE Unlinks(t)
    <3>1. LinkedNodes' = LinkedNodes \ {curr[t]}
      BY <2>4, LinkedAfter
    <3>2. curr[t] # pred[u] /\ pred[t] # pred[u]
      BY <1>3, <2>4, LocksDiffer DEF Unlinks, UnderPred, UnderCurr
    <3>3. curr[t] # curr[u]
      <4>1. next[pred[t]] = curr[t] /\ pred[t] \in LinkedNodes \union {Head}
        BY <2>4 DEF Unlinks, Adjacent
      <4>2. QED BY <1>3, <3>2, <4>1, OneOfAKind
    <3>4. next'[pred[u]] = next[pred[u]] /\ marked' = marked
      BY <1>0, <1>1, <1>3, <2>4, <3>2 DEF Unlinks
    <3>5. QED BY <1>0, <1>3, <2>4, <3>1, <3>2, <3>3, <3>4 DEF Unlinks
  <2>5. QED BY <1>3, <2>1, <2>2, <2>3, <2>4 DEF EffectOf
<1>4. ASSUME pc[u] \in {"link", "mark", "unlink"}, Both, NEW n \in Node, Frees(n) PROVE Stay
  <2>1. LinkedNodes' = LinkedNodes /\ n \notin LinkedNodes
    BY <1>4, LinkedAfter
  <2>2. \A m \in Node \union {Head, Tail} : m # n => marked'[m] = marked[m]
    BY <1>1, <1>4 DEF Frees
  <2>3. next'[pred[u]] = next[pred[u]]
    BY <1>0, <1>1, <1>4, <2>1 DEF Frees
  <2>4. QED BY <1>0, <1>4, <2>1, <2>2, <2>3
<1>5. ASSUME pc[u] = "retire", status[curr[u]] = "unlinked", curr[u] \in Node
      PROVE  status'[curr[u]] = "unlinked"
  <2>1. ASSUME NEW t \in Tid \ {u}, EffectOf(t) PROVE status'[curr[u]] = "unlinked"
    <3>1. Retires(t) => curr[t] # curr[u]
      BY <1>5, <2>1, LocksDiffer DEF Retires, UnderPred, UnderCurr
    <3>2. QED BY <1>0, <1>1, <1>5, <2>1, <3>1
          DEF EffectOf, Quiet, Begins, Links, Marks, Unlinks, Retires, Ends
  <2>2. ASSUME NEW n \in Node, Frees(n) PROVE status'[curr[u]] = "unlinked"
    BY <1>1, <1>5, <2>2 DEF Frees
  <2>3. QED BY <2>1, <2>2
<1>6. pc[u] = "retire" => curr[u] \in Node
  <2>1. SUFFICES ASSUME pc[u] = "retire" PROVE curr[u] \in Node
    OBVIOUS
  <2>2. curr[u] \in Node \union {Tail} /\ keyOf(curr[u]) = op[u].key /\ op[u].key \in Key
    BY <2>1, Hands DEF Searches, SearchOf, Calls, CallOf, UnderPred, UnderCurr
  <2>3. QED BY <2>2, KeyOf, KeysAreNat
<1>7. pc[u] \in {"link", "mark", "unlink"} => Stay
  BY <1>2, <1>3, <1>4 DEF ValidatedOf
<1>8. QED BY <1>2, <1>5, <1>6, <1>7 DEF ValidatedOf

(* What validate has seen. *)
LEMMA ValidatedStep ==
  ASSUME Local, Locks, Next
  PROVE  Validated'
<1> USE DEF Local
<1>0. pc \in [Tid -> Steps] /\ Effect
  BY NextHasEffect DEF Calls
<1>1. ASSUME NEW t \in Tid, pc'[t] \notin {"link", "mark", "unlink", "retire"} PROVE ValidatedOf(t)'
  BY <1>1 DEF ValidatedOf
<1>2. ASSUME NEW t \in Tid, validate(t) PROVE ValidatedOf(t)'
  <2>1. /\ pc[t] = "validate"
        /\ UNCHANGED <<next, marked, key, status, pred, curr>>
        /\ pc'[t] \in {"link", "mark"} => validateLinks(t)
        /\ pc'[t] \in {"link", "mark", "unlockPred", "unlockCurr"}
    BY <1>0, <1>2 DEF validate, goto, nodes, list, position
  <2>2. SUFFICES ASSUME validateLinks(t), pc'[t] \in {"link", "mark"} PROVE ValidatedOf(t)'
    BY <1>1, <2>1
  <2>3. /\ pred[t] \in Node \union {Head} /\ Keeps(t, pred[t])
        /\ curr[t] \in Node \union {Tail} /\ Keeps(t, curr[t])
    BY <2>1, Hands DEF UnderPred
  <2>4. pred[t] \in LinkedNodes \union {Head}
    BY <2>2, <2>3, UnmarkedIsLinked DEF validateLinks
  <2>5. curr[t] \in LinkedNodes \union {Tail}
    BY <2>2, <2>3, UnmarkedIsLinked DEF validateLinks
  <2>6. LinkedNodes' = LinkedNodes
    BY <2>1 DEF LinkedNodes
  <2>7. QED BY <2>1, <2>2, <2>4, <2>5, <2>6 DEF validateLinks, ValidatedOf
<1>3. ASSUME NEW t \in Tid, erase_mark(t) PROVE ValidatedOf(t)'
  <2>1. pc[t] = "mark" /\ pc'[t] = "unlink" /\ UNCHANGED <<pred, curr>> /\ Marks(t)
    BY <1>0, <1>3, EraseEffect DEF erase_mark, goto, position
  <2>2. pred[t] # curr[t]
    BY <2>1, Hands DEF UnderPred
  <2>3. /\ Adjacent(t) /\ curr[t] \in LinkedNodes /\ next' = next /\ LinkedNodes' = LinkedNodes
        /\ marked' = [marked EXCEPT ![curr[t]] = TRUE]
    BY <2>1, LinkedAfter DEF Marks
  <2>4. marked'[curr[t]] /\ ~marked'[pred[t]]
    BY <2>2, <2>3 DEF Adjacent, TypeOK, LinkedNodes
  <2>5. QED BY <2>1, <2>3, <2>4 DEF Adjacent, ValidatedOf
<1>4. ASSUME NEW t \in Tid, erase_unlink(t) PROVE ValidatedOf(t)'
  <2>1. pc'[t] = "retire" /\ UNCHANGED <<pred, curr>> /\ Unlinks(t)
    BY <1>0, <1>4, EraseEffect DEF erase_unlink, goto, position
  <2>2. status'[curr[t]] = "unlinked"
    BY <2>1 DEF Unlinks, LinkedNodes
  <2>3. QED BY <2>1, <2>2 DEF ValidatedOf
<1>5. ASSUME NEW t \in Tid, step(t), ~validate(t), ~erase_mark(t), ~erase_unlink(t)
      PROVE  ValidatedOf(t)'
  <2>1. pc'[t] \notin {"link", "mark", "unlink", "retire"}
    BY <1>0, <1>5
    DEF step, search_start, search_walk, search_return, lockPred, erase_lockCurr, insert_link,
        erase_retire, erase_unlockCurr, unlockPred, goto
  <2>2. QED BY <1>1, <2>1
<1>6. ASSUME NEW t \in Tid, startOp(t, "search", set, 1) \/ endOp(t) PROVE ValidatedOf(t)'
  BY <1>0, <1>1, <1>6 DEF startOp, endOp, goto
<1>7. ASSUME NEW t \in Tid, Moves(t) PROVE \A u \in Tid : ValidatedOf(u)'
  <2>1. ValidatedOf(t)'
    BY <1>2, <1>3, <1>4, <1>5, <1>6, <1>7 DEF Moves
  <2>2. EffectOf(t)
    BY <1>7, NextHasEffect DEF Moves, EffectOf
  <2>3. \A u \in Tid \ {t} : ValidatedOf(u)'
    BY <1>7, <2>2, OthersSame, ValidatedStays
  <2>4. QED BY <2>1, <2>3
<1>8. ASSUME NEW n \in Node, freeNode(n) PROVE \A u \in Tid : ValidatedOf(u)'
  BY <1>8, NextHasEffect, OthersSame, ValidatedStays
<1>9. QED BY <1>7, <1>8, NextMoves DEF Validated

-------------------------------------------------------------------------------
(* The set stays the same where only marked nodes are unlinked and no mark *)
(* or key of a linked node changes, *)
LEMMA SetStays ==
  ASSUME Local, NEW t \in Tid,
         \/ Quiet \/ Begins(t) \/ Unlinks(t) \/ Retires(t) \/ Ends(t)
         \/ \E n \in Node : Frees(n)
  PROVE  set' = set
<1> USE DEF Local
<1>1. ASSUME LinkedNodes' \subseteq LinkedNodes,
             \A n \in LinkedNodes : /\ key'[n] = key[n]
                                    /\ marked'[n] <=> marked[n]
                                    /\ n \notin LinkedNodes' => marked[n]
      PROVE  set' = set
  <2>1. \A k : k \in set' <=> k \in set
    BY <1>1, InSet
  <2>2. QED BY <2>1
<1>2. CASE Quiet \/ Begins(t) \/ Retires(t) \/ Ends(t)
  <2>1. LinkedNodes' = LinkedNodes /\ key' = key /\ marked' = marked
    BY <1>2, LinkedAfter DEF Quiet, Begins, Retires, Ends
  <2>2. QED BY <1>1, <2>1
<1>3. CASE Unlinks(t)
  <2>1. LinkedNodes' = LinkedNodes \ {curr[t]} /\ marked[curr[t]] /\ key' = key /\ marked' = marked
    BY <1>3, LinkedAfter DEF Unlinks
  <2>2. QED BY <1>1, <2>1
<1>4. ASSUME NEW n \in Node, Frees(n) PROVE set' = set
  <2>1. LinkedNodes' = LinkedNodes /\ n \notin LinkedNodes
    BY <1>4, LinkedAfter
  <2>2. \A m \in LinkedNodes : key'[m] = key[m] /\ marked'[m] = marked[m]
    BY <1>4, <2>1 DEF Frees, LinkedNodes, TypeOK, ClientTypeOK
  <2>3. QED BY <1>1, <2>1, <2>2
<1>5. QED BY <1>2, <1>3, <1>4

(* doInsert adds the key of its call, which the set did not have, *)
LEMMA SetAdds ==
  ASSUME Local, NEW t \in Tid, NEW x \in Node, Links(t, x)
  PROVE  op[t].key \notin set /\ set' = set \union {op[t].key}
<1> USE DEF Local
<1>1. /\ pred[t] \in LinkedNodes \union {Head} /\ next[pred[t]] = curr[t]
      /\ keyOf(pred[t]) < op[t].key /\ op[t].key < keyOf(curr[t])
  BY DEF Links, Adjacent
<1>2. op[t].key \notin set
  BY <1>1, Between
<1>3. LinkedNodes' = LinkedNodes \union {x} /\ x \notin LinkedNodes
  BY LinkedAfter
<1>4. /\ \A n \in LinkedNodes : key'[n] = key[n] /\ marked'[n] = marked[n]
      /\ key'[x] = op[t].key /\ ~marked'[x]
  BY <1>3 DEF Links, LinkedNodes, Nodes
<1>5. \A k : k \in set' <=> k \in set \/ k = op[t].key
  BY <1>3, <1>4, InSet
<1>6. QED BY <1>2, <1>5

(* and the mark of erase removes the key of its call, which the set had.   *)
LEMMA SetRemoves ==
  ASSUME Local, NEW t \in Tid, Marks(t)
  PROVE  op[t].key \in set /\ set' = set \ {op[t].key}
<1> USE DEF Local
<1> DEFINE c == curr[t]
<1>1. c \in LinkedNodes /\ ~marked[c] /\ key[c] = op[t].key /\ key' = key
      /\ LinkedNodes' = LinkedNodes
  BY LinkedAfter DEF Marks
<1>2. \A n \in LinkedNodes : marked'[n] <=> (marked[n] \/ n = c)
  BY <1>1 DEF Marks, LinkedNodes, TypeOK
<1>3. \A n \in LinkedNodes : key[n] = key[c] => n = c
  BY <1>1 DEF Chain
<1>4. \A k : k \in set' <=> k \in set /\ k # key[c]
  BY <1>1, <1>2, <1>3, InSet, SMTT(30)
<1>5. QED BY <1>1, <1>4, InSet

(* What seen starts with. *)
LEMMA Present == \A S, x : {(x \in S)} = IF x \in S THEN {TRUE} ELSE {FALSE}
<1>1. ASSUME NEW S, NEW x, x \in S PROVE {(x \in S)} = {TRUE}
  BY <1>1, Zenon
<1>2. ASSUME NEW S, NEW x, x \notin S PROVE {(x \in S)} = {FALSE}
  <2> DEFINE b == x \in S
  <2>1. b \in BOOLEAN /\ ~b
    BY <1>2
  <2> HIDE DEF b
  <2>2. {b} = {FALSE}
    BY <2>1, Zenon
  <2>3. QED BY <2>2 DEF b
<1>3. QED BY <1>1, <1>2, Zenon

(* A call is the abstract set's. *)
LEMMA CallStep ==
  ASSUME Local, NEW t \in Tid, startOp(t, "search", set, 1), UNCHANGED list
  PROVE  set' = set /\ \E o \in Operation : AbstractSet!Call(t, o)
<1> USE DEF Local
<1>1. set' = set
  BY NextHasEffect, SetStays
<1>2. op[t] = NONE
  BY DEF startOp, goto, Calls, CallOf
<1>3. PICK o \in Operation : /\ op' = [op EXCEPT ![t] = o]
                             /\ seen' = [seen EXCEPT ![t] = {o.key \in set}]
  BY DEF startOp
<1>4. answer' = answer
  BY DEF startOp
<1>5. AbstractSet!Call(t, o)
  BY <1>1, <1>2, <1>3, <1>4 DEF AbstractSet!Call
<1>6. QED BY <1>1, <1>5

(* Each step of an operation adds its key, removes it, or leaves the       *)
(* abstract set as it is; only search_return and validate then fix an      *)
(* answer.                                                                 *)
LEMMA SetSteps ==
  ASSUME Local, NEW t \in Tid, step(t)
  PROVE  \/ AbstractSet!Add(t)
         \/ AbstractSet!Remove(t)
         \/ /\ set' = set /\ UNCHANGED <<op, seen>>
            /\ UNCHANGED answer \/ search_return(t) \/ validate(t)
<1> USE DEF Local
<1>1. CASE insert_link(t)
  <2>1. op[t].key \notin set /\ set' = set \union {op[t].key}
    BY <1>1, LinkEffect, SetAdds
  <2>2. op[t] # NONE /\ op[t].kind = "insert" /\ answer[t] = NONE
    BY <1>1 DEF insert_link, goto, Calls, CallOf
  <2>3. QED BY <1>1, <2>1, <2>2
            DEF insert_link, takeEffect, decide, notice, AbstractSet!Add, AbstractSet!running,
                AbstractSet!notice
<1>2. CASE erase_mark(t)
  <2>1. op[t].key \in set /\ set' = set \ {op[t].key}
    BY <1>2, EraseEffect, SetRemoves
  <2>2. op[t] # NONE /\ op[t].kind = "erase" /\ answer[t] = NONE
    BY <1>2 DEF erase_mark, goto, Calls, CallOf, UnderCurr
  <2>3. QED BY <1>2, <2>1, <2>2
            DEF erase_mark, takeEffect, decide, notice, AbstractSet!Remove, AbstractSet!running,
                AbstractSet!notice
<1>3. CASE erase_unlink(t) \/ erase_retire(t)
  <2>1. set' = set
    BY <1>3, EraseEffect, SetStays
  <2>2. QED BY <1>3, <2>1 DEF erase_unlink, erase_retire, call
<1>4. CASE \/ search_start(t) \/ search_walk(t) \/ search_return(t) \/ lockPred(t)
           \/ erase_lockCurr(t) \/ validate(t) \/ erase_unlockCurr(t) \/ unlockPred(t)
  <2>1. Quiet
    BY <1>4 DEF search_start, search_walk, search_return, lockPred, erase_lockCurr, validate,
                erase_unlockCurr, unlockPred, nodes, call, list, Quiet
  <2>2. set' = set
    BY <2>1, SetStays
  <2>3. UNCHANGED <<op, seen>> /\ (UNCHANGED answer \/ search_return(t) \/ validate(t))
    BY <1>4 DEF search_start, search_walk, search_return, lockPred, erase_lockCurr, validate,
                erase_unlockCurr, unlockPred, call
  <2>4. QED BY <2>2, <2>3
<1>5. QED BY <1>1, <1>2, <1>3, <1>4 DEF step

(* seen has every answer that was right since the call. *)
LEMMA SeenStep ==
  ASSUME Local, Seen, Next
  PROVE  Seen'
<1> USE DEF Local
<1>1. ASSUME NEW t \in Tid, NEW o \in Operation, AbstractSet!Call(t, o), set' = set, NEW u \in Tid
      PROVE  SeenOf(u)'
  <2>1. /\ u # t => op'[u] = op[u] /\ seen'[u] = seen[u]
        /\ op'[t] = o /\ seen'[t] = {(o.key \in set)}
    BY <1>1 DEF AbstractSet!Call, TypeOK, ClientTypeOK
  <2>2. CASE u = t
    <3>1. /\ (o.key \in set) => TRUE \in {(o.key \in set)}
          /\ (o.key \notin set) => FALSE \in {(o.key \in set)}
      BY Present
    <3>2. QED BY <1>1, <2>1, <2>2, <3>1 DEF SeenOf
  <2>3. CASE u # t
    BY <1>1, <2>1, <2>3 DEF Seen, SeenOf
  <2>4. QED BY <2>2, <2>3
<1>2. ASSUME NEW t \in Tid, AbstractSet!Add(t), NEW u \in Tid PROVE SeenOf(u)'
  <2>1. /\ op' = op /\ set' = set \union {op[t].key}
        /\ seen'[u] = IF op[u] # NONE /\ op[u].key = op[t].key THEN seen[u] \union {TRUE}
                                                                ELSE seen[u]
    BY <1>2 DEF AbstractSet!Add, AbstractSet!notice
  <2>2. QED BY <2>1 DEF Seen, SeenOf
<1>3. ASSUME NEW t \in Tid, AbstractSet!Remove(t), NEW u \in Tid PROVE SeenOf(u)'
  <2>1. /\ op' = op /\ set' = set \ {op[t].key}
        /\ seen'[u] = IF op[u] # NONE /\ op[u].key = op[t].key THEN seen[u] \union {FALSE}
                                                                ELSE seen[u]
    BY <1>3 DEF AbstractSet!Remove, AbstractSet!notice
  <2>2. QED BY <2>1 DEF Seen, SeenOf
<1>4. ASSUME set' = set, UNCHANGED <<op, seen>>, NEW u \in Tid PROVE SeenOf(u)'
  BY <1>4 DEF Seen, SeenOf
<1>5. ASSUME NEW t \in Tid, endOp(t), UNCHANGED list, NEW u \in Tid PROVE SeenOf(u)'
  <2>1. set' = set
    BY <1>5, NextHasEffect, SetStays
  <2>2. op'[t] = NONE /\ (u # t => op'[u] = op[u] /\ seen'[u] = seen[u])
    BY <1>5 DEF endOp, TypeOK, ClientTypeOK
  <2>3. QED BY <2>1, <2>2 DEF Seen, SeenOf
<1>6. ASSUME NEW t \in Tid, Moves(t), NEW u \in Tid PROVE SeenOf(u)'
  BY <1>1, <1>2, <1>3, <1>4, <1>5, <1>6, CallStep, SetSteps DEF Moves
<1>7. ASSUME NEW n \in Node, freeNode(n), NEW u \in Tid PROVE SeenOf(u)'
  <2>1. set' = set
    BY <1>7, NextHasEffect, SetStays
  <2>2. UNCHANGED <<op, seen>>
    BY <1>7 DEF freeNode, free, call
  <2>3. QED BY <1>4, <2>1, <2>2
<1>8. QED BY <1>6, <1>7, NextMoves DEF Seen

(* The marks. *)
LEMMA MarkedErasedStep ==
  ASSUME Local, MarkedErased, Next
  PROVE  MarkedErased'
<1> USE DEF Local
<1>0. pc \in [Tid -> Steps] /\ LinkedNodes \subseteq Node
  BY DEF Calls, LinkedNodes
<1>1. ASSUME NEW n \in LinkedNodes', marked'[n], n \in LinkedNodes, marked[n],
             NEW u \in Tid, pc[u] = "unlink", curr[u] = n
      PROVE  pc'[u] = "unlink" /\ curr'[u] = n
  <2>1. ASSUME NEW t \in Tid, Moves(t) PROVE pc'[u] = "unlink" /\ curr'[u] = n
    <3>1. CASE t # u
      BY <1>1, <2>1, <3>1, OthersSame DEF Same
    <3>2. CASE t = u
      <4>1. erase_unlink(u)
        BY <1>1, <2>1, <3>2
        DEF Moves, startOp, endOp, step, search_start, search_walk, search_return, lockPred,
            erase_lockCurr, validate, insert_link, erase_mark, erase_unlink, erase_retire,
            erase_unlockCurr, unlockPred, goto
      <4>2. n \notin LinkedNodes'
        BY <1>1, <4>1, EraseEffect, LinkedAfter
      <4>3. QED BY <4>2
    <3>3. QED BY <3>1, <3>2
  <2>2. ASSUME NEW m \in Node, freeNode(m) PROVE pc'[u] = "unlink" /\ curr'[u] = n
    BY <1>1, <2>2, OthersSame DEF Same
  <2>3. QED BY <2>1, <2>2, NextMoves
<1>2. ASSUME NEW n \in LinkedNodes', marked'[n], ~(n \in LinkedNodes /\ marked[n]),
             NEW t \in Tid, Moves(t)
      PROVE  pc'[t] = "unlink" /\ curr'[t] = n
  <2>1. EffectOf(t)
    BY <1>2, NextHasEffect DEF Moves, EffectOf
  <2>2. \A m \in Node : ~Links(t, m)
    <3>1. SUFFICES ASSUME NEW m \in Node, Links(t, m) PROVE FALSE
      OBVIOUS
    <3>2. LinkedNodes' = LinkedNodes \union {m} /\ marked' = marked /\ ~marked[m]
      BY <3>1, LinkedAfter DEF Links, Nodes
    <3>3. QED BY <1>2, <3>2
  <2>3. ~(Quiet \/ Begins(t) \/ Retires(t) \/ Ends(t))
    <3>1. SUFFICES ASSUME Quiet \/ Begins(t) \/ Retires(t) \/ Ends(t) PROVE FALSE
      OBVIOUS
    <3>2. LinkedNodes' = LinkedNodes /\ marked' = marked
      BY <3>1, LinkedAfter DEF Quiet, Begins, Retires, Ends
    <3>3. QED BY <1>2, <3>2
  <2>4. ~Unlinks(t)
    <3>1. SUFFICES ASSUME Unlinks(t) PROVE FALSE
      OBVIOUS
    <3>2. LinkedNodes' = LinkedNodes \ {curr[t]} /\ marked' = marked
      BY <3>1, LinkedAfter DEF Unlinks
    <3>3. QED BY <1>2, <3>2
  <2>5. Marks(t)
    BY <2>1, <2>2, <2>3, <2>4 DEF EffectOf
  <2>6. n = curr[t]
    BY <1>0, <1>2, <2>5, LinkedAfter DEF Marks, TypeOK
  <2>7. pc[t] = "mark"
    BY <2>5 DEF Marks
  <2>8. erase_mark(t)
    BY <1>2, <2>7
    DEF Moves, startOp, endOp, step, search_start, search_walk, search_return, lockPred,
        erase_lockCurr, validate, insert_link, erase_mark, erase_unlink, erase_retire,
        erase_unlockCurr, unlockPred, goto
  <2>9. QED BY <1>0, <2>6, <2>8 DEF erase_mark, goto, position
<1>3. ASSUME NEW m \in Node, freeNode(m), NEW n \in LinkedNodes', marked'[n]
      PROVE  n \in LinkedNodes /\ marked[n]
  <2>1. Frees(m)
    BY <1>3, NextHasEffect
  <2>2. LinkedNodes' = LinkedNodes /\ m \notin LinkedNodes
    BY <2>1 DEF Frees, LinkedNodes, TypeOK, ClientTypeOK
  <2>3. QED BY <1>0, <1>3, <2>1, <2>2 DEF Frees, TypeOK
<1>4. ASSUME NEW n \in LinkedNodes', marked'[n] PROVE \E t \in Tid : pc'[t] = "unlink" /\ curr'[t] = n
  <2>1. CASE n \in LinkedNodes /\ marked[n]
    BY <1>1, <1>4, <2>1 DEF MarkedErased
  <2>2. CASE ~(n \in LinkedNodes /\ marked[n])
    BY <1>2, <1>3, <1>4, <2>2, NextMoves
  <2>3. QED BY <2>1, <2>2
<1>5. QED BY <1>4 DEF MarkedErased

-------------------------------------------------------------------------------
(* The list that nobody has used yet. *)
LEMMA InitIInv == Init => IInv
<1> SUFFICES ASSUME Init PROVE IInv
  OBVIOUS
<1> USE DEF Init, ClientInit
<1>1. LinkedNodes = {} /\ set = {} /\ next[Head] = Tail
  BY DEF LinkedNodes, set
<1>2. TypeOK
  <2>1. key \in [Node -> KEY_MIN .. KEY_MAX]
    BY KeysAreNat, SetClientAssumption DEF KEY_MIN, KEY_MAX
  <2>2. /\ status \in [Node -> {"free", "linked", "unlinked", "retired"}]
        /\ active \subseteq Tid /\ waiting \in [Node -> SUBSET active]
    OBVIOUS
  <2>3. /\ op \in [Tid -> Operation \union {NONE}] /\ answer \in [Tid -> BOOLEAN \union {NONE}]
        /\ seen \in [Tid -> SUBSET BOOLEAN]
    OBVIOUS
  <2>4. /\ pred \in [Tid -> Node \union {Head, NULL}] /\ curr \in [Tid -> Node \union {Tail, NULL}]
        /\ next \in [Node \union {Head} -> Node \union {Tail, NULL}]
    OBVIOUS
  <2>5. {marked, lock} \subseteq [Node \union {Head, Tail} -> BOOLEAN]
    OBVIOUS
  <2>6. QED BY <2>1, <2>2, <2>3, <2>4, <2>5 DEF TypeOK, ClientTypeOK
<1>3. Calls
  BY DEF Calls, CallOf, Steps, UnderPred, UnderCurr
<1>4. Nodes /\ Frozen /\ Gone
  BY DEF Nodes, Frozen, Gone
<1>5. Chain
  <2>1. keyOf(Head) < keyOf(Tail)
    BY KeyOf, KeysAreNat, SetClientAssumption DEF KEY_MIN, KEY_MAX
  <2>2. QED BY <1>1, <2>1 DEF Chain
<1>6. Searches
  BY DEF Searches, SearchOf, UnderPred
<1>7. Locks
  <2>1. \A t \in Tid : \A n : ~owns(t, n)
    BY DEF owns, UnderPred, UnderCurr
  <2>2. QED BY <2>1 DEF Locks
<1>8. Validated /\ Seen /\ MarkedErased
  BY <1>1 DEF Validated, ValidatedOf, Seen, SeenOf, MarkedErased
<1>9. QED BY <1>2, <1>3, <1>4, <1>5, <1>6, <1>7, <1>8 DEF IInv

(* The invariant holds. *)
LEMMA IInvStep ==
  ASSUME IInv, [Next]_vars
  PROVE  IInv'
<1>1. CASE Next
  <2>1. Local /\ Frozen /\ Gone /\ Seen /\ Locks /\ MarkedErased
    BY DEF IInv, Local
  <2>2. Effect
    BY <1>1, <2>1, NextHasEffect
  <2>3. TypeOK' /\ Calls' /\ Searches' /\ Locks' /\ Validated'
    BY <1>1, <2>1, TypeStep, CallsStep, SearchesStep, LocksStep, ValidatedStep
  <2>4. Nodes' /\ Chain' /\ Frozen'
    BY <2>1, <2>2, NodesStep, ChainStep, FrozenStep
  <2>5. Gone' /\ Seen' /\ MarkedErased'
    BY <1>1, <2>1, GoneStep, SeenStep, MarkedErasedStep
  <2>6. QED BY <2>3, <2>4, <2>5 DEF IInv
<1>2. CASE UNCHANGED vars
  <2> USE <1>2 DEF vars, clientVars
  <2>1. /\ LinkedNodes' = LinkedNodes /\ set' = set /\ \A n : keyOf(n)' = keyOf(n)
        /\ \A t, n : (Keeps(t, n)' <=> Keeps(t, n)) /\ (owns(t, n)' <=> owns(t, n))
    BY DEF LinkedNodes, set, keyOf, Keeps, owns
  <2>2. TypeOK' /\ Calls' /\ Nodes'
    BY DEF IInv, TypeOK, ClientTypeOK, Calls, CallOf, Nodes
  <2>3. Chain' /\ Frozen' /\ Gone'
    BY <2>1 DEF IInv, Chain, Frozen, Gone, CanDeny, keyOf, Keeps
  <2>4. Searches'
    BY <2>1 DEF IInv, Searches, SearchOf, CanDeny, keyOf, Keeps
  <2>5. Locks'
    BY <2>1 DEF IInv, Locks
  <2>6. Validated'
    BY <2>1 DEF IInv, Validated, ValidatedOf
  <2>7. Seen' /\ MarkedErased'
    <3>1. ASSUME NEW t \in Tid, SeenOf(t) PROVE SeenOf(t)'
      BY <2>1, <3>1 DEF SeenOf
    <3>2. QED BY <2>1, <3>1 DEF IInv, Seen, MarkedErased
  <2>8. QED BY <2>2, <2>3, <2>4, <2>5, <2>6, <2>7 DEF IInv
<1>3. QED BY <1>1, <1>2

(* The inductive invariant holds in every state that contains, doInsert,   *)
(* erase and the reclaimer's frees reach.                                  *)
THEOREM Invariance == Spec => []IInv
BY InitIInv, IInvStep, PTL DEF Spec

(* Every variable holds what the code can store in it; in particular the   *)
(* search never goes past the sentinel at the end.                         *)
THEOREM TypeCorrect == Spec => []TypeOK
<1>1. IInv => TypeOK
  BY DEF IInv
<1>2. QED BY <1>1, Invariance, PTL

(* The search, which takes no lock and follows pointers of nodes that have *)
(* been taken out, never reads memory that was freed.                      *)
THEOREM Safety == Spec => []NoUseAfterFree
<1>1. IInv => NoUseAfterFree
  <2>1. SUFFICES ASSUME IInv, NEW t \in active, NEW n \in {pred[t], curr[t]} \cap Node
                 PROVE  status[n] # "free"
    BY DEF NoUseAfterFree, pointers
  <2>2. t \in Tid /\ Keeps(t, n)
    BY <2>1 DEF IInv, TypeOK, ClientTypeOK, Searches, SearchOf
  <2>3. QED BY <2>1, <2>2, KeptNotFree DEF IInv
<1>2. QED BY <1>1, Invariance, PTL

(* The linked nodes are one list from Head to Tail, sorted, each node the  *)
(* successor of one other.                                                 *)
THEOREM OneSortedList == Spec => []Ordered
<1>1. IInv => Ordered
  <2>1. SUFFICES ASSUME IInv PROVE Ordered
    OBVIOUS
  <2>2. TypeOK /\ Nodes /\ Chain
    BY <2>1 DEF IInv
  <2>3. ASSUME NEW n \in LinkedNodes \union {Tail}
        PROVE  Cardinality({m \in LinkedNodes \union {Head} : next[m] = n}) = 1
    <3>1. PICK p \in LinkedNodes \union {Head} : next[p] = n
      BY <2>2 DEF Chain
    <3>2. {m \in LinkedNodes \union {Head} : next[m] = n} = {p}
      BY <2>2, <3>1, OneOfAKind
    <3>3. QED BY <3>2, FS_Singleton
  <2>4. QED BY <2>2, <2>3 DEF Ordered, Chain
<1>2. QED BY <1>1, Invariance, PTL

(* Every lock is given back, and no erase returns before its node is       *)
(* unlinked.                                                               *)
THEOREM NothingLeft == Spec => []Tidy
<1>1. IInv => Tidy
  <2>1. SUFFICES ASSUME IInv, \A t \in Tid : pc[t] = "idle"
                 PROVE  /\ \A n \in Node \union {Head, Tail} : ~lock[n]
                        /\ \A n \in LinkedNodes : ~marked[n]
    BY DEF Tidy
  <2>2. \A t \in Tid : \A n : ~owns(t, n)
    BY <2>1 DEF owns, UnderPred, UnderCurr
  <2>3. \A n \in Node \union {Head, Tail} : ~lock[n]
    BY <2>1, <2>2 DEF IInv, Locks
  <2>4. \A n \in LinkedNodes : ~marked[n]
    BY <2>1 DEF IInv, MarkedErased
  <2>5. QED BY <2>3, <2>4
<1>2. QED BY <1>1, Invariance, PTL

(* Among any calls, take the one that waits for the node with the largest *)
(* key.  None of them has that lock: it would wait for its second node,    *)
(* which has a larger key.                                                 *)
LEMMA NoCycle ==
  ASSUME IInv, NEW S \in SUBSET active, S # {}, \A t \in S : waits(t)
  PROVE  \E t \in S : \A u \in S : ~owns(u, awaited(t))
<1> DEFINE Left == {KEY_MAX - keyOf(awaited(t)) : t \in S}
<1>1. Local /\ S \subseteq Tid
  BY DEF IInv, Local, TypeOK, ClientTypeOK
<1>2. ASSUME NEW t \in S
      PROVE  /\ pc[t] \in {"lockPred", "lockCurr"}
             /\ keyOf(awaited(t)) \in Nat /\ keyOf(awaited(t)) <= KEY_MAX
  <2>1. pc[t] \in {"lockPred", "lockCurr"}
    BY DEF waits
  <2>2. awaited(t) \in Node \union {Head, Tail} /\ keyOf(awaited(t)) \in Nat
    BY <1>1, <2>1, Hands DEF UnderPred, awaited
  <2>3. \A n \in Node \union {Head, Tail} : keyOf(n) <= KEY_MAX
    BY <1>1, KeyOf, KeysAreNat, SetClientAssumption
    DEF Local, TypeOK, ClientTypeOK, KEY_MIN, KEY_MAX
  <2>4. QED BY <2>1, <2>2, <2>3
<1>3. Left \subseteq Nat /\ Left # {}
  BY <1>2, KeysAreNat
<1>4. PICK x \in Left : \A y \in Left : ~(<<y, x>> \in OpToRel(<, Nat))
  <2> HIDE DEF Left
  <2>1. QED BY <1>3, WFMin, NatLessThanWellFounded
<1>5. \A y \in Left : ~(y < x)
  <2> HIDE DEF Left
  <2>1. QED BY <1>3, <1>4 DEF OpToRel
<1>6. PICK t \in S : x = KEY_MAX - keyOf(awaited(t))
  BY <1>4
<1>7. ASSUME NEW u \in S PROVE ~(keyOf(awaited(t)) < keyOf(awaited(u)))
  <2>1. ~(KEY_MAX - keyOf(awaited(u)) < KEY_MAX - keyOf(awaited(t)))
    BY <1>5, <1>6
  <2>2. keyOf(awaited(u)) \in Nat /\ keyOf(awaited(t)) \in Nat /\ KEY_MAX \in Nat
    BY <1>2, KeysAreNat
  <2>3. QED BY <2>1, <2>2
<1>8. ASSUME NEW u \in S, owns(u, awaited(t)) PROVE FALSE
  <2>1. pc[u] = "lockCurr" /\ awaited(t) = pred[u] /\ awaited(u) = curr[u]
    BY <1>2, <1>8 DEF owns, UnderPred, UnderCurr, awaited
  <2>2. keyOf(pred[u]) < keyOf(curr[u])
    BY <1>1, <2>1, Hands DEF UnderPred
  <2>3. QED BY <1>7, <2>1, <2>2
<1>9. QED BY <1>8

(* The locks that erase and doInsert take cannot bring the calls to a      *)
(* halt: no calls wait for each other in a circle, and so one of all       *)
(* running calls does not wait.                                            *)
THEOREM NoDeadlock == Spec => [](NoLockCycle /\ OneProceeds)
<1>1. IInv => NoLockCycle
  BY NoCycle DEF NoLockCycle
<1>2. ASSUME IInv, active # {}, \A t \in active : waits(t) PROVE FALSE
  <2>1. PICK t \in active : \A u \in active : ~owns(u, awaited(t))
    BY <1>2, NoCycle
  <2>2. Local /\ active \subseteq Tid
    BY <1>2 DEF IInv, Local, TypeOK, ClientTypeOK
  <2>3. awaited(t) \in Node \union {Head, Tail} /\ lock[awaited(t)]
    <3>1. pc[t] \in {"lockPred", "lockCurr"} /\ lock[awaited(t)]
      BY <1>2 DEF waits
    <3>2. QED BY <2>2, <3>1, Hands DEF UnderPred, awaited
  <2>4. PICK u \in Tid : owns(u, awaited(t))
    BY <1>2, <2>3 DEF IInv, Locks
  <2>5. u \in active
    BY <2>2, <2>4 DEF owns, UnderPred, UnderCurr, Local, Calls, CallOf
  <2>6. QED BY <2>1, <2>4, <2>5
<1>3. IInv => OneProceeds
  BY <1>2 DEF OneProceeds
<1>4. QED BY <1>1, <1>3, Invariance, PTL

-------------------------------------------------------------------------------
(* What a search answers was right at some moment since the call: the node *)
(* that contains finds may have been marked before, and one that it finds  *)
(* without a mark is in the list. *)
LEMMA SearchAnswers ==
  ASSUME Local, Gone, Frozen, Seen, NEW t \in Tid, search_return(t)
  PROVE  AbstractSet!Answer(t) \/ UNCHANGED AbstractSet!vars
<1> USE DEF Local
<1>1. set' = set /\ UNCHANGED <<op, seen>>
  BY SetStays DEF search_return, list, nodes, Quiet
<1>2. pc[t] = "walk" /\ keyOf(curr[t]) >= op[t].key
  BY DEF search_return
<1>3. /\ t \in active /\ op[t] # NONE /\ op[t].key \in Key /\ answer[t] = NONE
      /\ curr[t] \in Node \union {Tail} /\ Keeps(t, curr[t]) /\ keyOf(curr[t]) \in Nat
      /\ op[t].key < keyOf(curr[t]) => FALSE \in seen[t]
  <2>1. op[t].key < keyOf(curr[t]) => FALSE \in seen[t]
    BY <1>2 DEF Searches, SearchOf, CanDeny
  <2>2. answer[t] = NONE
    BY <1>2 DEF Calls, CallOf
  <2>3. QED BY <1>2, <2>1, <2>2, Hands
<1> DEFINE found == keyOf(curr[t]) = op[t].key
<1>4. ~found => FALSE \in seen[t]
  <2>1. op[t].key \in Nat
    BY <1>3, KeysAreNat
  <2>2. keyOf(curr[t]) # op[t].key => op[t].key < keyOf(curr[t])
    BY <1>2, <1>3, <2>1
  <2>3. QED BY <1>3, <2>2
<1>5. ASSUME found PROVE curr[t] \in Node
  BY <1>3, <1>5, KeysAreNat, KeyOf
<1>6. ASSUME found, ~marked[curr[t]] PROVE TRUE \in seen[t]
  <2>1. curr[t] \in LinkedNodes
    BY <1>3, <1>5, <1>6, UnmarkedIsLinked
  <2>2. op[t].key \in set
    BY <1>5, <1>6, <2>1, KeyOf, InSet
  <2>3. QED BY <1>3, <2>2 DEF Seen, SeenOf
<1>7. ASSUME found, marked[curr[t]] PROVE FALSE \in seen[t]
  <2>1. CASE curr[t] \in LinkedNodes
    BY <1>3, <1>7, <2>1, Between DEF Seen, SeenOf
  <2>2. CASE curr[t] \notin LinkedNodes
    <3>1. t \in waiting[curr[t]]
      BY <1>3, <1>5, <1>7, <2>2 DEF Keeps, LinkedNodes
    <3>2. keyOf(curr[t]) < keyOf(next[curr[t]])
      BY <1>5, <1>7, <3>1 DEF Frozen
    <3>3. keyOf(curr[t]) <= op[t].key /\ op[t].key < keyOf(next[curr[t]])
      BY <1>3, <1>7, <3>2
    <3>4. QED BY <1>5, <1>7, <3>1, <3>3 DEF Gone, CanDeny
  <2>3. QED BY <2>1, <2>2
<1>8. ASSUME NEW b \in BOOLEAN, b <=> found /\ ~marked[curr[t]], decide(t, b), is(t, "contains")
      PROVE  AbstractSet!Answer(t)
  <2>1. b \in seen[t]
    BY <1>4, <1>6, <1>7, <1>8, Zenon
  <2>2. answer' = [answer EXCEPT ![t] = b] /\ op[t].kind = "contains"
    BY <1>8 DEF decide, is
  <2>3. QED BY <1>1, <1>3, <2>1, <2>2 DEF AbstractSet!Answer, AbstractSet!running
<1>9. (found /\ ~marked[curr[t]]) \in BOOLEAN
  OBVIOUS
<1>10. ASSUME is(t, "contains"), decide(t, found /\ ~marked[curr[t]]) PROVE AbstractSet!Answer(t)
  BY <1>8, <1>9, <1>10, Zenon
<1>11. ASSUME is(t, "erase"), ~found, decide(t, FALSE) PROVE AbstractSet!Answer(t)
  BY <1>1, <1>3, <1>4, <1>11 DEF decide, is, AbstractSet!Answer, AbstractSet!running
<1>12. ASSUME UNCHANGED answer PROVE UNCHANGED AbstractSet!vars
  BY <1>1, <1>12 DEF AbstractSet!vars
<1>13. QED BY <1>10, <1>11, <1>12 DEF search_return

(* An insert that finds its key under the lock finds it in the list. *)
LEMMA ValidateAnswers ==
  ASSUME Local, Seen, NEW t \in Tid, validate(t)
  PROVE  AbstractSet!Answer(t) \/ UNCHANGED AbstractSet!vars
<1> USE DEF Local
<1>1. set' = set /\ UNCHANGED <<op, seen>>
  BY SetStays DEF validate, list, nodes, Quiet
<1>2. CASE UNCHANGED answer
  BY <1>1, <1>2 DEF AbstractSet!vars
<1>3. ASSUME validateLinks(t), is(t, "insert"), keyOf(curr[t]) = op[t].key, decide(t, FALSE)
      PROVE  AbstractSet!Answer(t)
  <2>1. /\ curr[t] \in Node \union {Tail} /\ Keeps(t, curr[t]) /\ op[t].key \in Key /\ op[t] # NONE
        /\ answer[t] = NONE
    BY Hands DEF validate, UnderPred, Calls, CallOf
  <2>2. curr[t] \in Node
    BY <1>3, <2>1, KeysAreNat, KeyOf
  <2>3. curr[t] \in LinkedNodes /\ ~marked[curr[t]]
    BY <1>3, <2>1, <2>2, UnmarkedIsLinked DEF validateLinks
  <2>4. op[t].key \in set
    BY <1>3, <2>2, <2>3, KeyOf, InSet
  <2>5. TRUE \in seen[t]
    BY <2>1, <2>4 DEF Seen, SeenOf
  <2>6. QED BY <1>1, <1>3, <2>1, <2>5 DEF decide, is, AbstractSet!Answer, AbstractSet!running
<1>4. QED BY <1>2, <1>3 DEF validate

(* The list implements a linearizable set: a link adds, a mark removes,    *)
(* and every other answer was right at some moment of its operation.       *)
THEOREM ImplementsSet == Spec => Linearizable
<1>1. Init => AbstractSet!Init
  BY DEF Init, ClientInit, AbstractSet!Init, set, LinkedNodes
<1>2. ASSUME IInv, [Next]_vars
      PROVE  AbstractSet!Next \/ UNCHANGED AbstractSet!vars
  <2>1. Local /\ Seen /\ Gone /\ Frozen
    BY <1>2 DEF IInv, Local
  <2>2. ASSUME NEW t \in Tid, startOp(t, "search", set, 1), UNCHANGED list PROVE AbstractSet!Next
    <3>1. \E o \in AbstractSet!Operation : AbstractSet!Call(t, o)
      BY <2>1, <2>2, CallStep DEF Operation, AbstractSet!Operation
    <3>2. QED BY <3>1 DEF AbstractSet!Next
  <2>3. ASSUME NEW t \in Tid, step(t) PROVE AbstractSet!Next \/ UNCHANGED AbstractSet!vars
    <3>1. \/ AbstractSet!Add(t) \/ AbstractSet!Remove(t) \/ UNCHANGED AbstractSet!vars
          \/ search_return(t) \/ validate(t)
      BY <2>1, <2>3, SetSteps DEF AbstractSet!vars
    <3>2. search_return(t) \/ validate(t) => AbstractSet!Answer(t) \/ UNCHANGED AbstractSet!vars
      BY <2>1, SearchAnswers, ValidateAnswers
    <3>3. QED BY <3>1, <3>2 DEF AbstractSet!Next
  <2>4. ASSUME NEW t \in Tid, endOp(t), UNCHANGED list PROVE AbstractSet!Next
    <3>1. set' = set
      BY <2>1, <2>4, NextHasEffect, SetStays
    <3>2. answer[t] # NONE
      BY <2>1, <2>4 DEF endOp, goto, Local, Calls, CallOf
    <3>3. AbstractSet!Return(t)
      BY <2>4, <3>1, <3>2 DEF endOp, AbstractSet!Return
    <3>4. QED BY <3>3 DEF AbstractSet!Next
  <2>5. ASSUME NEW n \in Node, freeNode(n) PROVE UNCHANGED AbstractSet!vars
    <3>1. Frees(n)
      BY <2>5, NextHasEffect
    <3>2. set' = set
      <4>1. LinkedNodes' = LinkedNodes /\ n \notin LinkedNodes
        BY <2>1, <3>1 DEF Frees, LinkedNodes, Local, TypeOK, ClientTypeOK
      <4>2. \A m \in LinkedNodes : key'[m] = key[m] /\ marked'[m] = marked[m]
        BY <2>1, <3>1, <4>1 DEF Frees, LinkedNodes, Local, TypeOK, ClientTypeOK
      <4>3. QED BY <4>1, <4>2 DEF set
    <3>3. QED BY <2>5, <3>2 DEF freeNode, free, call, AbstractSet!vars
  <2>6. CASE UNCHANGED vars
    BY <2>6 DEF vars, clientVars, AbstractSet!vars, set, LinkedNodes
  <2>7. QED BY <1>2, <2>2, <2>3, <2>4, <2>5, <2>6 DEF Next
<1>3. QED BY <1>1, <1>2, Invariance, PTL DEF Spec, Linearizable, AbstractSet!Spec

(* And it is a client the reclaimer may trust: each node is unlinked once, *)
(* retired once, after that, and not used once its waiting set is empty.   *)
THEOREM KeepsContract == Spec => Reclamation
<1>1. Init => Contract!Init
  BY DEF Init, ClientInit, Contract!Init
<1>2. ASSUME IInv, [Next]_vars
      PROVE  Contract!Next \/ UNCHANGED Contract!vars
  <2> USE DEF Contract!Next, Contract!move
  <2>0. TypeOK
    BY <1>2 DEF IInv
  <2>1. ASSUME NEW t \in Tid, Begins(t) PROVE Contract!Next
    BY <2>1 DEF Begins, Contract!StartOp
  <2>2. ASSUME NEW t \in Tid, Ends(t) PROVE Contract!Next
    BY <2>2 DEF Ends, Contract!EndOp
  <2>3. ASSUME NEW t \in Tid, Unlinks(t) PROVE Contract!Next
    <3>1. Contract!Unlink({curr[t]}) /\ {curr[t]} \in SUBSET Node
      BY <2>0, <2>3 DEF Unlinks, LinkedNodes, TypeOK, ClientTypeOK, Contract!Unlink
    <3>2. QED BY <3>1
  <2>4. ASSUME NEW t \in Tid, NEW n \in Node, Links(t, n) PROVE Contract!Next
    <3>1. Contract!Link({n}) /\ {n} \in SUBSET Node
      BY <2>0, <2>4 DEF Links, TypeOK, ClientTypeOK, Contract!Link
    <3>2. QED BY <3>1
  <2>5. ASSUME NEW t \in Tid, Retires(t) PROVE Contract!Next
    <3>1. Contract!Retire(curr[t]) /\ curr[t] \in Node
      BY <2>0, <2>5 DEF Retires, TypeOK, ClientTypeOK, Contract!Retire
    <3>2. QED BY <3>1
  <2>6. ASSUME NEW n \in Node, Frees(n) PROVE Contract!Next
    <3>1. Contract!Free(n)
      BY <2>0, <2>6 DEF Frees, TypeOK, ClientTypeOK, Contract!Free
    <3>2. QED BY <3>1
  <2>7. ASSUME NEW t \in Tid, Quiet \/ Marks(t) PROVE UNCHANGED Contract!vars
    BY <2>7 DEF Quiet, Marks, Contract!vars
  <2>8. CASE Next
    <3>1. Effect
      BY <1>2, <2>8, NextHasEffect DEF IInv, Local
    <3>2. QED BY <2>1, <2>2, <2>3, <2>4, <2>5, <2>6, <2>7, <3>1 DEF Effect, EffectOf
  <2>9. CASE UNCHANGED vars
    BY <2>9 DEF vars, clientVars, Contract!vars
  <2>10. QED BY <1>2, <2>8, <2>9
<1>3. QED BY <1>1, <1>2, Invariance, PTL DEF Spec, Reclamation, Contract!Spec
================================================================================
