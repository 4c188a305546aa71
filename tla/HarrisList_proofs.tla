--------------------------- MODULE HarrisList_proofs ---------------------------
(***************************************************************************)
(* HarrisList is a linearizable set and a client the reclaimer may trust,  *)
(* for any number of threads, nodes and keys.                              *)
(*                                                                         *)
(* A search remembers the node after pred and goes on past nodes with a    *)
(* mark; what it takes out in the end by one CAS on pred is more than the  *)
(* CAS compares.  WalkOf says why that is the chain it has passed: while   *)
(* the first node of the chain is in the list all the others are, with     *)
(* their marks, and nothing has come between them.                         *)
(***************************************************************************)
EXTENDS HarrisList, FiniteSetTheorems, TLAPS

(* A call has the result of a search at Settled. *)
Settled == {"retire", "recheck", "link", "succ", "mark", "unlink", "eraseRetire"}
Steps == {"idle", "search", "walk", "end"} \union Settled

(* A call: what is settled where.  Only an erase has an answer before the  *)
(* end, while it sees to it that its node is unlinked.                     *)
CallOf(t) ==
    /\ t \in active <=> pc[t] # "idle"
    /\ op[t] = NONE <=> pc[t] = "idle"
    /\ pc[t] = "idle" =>
          /\ answer[t] = NONE /\ pred[t] = NULL /\ curr[t] = NULL
          /\ predNext[t] = NULL /\ nxt[t] = pointTo(NULL)
    /\ cur[t] # NULL <=> pc[t] = "retire"
    /\ pc[t] = "link" => op[t].kind = "insert" /\ answer[t] = NONE
    /\ pc[t] \in {"succ", "mark"} => op[t].kind = "erase" /\ answer[t] = NONE
    /\ pc[t] \in {"unlink", "eraseRetire", "end"} => answer[t] # NONE
    /\ answer[t] # NONE /\ pc[t] # "end" => op[t].kind = "erase" /\ answer[t] = TRUE
Calls == pc \in [Tid -> Steps] /\ \A t \in Tid : CallOf(t)

(* The nodes in their states. *)
Nodes ==
    /\ ~next[Head].mark
    /\ \A n \in Node :
          /\ waiting[n] \subseteq active
          /\ status[n] \in {"free", "linked"} => waiting[n] = {}
          /\ status[n] = "free" => ~next[n].mark
          /\ status[n] \in {"unlinked", "retired"} => next[n].mark
          /\ status[n] # "free" => key[n] \in Key

(* The successor of each node is the next in the order of the keys. *)
Chain ==
    /\ \A n \in LinkedNodes \union {Head} :
          /\ next[n].ptr \in LinkedNodes \union {Tail}
          /\ keyOf(n) < keyOf(next[n].ptr)
          /\ \A x \in LinkedNodes : keyOf(n) < keyOf(x) => keyOf(next[n].ptr) <= keyOf(x)
    /\ \A n, m \in LinkedNodes : key[n] = key[m] => n = m
    /\ \A n \in LinkedNodes \union {Tail} : \E m \in LinkedNodes \union {Head} : next[m].ptr = n

(* A node that t's call may go on to use, if it is one at all. *)
Keeps(t, n) == n \in Node => status[n] = "linked" \/ t \in waiting[n]

(* From such a node pointers lead to such nodes only, to larger keys. *)
Frozen ==
    \A n \in Node : \A t \in waiting[n] :
        /\ next[n].ptr \in Node \union {Tail} /\ Keeps(t, next[n].ptr)
        /\ keyOf(n) < keyOf(next[n].ptr)

(* t could answer that its key is absent. *)
CanDeny(t) == FALSE \in seen[t]

(* What a search has passed since pred: while the first of these nodes is  *)
(* in the list, the others are, and all have marks.                        *)
Passed(t) ==
    predNext[t] \in LinkedNodes =>
        /\ curr[t] \in LinkedNodes \union {Tail}
        /\ \A x \in LinkedNodes :
              keyOf(predNext[t]) <= keyOf(x) /\ keyOf(x) < keyOf(curr[t]) => next[x].mark

(* A search on its way, at Head or further on: *)
FurtherOn(t) ==
    /\ curr[t] \in Node \union {Tail} /\ predNext[t] \in Node \union {Tail}
    /\ keyOf(pred[t]) < keyOf(predNext[t]) /\ keyOf(predNext[t]) <= keyOf(curr[t])
    /\ op[t].key < keyOf(predNext[t]) => CanDeny(t)
    /\ Passed(t)

WalkOf(t) ==
    /\ pred[t] \in Node \union {Head} /\ keyOf(pred[t]) < op[t].key
    /\ (curr[t] = Head /\ predNext[t] = NULL) \/ FurtherOn(t)
    /\ curr[t] # Tail =>
          /\ nxt[t].ptr \in Node \union {Tail} /\ keyOf(curr[t]) < keyOf(nxt[t].ptr)
          /\ nxt[t].mark => next[curr[t]] = nxt[t]
          /\ ~nxt[t].mark /\ keyOf(curr[t]) < op[t].key /\ op[t].key < keyOf(nxt[t].ptr) =>
                CanDeny(t)

(* What a search has in hand, and what its caller has. *)
SearchOf(t) ==
    /\ t \in active => \A n \in pointers(t) : Keeps(t, n)
    /\ pc[t] = "walk" => WalkOf(t)
    /\ pc[t] \in Settled =>
          /\ pred[t] \in Node \union {Head} /\ curr[t] \in Node \union {Tail}
          /\ keyOf(pred[t]) < op[t].key /\ op[t].key <= keyOf(curr[t])
          /\ op[t].key < keyOf(curr[t]) => CanDeny(t)
    /\ pc[t] = "link" => op[t].key # keyOf(curr[t])
    /\ pc[t] \in {"succ", "mark", "unlink", "eraseRetire"} => op[t].key = keyOf(curr[t])
    /\ pc[t] \in {"mark", "unlink"} => ~nxt[t].mark
    /\ pc[t] = "unlink" => next[curr[t]] = get_marked_ref(nxt[t])
Searches == \A t \in Tid : SearchOf(t)

(* What t has unlinked and not retired yet: what is left of a chain, which *)
(* its links lead along from cur to curr.                                  *)
RestOf(t, S) ==
    /\ pc[t] \notin {"retire", "eraseRetire"} => S = {}
    /\ pc[t] = "eraseRetire" => S = {curr[t]}
    /\ pc[t] = "retire" =>
          /\ cur[t] \in S
          /\ \A n \in S :
                /\ key[cur[t]] <= key[n] /\ key[n] < keyOf(curr[t])
                /\ next[n].ptr \in S \union {curr[t]} /\ key[n] < keyOf(next[n].ptr)
                /\ \A m \in S : /\ key[n] < key[m] => keyOf(next[n].ptr) <= key[m]
                                /\ key[n] = key[m] => n = m

(* Each unlinked node is in the rest of one thread. *)
Rests(rest) ==
    /\ \A n \in Node : status[n] = "unlinked" <=> \E t \in Tid : n \in rest[t]
    /\ \A t, u \in Tid : \A n \in Node : n \in rest[t] /\ n \in rest[u] => t = u
    /\ \A t \in Tid : RestOf(t, rest[t])
Retiring == \E rest \in [Tid -> SUBSET Node] : Rests(rest)

(* seen has what a call could answer now. *)
SeenOf(t) ==
    op[t] # NONE =>
        /\ op[t].key \in set => TRUE \in seen[t]
        /\ op[t].key \notin set => FALSE \in seen[t]
Seen == \A t \in Tid : SeenOf(t)

(* While a marked node n is in the list, the call that has marked it will  *)
(* not return: it unlinks the node or searches for it, and that search     *)
(* will not get past the node.                                             *)
NotPast(t, m, n) == keyOf(m) <= op[t].key /\ (keyOf(m) = op[t].key => m = n)
Erases(t, n) ==
    /\ op[t] # NONE /\ op[t].kind = "erase" /\ op[t].key = key[n] /\ answer[t] = TRUE
    /\ pc[t] \in {"search", "walk", "retire", "recheck", "unlink"}
    /\ pc[t] \in {"retire", "recheck", "unlink"} => curr[t] = n
    /\ pc[t] = "walk" =>
          /\ curr[t] # Head => NotPast(t, predNext[t], n)
          /\ curr[t] # Tail /\ ~nxt[t].mark /\ keyOf(curr[t]) < op[t].key =>
                NotPast(t, nxt[t].ptr, n)
MarkedErased == \A n \in LinkedNodes : next[n].mark => \E t \in Tid : Erases(t, n)

(* The inductive invariant.                                                *)
IInv ==
    /\ TypeOK
    /\ Calls
    /\ Nodes
    /\ Chain
    /\ Frozen
    /\ Searches
    /\ Retiring
    /\ Seen
    /\ MarkedErased

-------------------------------------------------------------------------------
(* The keys of the sentinels and of the nodes, before and after a step. *)
LEMMA KeyOf ==
  /\ keyOf(Head) = KEY_MIN /\ keyOf(Tail) = KEY_MAX
  /\ \A n \in Node : keyOf(n) = key[n]
  /\ keyOf(Head)' = KEY_MIN /\ keyOf(Tail)' = KEY_MAX
  /\ \A n \in Node : keyOf(n)' = key'[n]
BY ListClientAssumption DEF keyOf

(* Keys can be compared. *)
LEMMA KeysAreNat ==
  /\ \A k \in Key : k \in Nat /\ KEY_MIN < k /\ k < KEY_MAX
  /\ KEY_MIN \in Nat /\ KEY_MAX \in Nat
  /\ TypeOK => \A n \in Node \union {Head, Tail} : keyOf(n) \in Nat
<1>1. /\ \A k \in Key : k \in Nat /\ KEY_MIN < k /\ k < KEY_MAX
      /\ KEY_MIN \in Nat /\ KEY_MAX \in Nat
  BY SetClientAssumption DEF Key, KEY_MIN, KEY_MAX
<1>2. QED BY <1>1, KeyOf DEF TypeOK, ClientTypeOK

(* The sentinels are no nodes. *)
LEMMA Sentinels ==
  Head \notin Node /\ Tail \notin Node /\ NULL \notin Node /\ Head # Tail /\ NULL # Head /\ NULL # Tail
BY ListClientAssumption, SetClientAssumption

(* The fields next: pointer and mark. *)
LEMMA Fields ==
  /\ \A n : pointTo(n).ptr = n /\ ~pointTo(n).mark
  /\ \A n, m : pointTo(n) = pointTo(m) => n = m
  /\ \A n \in Node \union {Tail, NULL} : pointTo(n) \in Field
  /\ \A f \in Field : /\ get_marked_ref(f) \in Field /\ get_marked_ref(f).mark
                      /\ get_marked_ref(f).ptr = f.ptr
                      /\ ~f.mark => f = pointTo(f.ptr)
                      /\ f.mark \in BOOLEAN /\ f.ptr \in Node \union {Tail, NULL}
<1>1. ASSUME NEW f \in Field
      PROVE  /\ get_marked_ref(f) \in Field /\ get_marked_ref(f).mark
             /\ get_marked_ref(f).ptr = f.ptr
             /\ ~f.mark => f = pointTo(f.ptr)
             /\ f.mark \in BOOLEAN /\ f.ptr \in Node \union {Tail, NULL}
  <2>1. f.mark \in BOOLEAN /\ f.ptr \in Node \union {Tail, NULL}
    BY DEF Field
  <2>2. ~f.mark => f = pointTo(f.ptr)
    BY DEF Field, pointTo
  <2>3. get_marked_ref(f) \in Field /\ get_marked_ref(f).mark /\ get_marked_ref(f).ptr = f.ptr
    BY DEF Field, get_marked_ref
  <2>4. QED BY <2>1, <2>2, <2>3
<1>2. QED BY <1>1 DEF pointTo, Field

(* What the variables of the list are. *)
LEMMA Typed ==
  ASSUME TypeOK
  PROVE  /\ next \in [Node \union {Head} -> Field]
         /\ status \in [Node -> {"free", "linked", "unlinked", "retired"}]
         /\ LinkedNodes \subseteq Node
         /\ \A n \in Node \union {Head} : next[n] \in Field
BY DEF TypeOK, ClientTypeOK, LinkedNodes

(* Nobody comes to a node that is not linked without meeting a mark. *)
LEMMA UnmarkedIsLinked ==
  ASSUME TypeOK, Nodes, NEW t \in Tid, NEW n \in Node, Keeps(t, n), ~next[n].mark
  PROVE  n \in LinkedNodes
BY DEF TypeOK, ClientTypeOK, Nodes, Keeps, LinkedNodes

(* A node that a call keeps has not been freed. *)
LEMMA KeptNotFree ==
  ASSUME TypeOK, Nodes, NEW t \in Tid, NEW n \in Node, Keeps(t, n)
  PROVE  /\ status[n] # "free" /\ key[n] \in Key
         /\ n \notin LinkedNodes => status[n] \in {"unlinked", "retired"} /\ t \in waiting[n]
BY DEF TypeOK, ClientTypeOK, Nodes, Keeps, LinkedNodes

(* A running call is one of the three kinds, on a key. *)
LEMMA CallTyped ==
  ASSUME TypeOK, Calls, NEW t \in Tid, pc[t] # "idle"
  PROVE  op[t] \in Operation /\ op[t] # NONE /\ op[t].key \in Key /\ t \in active
         /\ op[t].kind \in {"contains", "insert", "erase"}
BY DEF TypeOK, ClientTypeOK, Calls, CallOf, Operation

(* A search keeps what it has in hand. *)
LEMMA InHand ==
  ASSUME Searches, NEW t \in Tid, t \in active
  PROVE  /\ Keeps(t, pred[t]) /\ Keeps(t, curr[t]) /\ Keeps(t, predNext[t])
         /\ Keeps(t, nxt[t].ptr) /\ Keeps(t, cur[t])
BY DEF Searches, SearchOf, pointers
-------------------------------------------------------------------------------
(* The list and the reclaimer change in seven ways only. *)
Quiet == UNCHANGED <<next, key, status, active, waiting>>

Begins(t) ==
    /\ t \notin active /\ active' = active \union {t}
    /\ UNCHANGED <<next, key, status, waiting>>

Links(t, n) ==
    /\ pc[t] = "link" /\ op[t] \in Operation /\ op[t].key \in Key
    /\ pred[t] \in LinkedNodes \union {Head} /\ next[pred[t]] = pointTo(curr[t])
    /\ keyOf(pred[t]) < op[t].key /\ op[t].key < keyOf(curr[t])
    /\ n \in Node /\ status[n] = "free"
    /\ next' = [next EXCEPT ![n] = pointTo(curr[t]), ![pred[t]] = pointTo(n)]
    /\ status' = [m \in Node |-> IF m = n THEN "linked" ELSE status[m]]
    /\ key' = [m \in Node |-> IF m = n THEN op[t].key ELSE key[m]]
    /\ UNCHANGED <<active, waiting>>

Marks(t) ==
    /\ pc[t] = "mark" /\ curr[t] \in LinkedNodes /\ key[curr[t]] = op[t].key
    /\ ~next[curr[t]].mark
    /\ next' = [next EXCEPT ![curr[t]] = get_marked_ref(next[curr[t]])]
    /\ UNCHANGED <<key, status, active, waiting>>

(* All nodes between p and c are taken out. *)
inBetween(p, c) == {x \in LinkedNodes : keyOf(p) < key[x] /\ key[x] < keyOf(c)}

Unlinks(p, c) ==
    /\ p \in LinkedNodes \union {Head} /\ ~next[p].mark
    /\ c \in LinkedNodes \union {Tail} /\ keyOf(p) < keyOf(c)
    /\ \A x \in inBetween(p, c) : next[x].mark
    /\ next' = [next EXCEPT ![p] = pointTo(c)]
    /\ status' = [m \in Node |-> IF m \in inBetween(p, c) THEN "unlinked" ELSE status[m]]
    /\ waiting' = [m \in Node |-> IF m \in inBetween(p, c) THEN active ELSE waiting[m]]
    /\ UNCHANGED <<key, active>>

Retires(n) ==
    /\ n \in Node /\ status[n] = "unlinked"
    /\ status' = [status EXCEPT ![n] = "retired"]
    /\ UNCHANGED <<next, key, active, waiting>>

Ends(t) ==
    /\ active' = active \ {t}
    /\ waiting' = [n \in Node |-> waiting[n] \ {t}]
    /\ UNCHANGED <<next, key, status>>

Frees(n) ==
    /\ n \in Node /\ status[n] = "retired" /\ waiting[n] = {}
    /\ status' = [status EXCEPT ![n] = "free"]
    /\ next' = [next EXCEPT ![n] = pointTo(NULL)]
    /\ key' = [key EXCEPT ![n] = KEY_MIN]
    /\ UNCHANGED <<active, waiting>>

Local == TypeOK /\ Calls /\ Nodes /\ Chain /\ Searches

(* What a call has in hand at the steps where its search is over. *)
LEMMA Hands ==
  ASSUME Local, NEW t \in Tid, pc[t] \in {"walk"} \union Settled
  PROVE  /\ t \in active /\ op[t] \in Operation /\ op[t] # NONE /\ op[t].key \in Key
         /\ pred[t] \in Node \union {Head} /\ Keeps(t, pred[t]) /\ keyOf(pred[t]) \in Nat
         /\ curr[t] \in Node \union {Head, Tail} /\ Keeps(t, curr[t]) /\ keyOf(curr[t]) \in Nat
         /\ keyOf(pred[t]) < op[t].key
         /\ pc[t] \in Settled => curr[t] \in Node \union {Tail} /\ op[t].key <= keyOf(curr[t])
<1> USE DEF Local
<1>1. pc[t] # "idle"
  BY DEF Settled
<1>2. t \in active /\ op[t] \in Operation /\ op[t] # NONE /\ op[t].key \in Key
  BY <1>1, CallTyped
<1>3. Keeps(t, pred[t]) /\ Keeps(t, curr[t])
  BY <1>2, InHand
<1>4. /\ pred[t] \in Node \union {Head} /\ curr[t] \in Node \union {Head, Tail}
      /\ keyOf(pred[t]) < op[t].key
      /\ pc[t] \in Settled => curr[t] \in Node \union {Tail} /\ op[t].key <= keyOf(curr[t])
  BY DEF Searches, SearchOf, WalkOf, FurtherOn
<1>5. keyOf(pred[t]) \in Nat /\ keyOf(curr[t]) \in Nat
  BY <1>4, KeysAreNat
<1>6. QED BY <1>2, <1>3, <1>4, <1>5

(* A node that a call has come to and whose field has no mark is linked. *)
LEMMA HoldsLinked ==
  ASSUME Local, NEW t \in Tid, NEW n \in Node \union {Head}, Keeps(t, n), NEW m,
         holds(n, pointTo(m))
  PROVE  /\ n \in LinkedNodes \union {Head} /\ next[n].ptr = m /\ ~next[n].mark
         /\ m \in LinkedNodes \union {Tail} /\ keyOf(n) < keyOf(m)
         /\ \A x \in LinkedNodes : keyOf(n) < key[x] => keyOf(m) <= key[x]
<1> USE DEF Local
<1>1. next[n].ptr = m /\ ~next[n].mark
  BY Fields DEF holds
<1>2. n \in LinkedNodes \union {Head}
  BY <1>1, UnmarkedIsLinked
<1>3. \A x \in LinkedNodes : keyOf(x) = key[x]
  BY KeyOf DEF LinkedNodes
<1>4. QED BY <1>1, <1>2, <1>3 DEF Chain

(* At the end of a search whose CAS succeeds, all between pred and curr is *)
(* the chain that the search has passed.                                   *)
LEMMA ChainPassed ==
  ASSUME Local, NEW t \in Tid, pc[t] = "walk", ~goesOn(t), predNext[t] # curr[t],
         holds(pred[t], pointTo(predNext[t]))
  PROVE  /\ pred[t] \in LinkedNodes \union {Head} /\ ~next[pred[t]].mark
         /\ predNext[t] \in LinkedNodes /\ next[pred[t]].ptr = predNext[t]
         /\ curr[t] \in LinkedNodes \union {Tail}
         /\ keyOf(pred[t]) < keyOf(predNext[t]) /\ keyOf(predNext[t]) < keyOf(curr[t])
         /\ \A x \in inBetween(pred[t], curr[t]) : next[x].mark
         /\ predNext[t] \in inBetween(pred[t], curr[t])
         /\ chain(t) = inBetween(pred[t], curr[t])
<1> USE DEF Local
<1>1. WalkOf(t) /\ op[t].key \in Key /\ pred[t] \in Node \union {Head} /\ Keeps(t, pred[t])
      /\ keyOf(pred[t]) \in Nat
  BY Hands DEF Searches, SearchOf
<1>2. curr[t] # Head
  <2>1. keyOf(Head) < op[t].key
    BY <1>1, KeyOf, KeysAreNat
  <2>2. QED BY <2>1, Sentinels DEF goesOn
<1>3. FurtherOn(t)
  BY <1>1, <1>2 DEF WalkOf
<1>4. /\ pred[t] \in LinkedNodes \union {Head} /\ next[pred[t]].ptr = predNext[t]
      /\ ~next[pred[t]].mark /\ predNext[t] \in LinkedNodes \union {Tail}
      /\ keyOf(pred[t]) < keyOf(predNext[t])
      /\ \A x \in LinkedNodes : keyOf(pred[t]) < key[x] => keyOf(predNext[t]) <= key[x]
  BY <1>1, HoldsLinked
<1>5. \A x \in LinkedNodes : /\ keyOf(x) = key[x] /\ keyOf(x) \in Nat /\ keyOf(x) < KEY_MAX
                             /\ x \in Node
  BY KeyOf, KeysAreNat DEF LinkedNodes, Nodes
<1>6. curr[t] \in Node => keyOf(curr[t]) < KEY_MAX /\ keyOf(curr[t]) \in Nat
  BY <1>1, Hands, KeptNotFree, KeyOf, KeysAreNat
<1>7. predNext[t] # Tail
  BY <1>3, <1>6, KeyOf, KeysAreNat DEF FurtherOn
<1>8. predNext[t] \in LinkedNodes
  BY <1>4, <1>7
<1>9. /\ curr[t] \in LinkedNodes \union {Tail}
      /\ \A x \in LinkedNodes :
            keyOf(predNext[t]) <= keyOf(x) /\ keyOf(x) < keyOf(curr[t]) => next[x].mark
  BY <1>3, <1>8 DEF FurtherOn, Passed
<1>10. keyOf(predNext[t]) < keyOf(curr[t])
  <2>1. keyOf(predNext[t]) <= keyOf(curr[t])
    BY <1>3 DEF FurtherOn
  <2>2. keyOf(predNext[t]) # keyOf(curr[t])
    <3>1. CASE curr[t] = Tail
      BY <1>5, <1>8, <3>1, KeyOf, KeysAreNat
    <3>2. CASE curr[t] \in LinkedNodes
      BY <1>5, <1>8, <3>2 DEF Chain
    <3>3. QED BY <1>9, <3>1, <3>2
  <2>3. keyOf(predNext[t]) \in Nat /\ keyOf(curr[t]) \in Nat
    BY <1>5, <1>8, <1>9, KeyOf, KeysAreNat
  <2>4. QED BY <2>1, <2>2, <2>3
<1>11. \A x \in inBetween(pred[t], curr[t]) : next[x].mark
  BY <1>4, <1>5, <1>9 DEF inBetween
<1>12. predNext[t] \in inBetween(pred[t], curr[t])
  BY <1>4, <1>5, <1>8, <1>10 DEF inBetween
<1>13. chain(t) = inBetween(pred[t], curr[t])
  BY DEF chain, inBetween
<1>14. QED BY <1>4, <1>8, <1>9, <1>10, <1>11, <1>12, <1>13

(* doInsert links its node between two neighbours. *)
LEMMA LinkEffect ==
  ASSUME Local, NEW t \in Tid, insert_link(t)
  PROVE  (\E n \in Node : Links(t, n)) \/ (Quiet /\ UNCHANGED <<answer, seen>>)
<1> USE DEF Local
<1>1. pc[t] = "link"
  BY DEF insert_link
<1>2. CASE ~holds(pred[t], pointTo(curr[t]))
  BY <1>2 DEF insert_link, nodes, Quiet
<1>3. CASE holds(pred[t], pointTo(curr[t]))
  <2>1. /\ op[t] \in Operation /\ op[t].key \in Key /\ Keeps(t, pred[t])
        /\ pred[t] \in Node \union {Head} /\ curr[t] \in Node \union {Tail}
        /\ keyOf(pred[t]) < op[t].key /\ op[t].key <= keyOf(curr[t])
    BY <1>1, Hands DEF Settled
  <2>2. op[t].key # keyOf(curr[t])
    BY <1>1 DEF Searches, SearchOf
  <2>3. op[t].key < keyOf(curr[t])
    BY <2>1, <2>2, KeysAreNat
  <2>4. pred[t] \in LinkedNodes \union {Head} /\ next[pred[t]] = pointTo(curr[t])
    BY <1>3, <2>1, HoldsLinked DEF holds
  <2>5. PICK n \in Node : /\ link([m \in {n} |-> op[t].key])
                          /\ next' = [next EXCEPT ![n] = pointTo(curr[t]), ![pred[t]] = pointTo(n)]
    BY <1>3 DEF insert_link
  <2>7. /\ status[n] = "free"
        /\ status' = [m \in Node |-> IF m = n THEN "linked" ELSE status[m]]
        /\ key' = [m \in Node |-> IF m = n THEN op[t].key ELSE key[m]]
        /\ waiting' = waiting
    BY <2>5 DEF link
  <2>8. active' = active
    BY DEF insert_link
  <2>9. Links(t, n)
    BY <1>1, <2>1, <2>3, <2>4, <2>5, <2>7, <2>8 DEF Links
  <2>10. QED BY <2>9
<1>4. QED BY <1>2, <1>3

(* erase marks the node it has found. *)
LEMMA MarkEffect ==
  ASSUME Local, NEW t \in Tid, erase_mark(t)
  PROVE  Marks(t) \/ (Quiet /\ UNCHANGED <<answer, seen>>)
<1> USE DEF Local
<1>1. pc[t] = "mark"
  BY DEF erase_mark
<1>2. CASE ~holds(curr[t], nxt[t])
  BY <1>2 DEF erase_mark, nodes, Quiet
<1>3. CASE holds(curr[t], nxt[t])
  <2>1. /\ curr[t] \in Node \union {Tail} /\ Keeps(t, curr[t]) /\ op[t].key \in Key
        /\ op[t].key = keyOf(curr[t]) /\ ~nxt[t].mark
    BY <1>1, Hands DEF Settled, Searches, SearchOf
  <2>2. curr[t] \in Node
    BY <2>1, KeyOf, KeysAreNat
  <2>3. curr[t] \in LinkedNodes /\ ~next[curr[t]].mark /\ key[curr[t]] = op[t].key
    BY <1>3, <2>1, <2>2, UnmarkedIsLinked, KeyOf DEF holds
  <2>4. next' = [next EXCEPT ![curr[t]] = get_marked_ref(next[curr[t]])]
    BY <1>3 DEF erase_mark, store, holds
  <2>5. QED BY <1>1, <2>3, <2>4 DEF erase_mark, nodes, Marks
<1>4. QED BY <1>2, <1>3

(* A search that succeeds in its CAS takes the whole chain out. *)
LEMMA SearchUnlinkEffect ==
  ASSUME Local, NEW t \in Tid, search_unlink(t)
  PROVE  \/ holds(pred[t], pointTo(predNext[t])) /\ Unlinks(pred[t], curr[t])
         \/ ~holds(pred[t], pointTo(predNext[t])) /\ Quiet
<1>1. CASE ~holds(pred[t], pointTo(predNext[t]))
  BY <1>1 DEF search_unlink, nodes, call, Quiet
<1>2. CASE holds(pred[t], pointTo(predNext[t]))
  <2>1. /\ pred[t] \in LinkedNodes \union {Head} /\ ~next[pred[t]].mark
        /\ curr[t] \in LinkedNodes \union {Tail} /\ keyOf(pred[t]) < keyOf(curr[t])
        /\ \A x \in inBetween(pred[t], curr[t]) : next[x].mark
        /\ chain(t) = inBetween(pred[t], curr[t])
    <3>1. /\ pred[t] \in LinkedNodes \union {Head} /\ ~next[pred[t]].mark
          /\ predNext[t] \in LinkedNodes /\ curr[t] \in LinkedNodes \union {Tail}
          /\ keyOf(pred[t]) < keyOf(predNext[t]) /\ keyOf(predNext[t]) < keyOf(curr[t])
          /\ \A x \in inBetween(pred[t], curr[t]) : next[x].mark
          /\ chain(t) = inBetween(pred[t], curr[t])
      BY <1>2, ChainPassed DEF search_unlink
    <3>2. /\ keyOf(pred[t]) \in Nat /\ keyOf(predNext[t]) \in Nat /\ keyOf(curr[t]) \in Nat
      BY <3>1, KeysAreNat DEF Local, LinkedNodes
    <3>3. QED BY <3>1, <3>2
  <2>2. /\ next' = [next EXCEPT ![pred[t]] = pointTo(curr[t])] /\ unlink(chain(t))
        /\ active' = active
    BY <1>2 DEF search_unlink, store, call
  <2>3. QED BY <1>2, <2>1, <2>2 DEF unlink, Unlinks
<1>3. QED BY <1>1, <1>2

(* erase takes out the node that it has marked, alone. *)
LEMMA EraseUnlinkEffect ==
  ASSUME Local, NEW t \in Tid, erase_unlink(t)
  PROVE  \/ /\ holds(pred[t], pointTo(curr[t])) /\ curr[t] \in LinkedNodes
            /\ Unlinks(pred[t], nxt[t].ptr) /\ inBetween(pred[t], nxt[t].ptr) = {curr[t]}
         \/ ~holds(pred[t], pointTo(curr[t])) /\ Quiet
<1> USE DEF Local
<1>1. CASE ~holds(pred[t], pointTo(curr[t]))
  BY <1>1 DEF erase_unlink, nodes, call, Quiet
<1>2. CASE holds(pred[t], pointTo(curr[t]))
  <2>0. pc[t] = "unlink"
    BY DEF erase_unlink
  <2>1. /\ op[t].key \in Key /\ op[t].key = keyOf(curr[t]) /\ ~nxt[t].mark
        /\ next[curr[t]] = get_marked_ref(nxt[t])
        /\ pred[t] \in Node \union {Head} /\ Keeps(t, pred[t]) /\ nxt[t] \in Field
    BY <2>0, Hands DEF Settled, Searches, SearchOf, TypeOK
  <2>2. /\ pred[t] \in LinkedNodes \union {Head} /\ ~next[pred[t]].mark
        /\ curr[t] \in LinkedNodes \union {Tail} /\ keyOf(pred[t]) < keyOf(curr[t])
        /\ \A x \in LinkedNodes : keyOf(pred[t]) < key[x] => keyOf(curr[t]) <= key[x]
    BY <1>2, <2>1, HoldsLinked
  <2>3. curr[t] \in LinkedNodes
    BY <2>1, <2>2, KeyOf, KeysAreNat
  <2>4. next[curr[t]].mark /\ next[curr[t]].ptr = nxt[t].ptr /\ nxt[t] = pointTo(nxt[t].ptr)
    BY <2>1, Fields
  <2>5. /\ nxt[t].ptr \in LinkedNodes \union {Tail} /\ keyOf(curr[t]) < keyOf(nxt[t].ptr)
        /\ \A x \in LinkedNodes : keyOf(curr[t]) < keyOf(x) => keyOf(nxt[t].ptr) <= keyOf(x)
    BY <2>3, <2>4 DEF Chain
  <2>6. /\ \A x \in LinkedNodes : keyOf(x) = key[x] /\ key[x] \in Nat
        /\ keyOf(pred[t]) \in Nat /\ keyOf(curr[t]) \in Nat /\ keyOf(nxt[t].ptr) \in Nat
    BY <2>1, <2>3, <2>5, KeyOf, KeysAreNat DEF LinkedNodes
  <2>7. inBetween(pred[t], nxt[t].ptr) = {curr[t]}
    <3>1. curr[t] \in inBetween(pred[t], nxt[t].ptr)
      BY <2>2, <2>3, <2>5, <2>6 DEF inBetween
    <3>2. ASSUME NEW x \in inBetween(pred[t], nxt[t].ptr) PROVE x = curr[t]
      <4>1. x \in LinkedNodes /\ keyOf(curr[t]) <= key[x] /\ key[x] < keyOf(nxt[t].ptr)
        BY <2>2, <3>2 DEF inBetween
      <4>2. ~(keyOf(curr[t]) < key[x])
        BY <2>5, <2>6, <4>1
      <4>3. key[x] = key[curr[t]]
        BY <2>3, <2>6, <4>1, <4>2
      <4>4. QED BY <2>3, <4>1, <4>3 DEF Chain
    <3>3. QED BY <3>1, <3>2
  <2>8. keyOf(pred[t]) < keyOf(nxt[t].ptr)
    BY <2>2, <2>5, <2>6
  <2>9. /\ next' = [next EXCEPT ![pred[t]] = pointTo(nxt[t].ptr)] /\ unlink({curr[t]})
        /\ active' = active
    BY <1>2, <2>4 DEF erase_unlink, store, call
  <2>10. Unlinks(pred[t], nxt[t].ptr)
    BY <2>2, <2>4, <2>5, <2>7, <2>8, <2>9 DEF unlink, Unlinks
  <2>11. QED BY <1>2, <2>3, <2>7, <2>10
<1>3. QED BY <1>1, <1>2

(* What is retired has been unlinked, and by the same call. *)
LEMMA RetireEffect ==
  ASSUME Local, Retiring, NEW t \in Tid
  PROVE  /\ search_retire(t) => cur[t] \in Node /\ Retires(cur[t])
         /\ erase_retire(t) => curr[t] \in Node /\ Retires(curr[t])
<1>0. PICK rest \in [Tid -> SUBSET Node] : Rests(rest)
  BY DEF Retiring
<1>1. ASSUME search_retire(t) PROVE cur[t] \in Node /\ Retires(cur[t])
  <2>1. cur[t] \in rest[t]
    BY <1>0, <1>1 DEF search_retire, goto, Rests, RestOf
  <2>2. cur[t] \in Node /\ status[cur[t]] = "unlinked"
    BY <1>0, <2>1 DEF Rests
  <2>3. QED BY <1>1, <2>2 DEF search_retire, retireNode, call, Retires
<1>2. ASSUME erase_retire(t) PROVE curr[t] \in Node /\ Retires(curr[t])
  <2>1. curr[t] \in rest[t]
    BY <1>0, <1>2 DEF erase_retire, goto, Rests, RestOf
  <2>2. curr[t] \in Node /\ status[curr[t]] = "unlinked"
    BY <1>0, <2>1 DEF Rests
  <2>3. QED BY <1>2, <2>2 DEF erase_retire, retireNode, call, Retires
<1>3. QED BY <1>1, <1>2

(* Whatever a step does to the list, *)
EffectOf(t) ==
    \/ Quiet \/ Begins(t) \/ (\E n \in Node : Links(t, n)) \/ Marks(t)
    \/ (\E p, c \in Node \union {Head, Tail} : Unlinks(p, c))
    \/ (\E n \in Node : Retires(n)) \/ Ends(t)
Effect == (\E t \in Tid : EffectOf(t)) \/ (\E n \in Node : Frees(n))

(* it is one of these. *)
LEMMA NextHasEffect ==
  /\ \A t \in Tid : Local /\ Retiring /\ step(t) => EffectOf(t)
  /\ \A t \in Tid : Local /\ startOp(t, "search", set, 1) /\ UNCHANGED <<search, next>> => Begins(t)
  /\ \A t \in Tid : end(t) => Ends(t)
  /\ \A n \in Node : freeNode(n) => Frees(n)
  /\ Local /\ Retiring /\ Next => Effect
<1>1. ASSUME NEW t \in Tid, Local, Retiring, step(t) PROVE EffectOf(t)
  <2>1. CASE \/ search_start(t) \/ search_walk(t) \/ search_adjacent(t) \/ search_recheck(t)
             \/ erase_loadSucc(t)
    <3>1. Quiet
      BY <2>1 DEF search_start, search_walk, search_adjacent, search_recheck, search_return,
                  search_retry, erase_loadSucc, nodes, call, Quiet
    <3>2. QED BY <3>1 DEF EffectOf
  <2>2. CASE search_unlink(t)
    <3>1. Unlinks(pred[t], curr[t]) \/ Quiet
      BY <1>1, <2>2, SearchUnlinkEffect
    <3>2. ASSUME NEW p, NEW c, Unlinks(p, c)
          PROVE  \E q, d \in Node \union {Head, Tail} : Unlinks(q, d)
      <4>1. p \in Node \union {Head, Tail} /\ c \in Node \union {Head, Tail}
        BY <3>2 DEF Unlinks, LinkedNodes
      <4>2. QED BY <3>2, <4>1
    <3>3. QED BY <3>1, <3>2 DEF EffectOf
  <2>3. CASE erase_unlink(t)
    <3>1. Unlinks(pred[t], nxt[t].ptr) \/ Quiet
      BY <1>1, <2>3, EraseUnlinkEffect
    <3>2. ASSUME NEW p, NEW c, Unlinks(p, c)
          PROVE  \E q, d \in Node \union {Head, Tail} : Unlinks(q, d)
      <4>1. p \in Node \union {Head, Tail} /\ c \in Node \union {Head, Tail}
        BY <3>2 DEF Unlinks, LinkedNodes
      <4>2. QED BY <3>2, <4>1
    <3>3. QED BY <3>1, <3>2 DEF EffectOf
  <2>4. CASE search_retire(t) \/ erase_retire(t)
    BY <1>1, <2>4, RetireEffect DEF EffectOf
  <2>5. CASE insert_link(t) \/ erase_mark(t)
    BY <1>1, <2>5, LinkEffect, MarkEffect DEF EffectOf
  <2>6. CASE end(t)
    BY <2>6 DEF end, endOp, Ends, EffectOf
  <2>7. QED BY <1>1, <2>1, <2>2, <2>3, <2>4, <2>5, <2>6 DEF step
<1>2. ASSUME NEW t \in Tid, Local, startOp(t, "search", set, 1), UNCHANGED <<search, next>>
      PROVE  Begins(t)
  BY <1>2 DEF startOp, goto, nodes, Local, Calls, CallOf, Begins
<1>3. ASSUME NEW t \in Tid, end(t) PROVE Ends(t)
  BY <1>3 DEF end, endOp, Ends
<1>4. ASSUME NEW n \in Node, freeNode(n) PROVE Frees(n)
  BY <1>4 DEF freeNode, free, call, Frees
<1>5. QED BY <1>1, <1>2, <1>3, <1>4 DEF Next, Effect, EffectOf

(* A call keeps its nodes, with their keys, and those that are marked with *)
(* their fields; a node out of the list does not come back.                *)
LEMMA StepKeeps ==
  ASSUME TypeOK, Nodes, Effect, NEW u \in Tid, u \in active, u \in active',
         NEW n \in Node, Keeps(u, n)
  PROVE  /\ Keeps(u, n)'
         /\ key'[n] = key[n]
         /\ next[n].mark => next'[n] = next[n]
         /\ status'[n] = "linked" => status[n] = "linked"
<1> DEFINE Kept == /\ Keeps(u, n)' /\ key'[n] = key[n]
                   /\ next[n].mark => next'[n] = next[n]
                   /\ status'[n] = "linked" => status[n] = "linked"
<1> SUFFICES Kept
  OBVIOUS
<1> USE DEF TypeOK, ClientTypeOK, Keeps
<1>0. status[n] # "free"
  BY KeptNotFree
<1>1. CASE Quiet
  BY <1>1 DEF Quiet
<1>2. ASSUME NEW t \in Tid, Begins(t) PROVE Kept
  BY <1>2 DEF Begins
<1>3. ASSUME NEW t \in Tid, NEW m \in Node, Links(t, m) PROVE Kept
  <2>1. m # n /\ (next[n].mark => n # pred[t])
    BY <1>0, <1>3, Fields DEF Links
  <2>2. next'[n] = IF n = pred[t] THEN pointTo(m) ELSE next[n]
    BY <1>3, <2>1, Sentinels DEF Links
  <2>3. status'[n] = status[n] /\ key'[n] = key[n] /\ waiting' = waiting
    BY <1>3, <2>1 DEF Links
  <2>4. QED BY <2>1, <2>2, <2>3
<1>4. ASSUME NEW t \in Tid, Marks(t) PROVE Kept
  BY <1>4 DEF Marks
<1>5. ASSUME NEW p, NEW c, Unlinks(p, c) PROVE Kept
  <2>1. next[n].mark => n # p
    BY <1>5 DEF Unlinks
  <2>2. n # p => next'[n] = next[n]
    BY <1>5 DEF Unlinks
  <2>3. /\ status'[n] = IF n \in inBetween(p, c) THEN "unlinked" ELSE status[n]
        /\ waiting'[n] = IF n \in inBetween(p, c) THEN active ELSE waiting[n]
        /\ key' = key
    BY <1>5 DEF Unlinks
  <2>4. n \in inBetween(p, c) => status[n] = "linked"
    BY DEF inBetween, LinkedNodes
  <2>5. QED BY <2>1, <2>2, <2>3, <2>4
<1>6. ASSUME NEW m \in Node, Retires(m) PROVE Kept
  <2>1. status'[n] = (IF n = m THEN "retired" ELSE status[n]) /\ status[m] = "unlinked"
    BY <1>6 DEF Retires
  <2>2. next' = next /\ key' = key /\ waiting' = waiting
    BY <1>6 DEF Retires
  <2>3. QED BY <2>1, <2>2
<1>7. ASSUME NEW t \in Tid, Ends(t) PROVE Kept
  BY <1>7 DEF Ends
<1>8. ASSUME NEW m \in Node, Frees(m) PROVE Kept
  <2>1. m # n
    BY <1>0, <1>8 DEF Frees
  <2>2. QED BY <1>8, <2>1 DEF Frees
<1>9. QED BY <1>1, <1>2, <1>3, <1>4, <1>5, <1>6, <1>7, <1>8 DEF Effect, EffectOf

(* The states of the nodes. *)
LEMMA NodesStep ==
  ASSUME Local, Effect
  PROVE  Nodes'
<1> USE Sentinels DEF Local, TypeOK, ClientTypeOK, Nodes
<1>1. CASE Quiet
  BY <1>1 DEF Quiet
<1>2. ASSUME NEW t \in Tid, Begins(t) PROVE Nodes'
  BY <1>2 DEF Begins
<1>3. ASSUME NEW t \in Tid, NEW m \in Node, Links(t, m) PROVE Nodes'
  <2>1. \A n \in Node : /\ status'[n] = IF n = m THEN "linked" ELSE status[n]
                        /\ key'[n] = IF n = m THEN op[t].key ELSE key[n]
    BY <1>3 DEF Links
  <2>2. op[t].key \in Key /\ status[m] = "free" /\ UNCHANGED <<active, waiting>>
    BY <1>3 DEF Links
  <2>3. /\ pred[t] \in Node \union {Head} /\ pred[t] # m
        /\ pred[t] \in Node => status[pred[t]] = "linked"
    BY <1>3, <2>2 DEF Links, LinkedNodes
  <2>4. \A n \in Node \union {Head} : n # m /\ n # pred[t] => next'[n] = next[n]
    BY <1>3 DEF Links
  <2>5. ~next'[m].mark /\ ~next'[pred[t]].mark
    BY <1>3, <2>3, Fields DEF Links
  <2>6. ~next'[Head].mark
    BY <2>4, <2>5
  <2>7. QED BY <2>1, <2>2, <2>3, <2>4, <2>5, <2>6
<1>4. ASSUME NEW t \in Tid, Marks(t) PROVE Nodes'
  <2>1. curr[t] \in Node /\ status[curr[t]] = "linked"
    BY <1>4 DEF Marks, LinkedNodes
  <2>2. \A n \in Node \union {Head} : n # curr[t] => next'[n] = next[n]
    BY <1>4, <2>1 DEF Marks
  <2>3. UNCHANGED <<key, status, active, waiting>>
    BY <1>4 DEF Marks
  <2>4. QED BY <2>1, <2>2, <2>3
<1>5. ASSUME NEW p, NEW c, Unlinks(p, c) PROVE Nodes'
  <2>1. \A n \in Node : /\ status'[n] = IF n \in inBetween(p, c) THEN "unlinked" ELSE status[n]
                        /\ waiting'[n] = IF n \in inBetween(p, c) THEN active ELSE waiting[n]
    BY <1>5 DEF Unlinks
  <2>2. /\ \A n \in inBetween(p, c) : next[n].mark /\ status[n] = "linked"
        /\ ~next[p].mark /\ UNCHANGED <<key, active>>
    BY <1>5 DEF Unlinks, inBetween, LinkedNodes
  <2>3. p \in Node \union {Head} /\ (p \in Node => status[p] = "linked")
    BY <1>5 DEF Unlinks, LinkedNodes
  <2>4. \A n \in Node \union {Head} : n # p => next'[n] = next[n]
    BY <1>5 DEF Unlinks
  <2>5. ~next'[p].mark
    BY <1>5, <2>3, Fields DEF Unlinks
  <2>6. ~next'[Head].mark
    BY <2>4, <2>5
  <2>7. p \notin inBetween(p, c)
    BY <2>2
  <2>8. ASSUME NEW n \in Node
        PROVE  /\ waiting'[n] \subseteq active'
               /\ status'[n] \in {"free", "linked"} => waiting'[n] = {}
               /\ status'[n] = "free" => ~next'[n].mark
               /\ status'[n] \in {"unlinked", "retired"} => next'[n].mark
               /\ status'[n] # "free" => key'[n] \in Key
    BY <2>1, <2>2, <2>3, <2>4, <2>5, <2>7
  <2>9. QED BY <2>6, <2>8
<1>6. ASSUME NEW m \in Node, Retires(m) PROVE Nodes'
  <2>1. \A n \in Node : status'[n] = IF n = m THEN "retired" ELSE status[n]
    BY <1>6 DEF Retires
  <2>2. status[m] = "unlinked" /\ UNCHANGED <<next, key, active, waiting>>
    BY <1>6 DEF Retires
  <2>3. QED BY <2>1, <2>2
<1>7. ASSUME NEW t \in Tid, Ends(t) PROVE Nodes'
  BY <1>7 DEF Ends
<1>8. ASSUME NEW n \in Node, Frees(n) PROVE Nodes'
  <2>1. \A m \in Node : /\ status'[m] = IF m = n THEN "free" ELSE status[m]
                        /\ m # n => key'[m] = key[m] /\ next'[m] = next[m]
    BY <1>8 DEF Frees
  <2>2. waiting[n] = {} /\ UNCHANGED <<active, waiting>>
    BY <1>8 DEF Frees
  <2>3. ~next'[n].mark /\ ~next'[Head].mark
    BY <1>8, Fields DEF Frees
  <2>4. QED BY <2>1, <2>2, <2>3
<1>9. QED BY <1>1, <1>2, <1>3, <1>4, <1>5, <1>6, <1>7, <1>8 DEF Effect, EffectOf

-------------------------------------------------------------------------------
(* The keys of the list can be compared, and those of Head and Tail are at *)
(* its ends.                                                               *)
LEMMA LinkedKeys ==
  ASSUME TypeOK, Nodes
  PROVE  /\ \A x \in LinkedNodes : /\ x \in Node /\ keyOf(x) = key[x] /\ key[x] \in Key
                                   /\ KEY_MIN < keyOf(x) /\ keyOf(x) < KEY_MAX
         /\ \A x \in LinkedNodes \union {Head, Tail} : keyOf(x) \in Nat
         /\ Tail \notin LinkedNodes \union {Head} /\ Head \notin LinkedNodes
<1>1. \A x \in LinkedNodes : x \in Node /\ keyOf(x) = key[x] /\ key[x] \in Key
  BY KeyOf DEF Nodes, LinkedNodes
<1>2. QED BY <1>1, KeysAreNat, Sentinels DEF LinkedNodes

(* No two nodes of the list have the same key or the same successor. *)
LEMMA OneOfAKind ==
  ASSUME TypeOK, Nodes, Chain,
         NEW n \in LinkedNodes \union {Head}, NEW m \in LinkedNodes \union {Head}
  PROVE  /\ keyOf(n) = keyOf(m) => n = m
         /\ next[n].ptr = next[m].ptr => n = m
<1>1. /\ \A x \in LinkedNodes : keyOf(x) = key[x] /\ KEY_MIN < keyOf(x)
      /\ \A x \in LinkedNodes \union {Head, Tail} : keyOf(x) \in Nat
  BY LinkedKeys
<1>2. keyOf(n) = keyOf(m) => n = m
  BY <1>1, KeysAreNat, KeyOf DEF Chain
<1>3. ASSUME NEW x \in LinkedNodes \union {Head}, NEW y \in LinkedNodes \union {Head},
             next[x].ptr = next[y].ptr
      PROVE  ~(keyOf(x) < keyOf(y))
  <2>1. SUFFICES ASSUME keyOf(x) < keyOf(y) PROVE FALSE
    OBVIOUS
  <2>2. y \in LinkedNodes
    BY <1>1, <2>1, KeyOf DEF KEY_MIN
  <2>3. keyOf(next[x].ptr) <= keyOf(y) /\ keyOf(y) < keyOf(next[y].ptr)
    BY <2>1, <2>2 DEF Chain
  <2>4. next[y].ptr \in LinkedNodes \union {Tail}
    BY DEF Chain
  <2>5. QED BY <1>1, <1>3, <2>3, <2>4
<1>4. QED BY <1>1, <1>2, <1>3

(* The chain stays what it is when it does not change, *)
LEMMA ChainSame ==
  ASSUME Chain, LinkedNodes' = LinkedNodes, \A n \in LinkedNodes : key'[n] = key[n],
         \A n \in LinkedNodes \union {Head} : next'[n].ptr = next[n].ptr
  PROVE  Chain'
<1>1. \A n \in LinkedNodes \union {Head, Tail} : keyOf(n)' = keyOf(n)
  <2>1. \A n \in LinkedNodes : n \in Node
    BY DEF LinkedNodes
  <2>2. QED BY <2>1, KeyOf
<1>2. /\ \A n \in LinkedNodes \union {Head} :
            /\ next'[n].ptr \in LinkedNodes \union {Tail}
            /\ keyOf(n)' < keyOf(next[n].ptr)'
            /\ \A x \in LinkedNodes : keyOf(n)' < keyOf(x)' => keyOf(next[n].ptr)' <= keyOf(x)'
      /\ \A n, m \in LinkedNodes : key'[n] = key'[m] => n = m
      /\ \A n \in LinkedNodes \union {Tail} :
            \E m \in LinkedNodes \union {Head} : next'[m].ptr = n
  <2>1. \A n, m : next'[n].ptr = m => keyOf(next[n].ptr)' = keyOf(m)'
    BY DEF keyOf
  <2>2. QED BY <1>1, <2>1 DEF Chain
<1>3. QED BY <1>2 DEF Chain, keyOf

(* when all nodes between two of it leave it, *)
LEMMA ChainCut ==
  ASSUME TypeOK, Nodes, Chain, key' = key, NEW p \in LinkedNodes \union {Head},
         NEW c \in LinkedNodes \union {Tail}, keyOf(p) < keyOf(c),
         LinkedNodes' = LinkedNodes \ inBetween(p, c), next'[p].ptr = c,
         \A n \in LinkedNodes \union {Head} : n # p => next'[n].ptr = next[n].ptr
  PROVE  Chain'
<1> DEFINE L == LinkedNodes
           M == LinkedNodes \ inBetween(p, c)
<1>1. /\ \A x \in L : /\ x \in Node /\ keyOf(x) = key[x]
                      /\ KEY_MIN < keyOf(x) /\ keyOf(x) < KEY_MAX
      /\ \A x \in L \union {Head, Tail} : keyOf(x) \in Nat
      /\ Tail \notin L \union {Head} /\ Head \notin L
  BY LinkedKeys
<1>2. \A x : keyOf(x)' = keyOf(x)
  BY DEF keyOf
<1>3. \A x : x \in M <=> x \in L /\ (keyOf(x) <= keyOf(p) \/ keyOf(c) <= keyOf(x))
  <2>1. \A x \in L : x \in inBetween(p, c) <=> keyOf(p) < keyOf(x) /\ keyOf(x) < keyOf(c)
    BY <1>1 DEF inBetween
  <2>2. QED BY <1>1, <2>1
<1>4. p \in M \union {Head} /\ c \in M \union {Tail}
  BY <1>1, <1>3
<1>5. ASSUME NEW n \in L \union {Head}, keyOf(p) <= keyOf(n), keyOf(n) < keyOf(c),
             next[n].ptr \in M \union {Tail}
      PROVE  next[n].ptr = c
  <2>1. /\ keyOf(n) < keyOf(next[n].ptr)
        /\ \A x \in L : keyOf(n) < keyOf(x) => keyOf(next[n].ptr) <= keyOf(x)
    BY DEF Chain
  <2>2. keyOf(next[n].ptr) \in Nat /\ keyOf(next[n].ptr) <= KEY_MAX
    BY <1>1, <1>5, KeyOf, KeysAreNat
  <2>3. keyOf(next[n].ptr) <= keyOf(c)
    BY <1>1, <1>5, <2>1, <2>2, KeyOf
  <2>4. keyOf(c) <= keyOf(next[n].ptr)
    <3>1. CASE next[n].ptr = Tail
      BY <1>1, <3>1, KeyOf, KeysAreNat
    <3>2. CASE next[n].ptr \in M
      BY <1>1, <1>3, <1>5, <2>1, <2>2, <3>2
    <3>3. QED BY <1>5, <3>1, <3>2
  <2>5. keyOf(next[n].ptr) = keyOf(c)
    BY <1>1, <2>2, <2>3, <2>4
  <2>6. next[n].ptr \in L /\ c \in L => next[n].ptr = c
    BY <2>5, OneOfAKind
  <2>7. QED BY <1>1, <1>5, <2>5, <2>6, KeyOf
<1>6. ASSUME NEW n \in M \union {Head}, n # p
      PROVE  /\ next'[n].ptr = next[n].ptr /\ next[n].ptr \in M \union {Tail}
             /\ keyOf(n) < keyOf(next[n].ptr)
             /\ \A x \in L : keyOf(n) < keyOf(x) => keyOf(next[n].ptr) <= keyOf(x)
  <2>1. /\ next'[n].ptr = next[n].ptr /\ next[n].ptr \in L \union {Tail}
        /\ keyOf(n) < keyOf(next[n].ptr)
        /\ \A x \in L : keyOf(n) < keyOf(x) => keyOf(next[n].ptr) <= keyOf(x)
    BY <1>6 DEF Chain
  <2>2. ASSUME next[n].ptr \in inBetween(p, c) PROVE FALSE
    <3>1. keyOf(p) < keyOf(next[n].ptr) /\ keyOf(next[n].ptr) < keyOf(c)
      BY <1>1, <2>2 DEF inBetween
    <3>2. keyOf(n) # keyOf(p)
      BY <1>6, OneOfAKind
    <3>3. ~(keyOf(n) < keyOf(p))
      <4>1. SUFFICES ASSUME keyOf(n) < keyOf(p) PROVE FALSE
        OBVIOUS
      <4>2. p \in L
        BY <1>1, <1>6, <4>1, KeyOf
      <4>3. QED BY <1>1, <2>1, <2>2, <3>1, <4>1, <4>2
    <3>4. keyOf(p) < keyOf(n) /\ keyOf(n) < keyOf(c)
      BY <1>1, <1>6, <2>1, <3>1, <3>2, <3>3
    <3>5. n \in L
      BY <1>1, <1>6, <3>4, KeyOf
    <3>6. QED BY <1>1, <1>3, <1>6, <3>4, <3>5
  <2>3. QED BY <2>1, <2>2
<1>7. \A x \in M : keyOf(p) < keyOf(x) => keyOf(c) <= keyOf(x)
  BY <1>1, <1>3
<1>8. \A n \in M \union {Head} : \E m \in M \union {Tail} :
        /\ next'[n].ptr = m /\ keyOf(n) < keyOf(m)
        /\ \A x \in M : keyOf(n) < keyOf(x) => keyOf(m) <= keyOf(x)
  BY <1>4, <1>6, <1>7
<1>9. \A n \in M \union {Tail} : \E m \in M \union {Head} : next'[m].ptr = n
  <2>1. ASSUME NEW n \in M \union {Tail}, n # c
        PROVE  \E m \in M \union {Head} : next'[m].ptr = n
    <3>1. PICK m \in L \union {Head} : next[m].ptr = n
      BY <2>1 DEF Chain
    <3>2. ~(keyOf(p) <= keyOf(m) /\ keyOf(m) < keyOf(c))
      BY <1>5, <2>1, <3>1
    <3>3. m # p /\ m \in M \union {Head}
      BY <1>1, <1>3, <3>2
    <3>4. QED BY <3>1, <3>3
  <2>2. QED BY <1>4, <2>1
<1>10. \A n, m \in M : key'[n] = key'[m] => n = m
  BY DEF Chain
<1>11. \A n \in M \union {Head} :
        /\ next'[n].ptr \in M \union {Tail}
        /\ keyOf(n)' < keyOf(next[n].ptr)'
        /\ \A x \in M : keyOf(n)' < keyOf(x)' => keyOf(next[n].ptr)' <= keyOf(x)'
  <2>1. \A n, m : next'[n].ptr = m => keyOf(next[n].ptr)' = keyOf(m)'
    BY DEF keyOf
  <2>2. QED BY <1>2, <1>8, <2>1
<1>12. QED BY <1>9, <1>10, <1>11 DEF Chain

(* and when one is put into it. *)
LEMMA ChainInsert ==
  ASSUME TypeOK, Nodes, Chain, NEW p \in LinkedNodes \union {Head},
         NEW x \in Node, x \notin LinkedNodes, LinkedNodes' = LinkedNodes \union {x},
         NEW k \in Key, key'[x] = k, \A n \in LinkedNodes : key'[n] = key[n],
         NEW c, next[p].ptr = c, keyOf(p) < k, k < keyOf(c),
         next'[p].ptr = x, next'[x].ptr = c,
         \A n \in LinkedNodes \union {Head} : n # p => next'[n].ptr = next[n].ptr
  PROVE  Chain'
<1> DEFINE L == LinkedNodes
<1>1. /\ \A y \in L : y \in Node /\ keyOf(y) = key[y]
      /\ Tail \notin L \union {Head} /\ Head \notin L /\ x # Head /\ x # Tail
      /\ c \in L \union {Tail}
  BY LinkedKeys, Sentinels DEF Chain
<1>2. /\ \A n \in L \union {Head, Tail} : keyOf(n)' = keyOf(n) /\ keyOf(n) \in Nat
      /\ keyOf(x)' = k /\ k \in Nat
  BY <1>1, KeyOf, KeysAreNat
<1>3. \A y \in L : /\ keyOf(p) < keyOf(y) => k < keyOf(y)
                   /\ k < keyOf(y) => keyOf(c) <= keyOf(y)
                   /\ k # keyOf(y)
  <2>1. \A y \in L : keyOf(p) < keyOf(y) => keyOf(c) <= keyOf(y)
    BY DEF Chain
  <2>2. QED BY <1>1, <1>2, <2>1
<1>4. \A n \in L \union {Head} : n # p => next'[n].ptr = next[n].ptr /\ next[n].ptr # c
  BY OneOfAKind
<1>5. ASSUME NEW n \in L \union {Head}, n # p, keyOf(n) < k
      PROVE  keyOf(next[n].ptr) <= k
  <2>1. keyOf(n) < keyOf(p)
    <3>1. keyOf(n) # keyOf(p)
      BY <1>5, OneOfAKind
    <3>2. n \in L => ~(keyOf(p) < keyOf(n))
      BY <1>2, <1>3, <1>5
    <3>3. n = Head => ~(keyOf(p) < keyOf(n))
      BY <1>2, KeyOf DEF KEY_MIN
    <3>4. QED BY <1>2, <1>5, <3>1, <3>2, <3>3
  <2>2. p \in L
    BY <1>2, <2>1, KeyOf DEF KEY_MIN
  <2>3. keyOf(next[n].ptr) <= keyOf(p) /\ next[n].ptr \in L \union {Tail}
    BY <1>5, <2>1, <2>2 DEF Chain
  <2>4. QED BY <1>2, <2>3
<1>6. \A n \in L \union {x, Head} : \E m \in L \union {x, Tail} :
        /\ next'[n].ptr = m /\ keyOf(n)' < keyOf(m)'
        /\ \A y \in L \union {x} : keyOf(n)' < keyOf(y)' => keyOf(m)' <= keyOf(y)'
  <2>1. ASSUME NEW n \in L \union {Head}, n # p
        PROVE  \E m \in L \union {x, Tail} :
                  /\ next'[n].ptr = m /\ keyOf(n)' < keyOf(m)'
                  /\ \A y \in L \union {x} : keyOf(n)' < keyOf(y)' => keyOf(m)' <= keyOf(y)'
    <3>1. /\ next[n].ptr \in L \union {Tail} /\ keyOf(n) < keyOf(next[n].ptr)
          /\ \A y \in L : keyOf(n) < keyOf(y) => keyOf(next[n].ptr) <= keyOf(y)
      BY <2>1 DEF Chain
    <3>2. QED BY <1>2, <1>4, <1>5, <2>1, <3>1
  <2>2. \A y \in L \union {x} : keyOf(p)' < keyOf(y)' => keyOf(x)' <= keyOf(y)'
    BY <1>2, <1>3
  <2>3. \A y \in L \union {x} : keyOf(x)' < keyOf(y)' => keyOf(c)' <= keyOf(y)'
    BY <1>1, <1>2, <1>3
  <2>4. QED BY <1>1, <1>2, <2>1, <2>2, <2>3
<1>7. \A n \in L \union {x, Tail} : \E m \in L \union {x, Head} : next'[m].ptr = n
  <2>1. ASSUME NEW n \in L \union {Tail}, n # c
        PROVE  \E m \in L \union {x, Head} : next'[m].ptr = n
    <3>1. PICK m \in L \union {Head} : next[m].ptr = n
      BY <2>1 DEF Chain
    <3>2. QED BY <2>1, <3>1
  <2>2. QED BY <2>1
<1>8. \A n, m \in L \union {x} : key'[n] = key'[m] => n = m
  <2>1. \A y \in L : key[y] # k
    BY <1>1, <1>3, KeyOf
  <2>2. QED BY <2>1 DEF Chain
<1>9. \A n \in (LinkedNodes \union {Head})' :
        /\ next'[n].ptr \in (LinkedNodes \union {Tail})'
        /\ keyOf(n)' < keyOf(next[n].ptr)'
        /\ \A y \in LinkedNodes' : keyOf(n)' < keyOf(y)' => keyOf(next[n].ptr)' <= keyOf(y)'
  <2>1. \A n, m : next'[n].ptr = m => keyOf(next[n].ptr)' = keyOf(m)'
    BY DEF keyOf
  <2>2. QED BY <1>6, <2>1
<1>10. QED
  <2>1. L \union {x, Head} = LinkedNodes' \union {Head}
        /\ L \union {x, Tail} = LinkedNodes' \union {Tail}
    OBVIOUS
  <2>2. QED BY <1>7, <1>8, <1>9, <2>1 DEF Chain

(* Which nodes are linked after a step. *)
LEMMA LinkedAfter ==
  ASSUME TypeOK
  PROVE  /\ \A t \in Tid : Quiet \/ Begins(t) \/ Marks(t) \/ Ends(t) => LinkedNodes' = LinkedNodes
         /\ \A n \in Node : Retires(n) => LinkedNodes' = LinkedNodes
         /\ \A t \in Tid, n \in Node :
               Links(t, n) => n \notin LinkedNodes /\ LinkedNodes' = LinkedNodes \union {n}
         /\ \A p, c : Unlinks(p, c) => LinkedNodes' = LinkedNodes \ inBetween(p, c)
         /\ \A n \in Node : Frees(n) => n \notin LinkedNodes /\ LinkedNodes' = LinkedNodes
<1> USE DEF TypeOK, ClientTypeOK, LinkedNodes
<1>1. \A t \in Tid : Quiet \/ Begins(t) \/ Marks(t) \/ Ends(t) => LinkedNodes' = LinkedNodes
  BY DEF Quiet, Begins, Marks, Ends
<1>2. ASSUME NEW t \in Tid, NEW n \in Node, Links(t, n)
      PROVE  n \notin LinkedNodes /\ LinkedNodes' = LinkedNodes \union {n}
  BY <1>2 DEF Links
<1>3. ASSUME NEW p, NEW c, Unlinks(p, c) PROVE LinkedNodes' = LinkedNodes \ inBetween(p, c)
  BY <1>3 DEF Unlinks
<1>4. ASSUME NEW n \in Node, Frees(n) PROVE n \notin LinkedNodes /\ LinkedNodes' = LinkedNodes
  BY <1>4 DEF Frees
<1>5. ASSUME NEW n \in Node, Retires(n) PROVE LinkedNodes' = LinkedNodes
  BY <1>5 DEF Retires
<1>6. QED BY <1>1, <1>2, <1>3, <1>4, <1>5

(* The linked nodes stay a chain in the order of their keys, whatever a    *)
(* step does.                                                              *)
LEMMA ChainStep ==
  ASSUME Local, Effect
  PROVE  Chain'
<1> USE DEF Local
<1>0. next \in [Node \union {Head} -> Field] /\ LinkedNodes \subseteq Node
      /\ \A n \in Node \union {Head} : next[n] \in Field
  BY Typed
<1>1. ASSUME LinkedNodes' = LinkedNodes, next' = next, key' = key PROVE Chain'
  BY <1>1, ChainSame
<1>2. ASSUME NEW t \in Tid, Quiet \/ Begins(t) \/ Ends(t) PROVE Chain'
  <2>1. next' = next /\ key' = key
    BY <1>2 DEF Quiet, Begins, Ends
  <2>2. QED BY <1>1, <1>2, <2>1, LinkedAfter
<1>3. ASSUME NEW t \in Tid, NEW n \in Node, Links(t, n) PROVE Chain'
  <2>1. n \notin LinkedNodes /\ LinkedNodes' = LinkedNodes \union {n}
    BY <1>3, LinkedAfter
  <2>2. /\ pred[t] \in LinkedNodes \union {Head} /\ next[pred[t]].ptr = curr[t] /\ op[t].key \in Key
        /\ keyOf(pred[t]) < op[t].key /\ op[t].key < keyOf(curr[t])
    BY <1>3, Fields DEF Links
  <2>3. key'[n] = op[t].key /\ \A m \in LinkedNodes : key'[m] = key[m]
    BY <1>0, <1>3, <2>1 DEF Links
  <2>4. /\ next'[pred[t]] = pointTo(n) /\ next'[n] = pointTo(curr[t])
        /\ \A m \in LinkedNodes \union {Head} : m # pred[t] => next'[m] = next[m]
    BY <1>0, <1>3, <2>1, <2>2, Sentinels DEF Links
  <2>5. next'[pred[t]].ptr = n /\ next'[n].ptr = curr[t]
    BY <2>4, Fields
  <2>6. QED BY <2>1, <2>2, <2>3, <2>4, <2>5, ChainInsert
<1>4. ASSUME NEW t \in Tid, Marks(t) PROVE Chain'
  <2>1. curr[t] \in Node /\ next' = [next EXCEPT ![curr[t]] = get_marked_ref(next[curr[t]])]
        /\ key' = key
    BY <1>0, <1>4 DEF Marks
  <2>2. \A n \in LinkedNodes \union {Head} : next'[n].ptr = next[n].ptr
    BY <1>0, <2>1, Fields
  <2>3. QED BY <1>4, <2>1, <2>2, LinkedAfter, ChainSame
<1>5. ASSUME NEW p, NEW c, Unlinks(p, c) PROVE Chain'
  <2>1. LinkedNodes' = LinkedNodes \ inBetween(p, c)
    BY <1>5, LinkedAfter
  <2>2. /\ p \in LinkedNodes \union {Head} /\ c \in LinkedNodes \union {Tail} /\ keyOf(p) < keyOf(c)
        /\ key' = key
    BY <1>5 DEF Unlinks
  <2>3. /\ next'[p].ptr = c
        /\ \A m \in LinkedNodes \union {Head} : m # p => next'[m].ptr = next[m].ptr
    BY <1>0, <1>5, <2>2, Fields DEF Unlinks
  <2>4. QED BY <2>1, <2>2, <2>3, ChainCut
<1>6. ASSUME NEW n \in Node, Retires(n) PROVE Chain'
  <2>1. next' = next /\ key' = key
    BY <1>6 DEF Retires
  <2>2. QED BY <1>1, <1>6, <2>1, LinkedAfter
<1>7. ASSUME NEW n \in Node, Frees(n) PROVE Chain'
  <2>1. LinkedNodes' = LinkedNodes /\ n \notin LinkedNodes
    BY <1>7, LinkedAfter
  <2>2. /\ \A m \in LinkedNodes \union {Head} : next'[m] = next[m]
        /\ \A m \in LinkedNodes : key'[m] = key[m]
    BY <1>0, <1>7, <2>1, Sentinels DEF Frees, TypeOK, ClientTypeOK
  <2>3. QED BY <2>1, <2>2, ChainSame
<1>8. QED BY <1>2, <1>3, <1>4, <1>5, <1>6, <1>7 DEF Effect, EffectOf

(* A node that is out of the list does not change while a call keeps it,   *)
(* nor does the key of its successor.                                      *)
LEMMA OutOfTheList ==
  ASSUME Local, Frozen, Effect, NEW n \in Node, NEW u \in waiting[n], u \in active'
  PROVE  /\ next'[n] = next[n] /\ next'[n].ptr \in Node \union {Tail} /\ Keeps(u, next[n].ptr)'
         /\ keyOf(n)' = keyOf(n) /\ keyOf(next[n].ptr)' = keyOf(next[n].ptr)
         /\ keyOf(n)' < keyOf(next[n].ptr)'
<1> USE DEF Local
<1>1. u \in Tid /\ u \in active /\ Keeps(u, n) /\ next[n].mark
  BY DEF Keeps, Nodes, TypeOK, ClientTypeOK
<1>2. next[n].ptr \in Node \union {Tail} /\ Keeps(u, next[n].ptr) /\ keyOf(n) < keyOf(next[n].ptr)
  BY DEF Frozen
<1>3. next'[n] = next[n] /\ key'[n] = key[n]
  BY <1>1, StepKeeps
<1>4. next[n].ptr \in Node => Keeps(u, next[n].ptr)' /\ key'[next[n].ptr] = key[next[n].ptr]
  BY <1>1, <1>2, <1>3, StepKeeps DEF Keeps
<1>5. next[n].ptr = Tail => Keeps(u, next[n].ptr)' /\ keyOf(next[n].ptr)' = keyOf(next[n].ptr)
  BY <1>3, Sentinels, KeyOf DEF Keeps, keyOf
<1>6. keyOf(next[n].ptr)' = keyOf(next[n].ptr)
  BY <1>2, <1>3, <1>4, <1>5 DEF keyOf
<1>7. keyOf(n)' = keyOf(n)
  BY <1>3, KeyOf
<1>8. QED BY <1>2, <1>3, <1>4, <1>5, <1>6, <1>7

(* A node that leaves the list still points into it or to one that leaves  *)
(* with it, and the fields of those that have left it do not change while  *)
(* a call keeps them.                                                      *)
LEMMA FrozenStep ==
  ASSUME Local, Frozen, Effect
  PROVE  Frozen'
<1> USE DEF Local
<1>1. /\ TypeOK /\ Nodes /\ Nodes'
      /\ \A n \in Node : waiting[n] \subseteq Tid /\ waiting[n] \subseteq active
    BY NodesStep DEF TypeOK, ClientTypeOK, Nodes
<1>2. ASSUME NEW n \in Node, NEW u \in waiting'[n], u \in waiting[n]
      PROVE  /\ next'[n].ptr \in Node \union {Tail} /\ Keeps(u, next[n].ptr)'
             /\ keyOf(n)' < keyOf(next[n].ptr)'
  <2>1. u \in active'
    BY <1>1, <1>2 DEF Nodes
  <2>2. QED BY <1>2, <2>1, OutOfTheList
<1>3. ASSUME NEW n \in Node, NEW u \in waiting'[n], u \notin waiting[n]
      PROVE  /\ next'[n].ptr \in Node \union {Tail} /\ Keeps(u, next[n].ptr)'
             /\ keyOf(n)' < keyOf(next[n].ptr)'
  <2>1. PICK p, c : Unlinks(p, c)
    <3>1. ASSUME NEW t \in Tid, EffectOf(t) PROVE \E p, c : Unlinks(p, c)
      <4>1. ~(Quiet \/ Begins(t) \/ Marks(t))
        BY <1>3 DEF Quiet, Begins, Marks
      <4>2. ~Ends(t) /\ \A m \in Node : ~Links(t, m) /\ ~Retires(m)
        BY <1>3 DEF Ends, Links, Retires
      <4>3. QED BY <3>1, <4>1, <4>2 DEF EffectOf
    <3>2. \A m \in Node : ~Frees(m)
      BY <1>3 DEF Frees
    <3>3. QED BY <3>1, <3>2 DEF Effect
  <2>2. /\ n \in inBetween(p, c) /\ u \in active /\ n \in LinkedNodes /\ next[n].mark
        /\ n # p /\ next' = [next EXCEPT ![p] = pointTo(c)] /\ key' = key
        /\ status' = [m \in Node |-> IF m \in inBetween(p, c) THEN "unlinked" ELSE status[m]]
        /\ waiting' = [m \in Node |-> IF m \in inBetween(p, c) THEN active ELSE waiting[m]]
    <3>1. waiting'[n] = IF n \in inBetween(p, c) THEN active ELSE waiting[n]
      BY <2>1 DEF Unlinks
    <3>2. n \in inBetween(p, c) /\ u \in active
      BY <1>3, <3>1
    <3>3. n \in LinkedNodes /\ next[n].mark /\ n # p
      BY <2>1, <3>2 DEF Unlinks, inBetween
    <3>4. QED BY <2>1, <3>2, <3>3 DEF Unlinks
  <2>3. next[n].ptr \in LinkedNodes \union {Tail} /\ keyOf(n) < keyOf(next[n].ptr)
    BY <2>2 DEF Chain
  <2>4. next'[n] = next[n]
    BY <2>2 DEF TypeOK
  <2>5. \A x : keyOf(x)' = keyOf(x)
    BY <2>2 DEF keyOf
  <2>6. Keeps(u, next[n].ptr)'
    BY <2>2, <2>3, <2>4, Sentinels DEF Keeps, LinkedNodes
  <2>7. keyOf(next[n].ptr)' = keyOf(next[n].ptr) /\ keyOf(n)' = keyOf(n)
    BY <2>2, <2>4 DEF keyOf
  <2>8. QED BY <2>3, <2>4, <2>6, <2>7 DEF LinkedNodes
<1>4. QED BY <1>2, <1>3 DEF Frozen

-------------------------------------------------------------------------------
(* One thread's step leaves what the others have alone; their seen may     *)
(* grow.                                                                   *)
Same(u) ==
    /\ pc'[u] = pc[u] /\ op'[u] = op[u] /\ answer'[u] = answer[u] /\ seen[u] \subseteq seen'[u]
    /\ pred'[u] = pred[u] /\ curr'[u] = curr[u] /\ predNext'[u] = predNext[u]
    /\ nxt'[u] = nxt[u] /\ cur'[u] = cur[u]
    /\ u \in active' <=> u \in active

Starts(t) == startOp(t, "search", set, 1) /\ UNCHANGED <<search, next>>
Moves(t) == step(t) \/ Starts(t)

(* What is noticed is added. *)
LEMMA NoticeGrows ==
  ASSUME seen \in [Tid -> SUBSET BOOLEAN], NEW k, NEW b \in BOOLEAN, notice(k, b)
  PROVE  seen' \in [Tid -> SUBSET BOOLEAN] /\ \A u \in Tid : seen[u] \subseteq seen'[u]
<1>1. \A t \in Tid : seen[t] \union {b} \in SUBSET BOOLEAN /\ seen[t] \in SUBSET BOOLEAN
  OBVIOUS
<1>2. QED BY <1>1 DEF notice

(* The locals of the calls. *)
Locals ==
    /\ pc \in [Tid -> Steps] /\ op \in [Tid -> Operation \union {NONE}] /\ active \subseteq Tid
    /\ answer \in [Tid -> BOOLEAN \union {NONE}] /\ seen \in [Tid -> SUBSET BOOLEAN]
    /\ pred \in [Tid -> Node \union {Head, Tail, NULL}]
    /\ curr \in [Tid -> Node \union {Head, Tail, NULL}]
    /\ predNext \in [Tid -> Node \union {Head, Tail, NULL}]
    /\ cur \in [Tid -> Node \union {Head, Tail, NULL}]
    /\ nxt \in [Tid -> Field]

(* They have their types. *)
LEMMA LocalsTyped == ASSUME TypeOK, Calls PROVE Locals
BY DEF TypeOK, ClientTypeOK, Calls, Locals

(* A step of one thread leaves the locals of the others as they are, and   *)
(* while a call runs it stays the same call.                               *)
LEMMA OthersSame ==
  ASSUME Local
  PROVE  /\ \A t \in Tid : Moves(t) => \A u \in Tid \ {t} : Same(u)
         /\ \A n \in Node : freeNode(n) => \A u \in Tid : Same(u)
         /\ \A t \in Tid : step(t) /\ ~end(t) => /\ op' = op /\ active' = active
                                                 /\ seen[t] \subseteq seen'[t]
<1>0. Locals
  BY LocalsTyped DEF Local
<1> USE <1>0 DEF Locals, Same, goto, call, position, search
<1>1. ASSUME NEW t \in Tid, Starts(t), NEW u \in Tid \ {t} PROVE Same(u)
  BY <1>1 DEF Starts, startOp
<1>2. ASSUME NEW t \in Tid, step(t), NEW u \in Tid \ {t} PROVE Same(u)
  <2>1. CASE search_start(t) \/ search_walk(t)
    BY <2>1 DEF search_start, search_walk
  <2>2. CASE search_adjacent(t) \/ search_recheck(t)
    <3>1. ASSUME NEW from, search_return(t, from) PROVE Same(u)
      BY <3>1 DEF search_return, decide
    <3>2. ASSUME NEW from, search_retry(t, from) PROVE Same(u)
      BY <3>2 DEF search_retry
    <3>3. QED BY <2>2, <3>1, <3>2 DEF search_adjacent, search_recheck
  <2>3. CASE search_unlink(t) \/ erase_loadSucc(t) \/ erase_unlink(t)
    BY <2>3 DEF search_unlink, erase_loadSucc, erase_unlink
  <2>4. CASE search_retire(t) \/ erase_retire(t)
    BY <2>4 DEF search_retire, erase_retire
  <2>5. CASE insert_link(t)
    <3>1. \A v \in Tid : seen[v] \subseteq seen'[v]
      BY <2>5, NoticeGrows DEF insert_link, takeEffect
    <3>2. QED BY <2>5, <3>1 DEF insert_link, takeEffect, decide
  <2>6. CASE erase_mark(t)
    <3>1. \A v \in Tid : seen[v] \subseteq seen'[v]
      BY <2>6, NoticeGrows DEF erase_mark, takeEffect
    <3>2. QED BY <2>6, <3>1 DEF erase_mark, takeEffect, decide
  <2>7. CASE end(t)
    BY <2>7 DEF end, endOp
  <2>8. QED BY <1>2, <2>1, <2>2, <2>3, <2>4, <2>5, <2>6, <2>7 DEF step
<1>3. ASSUME NEW n \in Node, freeNode(n), NEW u \in Tid PROVE Same(u)
  BY <1>3 DEF freeNode, free
<1>4. ASSUME NEW t \in Tid, step(t), ~end(t)
      PROVE  op' = op /\ active' = active /\ seen[t] \subseteq seen'[t]
  <2>1. CASE insert_link(t)
    BY <2>1, NoticeGrows DEF insert_link, takeEffect
  <2>2. CASE erase_mark(t)
    BY <2>2, NoticeGrows DEF erase_mark, takeEffect
  <2>3. CASE ~insert_link(t) /\ ~erase_mark(t)
    BY <1>4, <2>3
    DEF step, search_start, search_walk, search_adjacent, search_return, search_retry, search_unlink,
        search_retire, search_recheck, erase_loadSucc, erase_unlink, erase_retire
  <2>4. QED BY <2>1, <2>2, <2>3
<1>5. QED BY <1>1, <1>2, <1>3, <1>4 DEF Moves

(* A step is a step of a thread or frees a node. *)
LEMMA NextMoves == Next <=> (\E t \in Tid : Moves(t)) \/ (\E n \in Node : freeNode(n))
BY DEF Next, Moves, Starts

(* A running call stays the same call. *)
LEMMA RunsOn ==
  ASSUME Local, Next, NEW u \in Tid, u \in active, u \in active'
  PROVE  op'[u] = op[u] /\ seen[u] \subseteq seen'[u]
<1>1. ASSUME NEW t \in Tid, Moves(t) PROVE op'[u] = op[u] /\ seen[u] \subseteq seen'[u]
  <2>1. CASE u # t
    BY <1>1, <2>1, OthersSame DEF Same
  <2>2. CASE u = t
    <3>1. ~Starts(t) /\ ~end(t)
      BY <2>2 DEF Starts, startOp, end, endOp, goto, Local, Calls, CallOf
    <3>2. QED BY <1>1, <2>2, <3>1, OthersSame DEF Moves
  <2>3. QED BY <2>1, <2>2
<1>2. ASSUME NEW n \in Node, freeNode(n) PROVE op'[u] = op[u] /\ seen[u] \subseteq seen'[u]
  BY <1>2, OthersSame DEF Same
<1>3. QED BY <1>1, <1>2, NextMoves

(* A search goes on from nodes and from Head only, and along fields that   *)
(* are no NULL.                                                            *)
LEMMA WalksFromNode ==
  ASSUME Local, NEW t \in Tid, search_walk(t)
  PROVE  /\ pc[t] = "walk" /\ pc'[t] = "walk" /\ WalkOf(t) /\ op[t].key \in Key /\ t \in active
         /\ curr[t] \in Node \union {Head} /\ Keeps(t, curr[t]) /\ keyOf(curr[t]) \in Nat
         /\ nxt[t] \in Field /\ nxt[t].ptr \in Node \union {Tail} /\ Keeps(t, nxt[t].ptr)
         /\ keyOf(nxt[t].ptr) \in Nat /\ keyOf(curr[t]) < keyOf(nxt[t].ptr)
         /\ (~nxt[t].mark => keyOf(curr[t]) < op[t].key)
<1> USE DEF Local
<1>0. Locals
  BY LocalsTyped
<1>1. pc[t] = "walk" /\ pc'[t] = "walk" /\ curr[t] # Tail /\ (~nxt[t].mark => keyOf(curr[t]) < op[t].key)
  BY <1>0 DEF search_walk, goto, goesOn, Locals
<1>2. WalkOf(t)
  BY <1>1 DEF Searches, SearchOf
<1>3. /\ op[t].key \in Key /\ t \in active /\ curr[t] \in Node \union {Head, Tail}
      /\ Keeps(t, curr[t]) /\ keyOf(curr[t]) \in Nat
  BY <1>1, Hands
<1>4. nxt[t].ptr \in Node \union {Tail} /\ keyOf(curr[t]) < keyOf(nxt[t].ptr)
  BY <1>1, <1>2 DEF WalkOf
<1>5. nxt[t] \in Field /\ Keeps(t, nxt[t].ptr) /\ keyOf(nxt[t].ptr) \in Nat
  BY <1>0, <1>3, <1>4, InHand, KeysAreNat DEF Locals
<1>6. QED BY <1>1, <1>2, <1>3, <1>4, <1>5

(* The node that erase has found is one. *)
LEMMA FoundIsNode ==
  ASSUME Local, NEW t \in Tid, pc[t] \in {"succ", "mark", "unlink", "eraseRetire"}
  PROVE  curr[t] \in Node /\ key[curr[t]] = op[t].key /\ op[t].key \in Key
<1>1. op[t].key \in Key /\ curr[t] \in Node \union {Tail} /\ keyOf(curr[t]) = op[t].key
  BY Hands DEF Local, Searches, SearchOf, Settled
<1>2. QED BY <1>1, KeyOf, KeysAreNat

(* Every step keeps the variables in their types.                          *)
LEMMA TypeStep ==
  ASSUME Local, Retiring, Next
  PROVE  TypeOK' /\ pc' \in [Tid -> Steps]
<1> USE DEF Local
<1>0. Locals /\ TypeOK
  BY LocalsTyped
<1> DEFINE G == TypeOK' /\ pc' \in [Tid -> Steps]
           P == Node \union {Head, Tail, NULL}
<1>1. /\ \A f : \A t \in Tid, q \in Steps : goto(t, f, q) => pc' \in [Tid -> Steps]
      /\ \A t \in Tid, q \in P : /\ [pred EXCEPT ![t] = q] \in [Tid -> P]
                                 /\ [curr EXCEPT ![t] = q] \in [Tid -> P]
                                 /\ [predNext EXCEPT ![t] = q] \in [Tid -> P]
                                 /\ [cur EXCEPT ![t] = q] \in [Tid -> P]
      /\ \A t \in Tid, f \in Field : [nxt EXCEPT ![t] = f] \in [Tid -> Field]
      /\ pointTo(NULL) \in Field /\ \A n \in Node \union {Head} : next[n] \in Field
  BY <1>0, Fields, Typed DEF Locals, goto
<1> USE <1>0, <1>1 DEF TypeOK, ClientTypeOK, Locals, Steps, Settled, call, nodes, search, position
<1>2. ASSUME NEW t \in Tid, Starts(t) PROVE G
  <2>1. PICK o \in Operation : /\ op' = [op EXCEPT ![t] = o]
                               /\ seen' = [seen EXCEPT ![t] = {o.key \in set}]
    BY <1>2 DEF Starts, startOp
  <2>2. {o.key \in set} \in SUBSET BOOLEAN
    OBVIOUS
  <2>3. seen' \in [Tid -> SUBSET BOOLEAN]
    BY <2>1, <2>2
  <2>4. op' \in [Tid -> Operation \union {NONE}]
    BY <2>1
  <2>5. waiting' \in [Node -> SUBSET active'] /\ active' \subseteq Tid
    BY <1>2 DEF Starts, startOp
  <2>6. UNCHANGED <<key, status, pred, curr, answer, next, predNext, nxt, cur>>
    BY <1>2 DEF Starts, startOp
  <2>7. pc' \in [Tid -> Steps]
    BY <1>2 DEF Starts, startOp
  <2>8. QED BY <2>3, <2>4, <2>5, <2>6, <2>7
<1>3. ASSUME NEW t \in Tid, end(t) PROVE G
  <2>1. active' \subseteq Tid /\ waiting' \in [Node -> SUBSET active']
    BY <1>3 DEF end, endOp
  <2>2. pc' \in [Tid -> Steps] /\ nxt' \in [Tid -> Field]
    BY <1>3 DEF end, endOp
  <2>3. QED BY <1>3, <2>1, <2>2 DEF end, endOp
<1>4. ASSUME NEW t \in Tid, search_start(t) PROVE G
  BY <1>4 DEF search_start
<1>5. ASSUME NEW t \in Tid, search_walk(t) PROVE G
  <2>1. /\ curr[t] \in Node \union {Head} /\ nxt[t].ptr \in Node \union {Tail}
        /\ pc' \in [Tid -> Steps]
    BY <1>5, WalksFromNode DEF search_walk
  <2>2. nxt' \in [Tid -> Field]
    BY <1>5, <2>1 DEF search_walk
  <2>3. curr' \in [Tid -> P]
    BY <1>5, <2>1 DEF search_walk
  <2>4. pred' \in [Tid -> P] /\ predNext' \in [Tid -> P]
    <3>1. CASE nxt[t].mark
      BY <1>5, <3>1 DEF search_walk
    <3>2. CASE ~nxt[t].mark
      <4>1. /\ pred' = [pred EXCEPT ![t] = curr[t]]
            /\ predNext' = [predNext EXCEPT ![t] = nxt[t].ptr]
        BY <1>5, <3>2 DEF search_walk
      <4>2. curr[t] \in P /\ nxt[t].ptr \in P
        BY <2>1
      <4>3. pred' \in [Tid -> P]
        BY <1>1, <4>1, <4>2
      <4>4. QED BY <1>1, <4>1, <4>2, <4>3
    <3>3. QED BY <3>1, <3>2
  <2>5. QED BY <1>5, <2>1, <2>2, <2>3, <2>4 DEF search_walk
<1>6. ASSUME NEW t \in Tid, search_adjacent(t) \/ search_recheck(t) PROVE G
  <2>1. PICK from \in Steps : search_return(t, from) \/ search_retry(t, from)
    BY <1>6 DEF search_adjacent, search_recheck
  <2>2. CASE search_retry(t, from)
    BY <2>2 DEF search_retry
  <2>3. CASE search_return(t, from)
    <3>1. ASSUME NEW b \in BOOLEAN, decide(t, b) PROVE answer' \in [Tid -> BOOLEAN \union {NONE}]
      BY <3>1 DEF decide
    <3>2. (is(t, "contains") /\ keyOf(curr[t]) = op[t].key) \in BOOLEAN
      OBVIOUS
    <3>3. answer' \in [Tid -> BOOLEAN \union {NONE}]
      BY <2>3, <3>1, <3>2 DEF search_return
    <3>4. pc' \in [Tid -> Steps]
      BY <2>3 DEF search_return
    <3>5. QED BY <2>3, <3>3, <3>4 DEF search_return
  <2>4. QED BY <2>1, <2>2, <2>3
<1>7. ASSUME NEW p, NEW c, Unlinks(p, c)
      PROVE  /\ next' \in [Node \union {Head} -> Field]
             /\ status' \in [Node -> {"free", "linked", "unlinked", "retired"}]
             /\ waiting' \in [Node -> SUBSET active'] /\ key' = key
  <2>1. c \in Node \union {Tail} /\ pointTo(c) \in Field
    BY <1>7, Fields DEF Unlinks, LinkedNodes
  <2>2. next' \in [Node \union {Head} -> Field]
    BY <1>7, <2>1 DEF Unlinks
  <2>3. QED BY <1>7, <2>2 DEF Unlinks
<1>8. ASSUME NEW t \in Tid, search_unlink(t) PROVE G
  <2>1. pc' \in [Tid -> Steps] /\ cur' \in [Tid -> P]
    BY <1>8 DEF search_unlink
  <2>2. CASE Quiet
    BY <1>8, <2>1, <2>2 DEF search_unlink, Quiet
  <2>3. CASE Unlinks(pred[t], curr[t])
    BY <1>7, <1>8, <2>1, <2>3 DEF search_unlink
  <2>4. QED BY <1>8, <2>2, <2>3, SearchUnlinkEffect
<1>9. ASSUME NEW t \in Tid, search_retire(t) PROVE G
  <2>1. cur[t] \in Node /\ next[cur[t]].ptr \in P
    BY <1>9, RetireEffect, Fields
  <2>2. pc' \in [Tid -> Steps] /\ cur' \in [Tid -> P]
    BY <1>9, <2>1 DEF search_retire
  <2>3. QED BY <1>9, <2>2 DEF search_retire, retireNode
<1>10. ASSUME NEW t \in Tid, insert_link(t) PROVE G
  <2>1. pc' \in [Tid -> Steps]
    BY <1>10 DEF insert_link
  <2>2. ASSUME NEW n \in Node, Links(t, n)
        PROVE  /\ key' \in [Node -> KEY_MIN .. KEY_MAX]
               /\ status' \in [Node -> {"free", "linked", "unlinked", "retired"}]
               /\ next' \in [Node \union {Head} -> Field] /\ waiting' = waiting
    <3>1. key' \in [Node -> KEY_MIN .. KEY_MAX]
      BY <2>2, KeysAreNat DEF Links
    <3>2. curr[t] \in Node \union {Tail} /\ pointTo(curr[t]) \in Field /\ pointTo(n) \in Field
      BY <1>10, Fields, Hands DEF insert_link
    <3>3. next' \in [Node \union {Head} -> Field]
      BY <2>2, <3>2 DEF Links
    <3>4. QED BY <2>2, <3>1, <3>3 DEF Links
  <2>3. seen' \in [Tid -> SUBSET BOOLEAN] /\ answer' \in [Tid -> BOOLEAN \union {NONE}]
    <3>1. CASE takeEffect(t, TRUE)
      <4>1. seen' \in [Tid -> SUBSET BOOLEAN]
        BY <3>1, NoticeGrows DEF takeEffect
      <4>2. answer' \in [Tid -> BOOLEAN \union {NONE}]
        BY <3>1 DEF takeEffect, decide
      <4>3. QED BY <4>1, <4>2
    <3>2. CASE UNCHANGED <<answer, seen>>
      BY <3>2
    <3>3. QED BY <1>10, <3>1, <3>2 DEF insert_link
  <2>4. UNCHANGED <<active, op, pred, curr, predNext, nxt, cur>>
    BY <1>10 DEF insert_link
  <2>5. /\ key' \in [Node -> KEY_MIN .. KEY_MAX]
        /\ status' \in [Node -> {"free", "linked", "unlinked", "retired"}]
        /\ next' \in [Node \union {Head} -> Field] /\ waiting' = waiting
    BY <1>10, <2>2, LinkEffect DEF Quiet
  <2>6. QED BY <2>1, <2>3, <2>4, <2>5
<1>11. ASSUME NEW t \in Tid, erase_loadSucc(t) PROVE G
  <2>1. curr[t] \in Node
    BY <1>11, FoundIsNode DEF erase_loadSucc, goto
  <2>2. pc' \in [Tid -> Steps] /\ nxt' \in [Tid -> Field]
    BY <1>11, <2>1 DEF erase_loadSucc
  <2>3. QED BY <1>11, <2>2 DEF erase_loadSucc
<1>12. ASSUME NEW t \in Tid, erase_mark(t) PROVE G
  <2>1. seen' \in [Tid -> SUBSET BOOLEAN] /\ answer' \in [Tid -> BOOLEAN \union {NONE}]
    <3>1. CASE takeEffect(t, FALSE)
      <4>1. seen' \in [Tid -> SUBSET BOOLEAN]
        BY <3>1, NoticeGrows DEF takeEffect
      <4>2. answer' \in [Tid -> BOOLEAN \union {NONE}]
        BY <3>1 DEF takeEffect, decide
      <4>3. QED BY <4>1, <4>2
    <3>2. CASE UNCHANGED <<answer, seen>>
      BY <3>2
    <3>3. QED BY <1>12, <3>1, <3>2 DEF erase_mark
  <2>2. next' \in [Node \union {Head} -> Field]
    <3>1. get_marked_ref(nxt[t]) \in Field
      BY Fields
    <3>2. QED BY <1>12, <3>1 DEF erase_mark, store
  <2>3. pc' \in [Tid -> Steps]
    BY <1>12 DEF erase_mark
  <2>4. QED BY <1>12, <2>1, <2>2, <2>3 DEF erase_mark
<1>13. ASSUME NEW t \in Tid, erase_unlink(t) PROVE G
  <2>1. pc' \in [Tid -> Steps]
    BY <1>13 DEF erase_unlink
  <2>2. CASE Quiet
    BY <1>13, <2>1, <2>2 DEF erase_unlink, Quiet
  <2>3. CASE Unlinks(pred[t], nxt[t].ptr)
    BY <1>7, <1>13, <2>1, <2>3 DEF erase_unlink
  <2>4. QED BY <1>13, <2>2, <2>3, EraseUnlinkEffect
<1>14. ASSUME NEW t \in Tid, erase_retire(t) PROVE G
  <2>1. pc' \in [Tid -> Steps]
    BY <1>14 DEF erase_retire
  <2>2. QED BY <1>14, <2>1 DEF erase_retire, retireNode
<1>15. ASSUME NEW n \in Node, freeNode(n) PROVE G
  <2>1. next' \in [Node \union {Head} -> Field]
    BY <1>15 DEF freeNode
  <2>2. key' \in [Node -> KEY_MIN .. KEY_MAX]
    BY <1>15, SetClientAssumption DEF freeNode, free, KEY_MIN, KEY_MAX
  <2>3. QED BY <1>15, <2>1, <2>2 DEF freeNode, free
<1>16. ASSUME NEW t \in Tid, Moves(t) PROVE G
  <2>1. CASE Starts(t)
    BY <1>2, <2>1
  <2>2. CASE step(t)
    BY <1>3, <1>4, <1>5, <1>6, <1>8, <1>9, <1>10, <1>11, <1>12, <1>13, <1>14, <2>2, Zenon DEF step
  <2>3. QED BY <1>16, <2>1, <2>2 DEF Moves
<1>17. QED BY <1>15, <1>16, NextMoves

(* The calls. *)
LEMMA CallsStep ==
  ASSUME Local, Retiring, Next
  PROVE  Calls'
<1> USE DEF Local
<1>0. Locals /\ NONE \notin BOOLEAN /\ NONE \notin Operation
  BY LocalsTyped, ListClientAssumption
<1>1. ASSUME NEW u \in Tid, Same(u) PROVE CallOf(u)'
  <2>1. CallOf(u)
    BY DEF Calls
  <2>2. QED BY <1>1, <2>1 DEF Same, CallOf
<1>2. ASSUME NEW t \in Tid, Starts(t) PROVE CallOf(t)'
  <2>1. /\ pc[t] = "idle" /\ pc'[t] = "search" /\ t \in active' /\ op'[t] # NONE
        /\ answer'[t] = answer[t] /\ cur'[t] = cur[t]
    BY <1>0, <1>2 DEF Starts, startOp, goto, search, Locals
  <2>2. answer[t] = NONE /\ cur[t] = NULL
    BY <2>1 DEF Calls, CallOf
  <2>3. QED BY <2>1, <2>2 DEF CallOf
<1>3. ASSUME NEW t \in Tid, end(t) PROVE CallOf(t)'
  <2>1. /\ pc[t] = "end" /\ pc'[t] = "idle" /\ t \notin active' /\ op'[t] = NONE
        /\ answer'[t] = NONE /\ cur'[t] = cur[t] /\ pred'[t] = NULL /\ curr'[t] = NULL
        /\ predNext'[t] = NULL /\ nxt'[t] = pointTo(NULL)
    BY <1>0, <1>3 DEF end, endOp, goto, Locals
  <2>2. cur[t] = NULL
    BY <2>1 DEF Calls, CallOf
  <2>3. QED BY <2>1, <2>2 DEF CallOf
<1>4. ASSUME NEW t \in Tid, step(t), ~end(t), pc[t] # "idle",
             NEW q \in Steps \ {"idle"}, pc'[t] = q, NEW a, answer'[t] = a,
             cur'[t] # NULL <=> q = "retire",
             q = "link" => op[t].kind = "insert" /\ a = NONE,
             q \in {"succ", "mark"} => op[t].kind = "erase" /\ a = NONE,
             q \in {"unlink", "eraseRetire", "end"} => a # NONE,
             a # NONE /\ q # "end" => op[t].kind = "erase" /\ a = TRUE
      PROVE  CallOf(t)'
  <2>1. op' = op /\ active' = active
    BY <1>4, OthersSame
  <2>2. op[t] # NONE /\ t \in active
    BY <1>4 DEF Calls, CallOf
  <2>3. QED BY <1>4, <2>1, <2>2 DEF CallOf
<1>5. ASSUME NEW t \in Tid, step(t), ~end(t) PROVE CallOf(t)'
  <2> USE <1>0 DEF goto, Steps, Settled, Locals
  <2>1. CallOf(t) /\ answer[t] \in BOOLEAN \union {NONE}
    BY DEF Calls
  <2>2. CASE search_start(t) \/ search_walk(t)
    <3>1. /\ pc[t] \in {"search", "walk"} /\ pc'[t] = "walk" /\ answer'[t] = answer[t]
          /\ cur'[t] = cur[t]
      BY <2>2 DEF search_start, search_walk, call
    <3>2. QED BY <1>4, <1>5, <2>1, <3>1 DEF CallOf
  <2>3. ASSUME NEW from \in {"walk", "recheck"}, search_return(t, from) PROVE CallOf(t)'
    <3>1. pc[t] = from /\ cur'[t] = NULL /\ cur[t] = NULL
      BY <2>1, <2>3 DEF search_return, search, CallOf
    <3>2. ASSUME answer[t] # NONE, pc'[t] = "end", UNCHANGED answer PROVE CallOf(t)'
      BY <1>4, <1>5, <3>1, <3>2
    <3>3. ASSUME NEW b \in BOOLEAN, decide(t, b), pc'[t] = "end" PROVE CallOf(t)'
      <4>1. answer'[t] = b /\ b # NONE
        BY <3>3 DEF decide
      <4>2. QED BY <1>4, <1>5, <3>1, <3>3, <4>1
    <3>4. (is(t, "contains") /\ keyOf(curr[t]) = op[t].key) \in BOOLEAN
      OBVIOUS
    <3>5. ASSUME answer[t] = NONE, is(t, "insert"), pc'[t] = "link", UNCHANGED answer PROVE CallOf(t)'
      BY <1>4, <1>5, <3>1, <3>5 DEF is
    <3>6. ASSUME answer[t] = NONE, is(t, "erase"), pc'[t] = "succ", UNCHANGED answer PROVE CallOf(t)'
      BY <1>4, <1>5, <3>1, <3>6 DEF is
    <3>7. \/ answer[t] # NONE /\ pc'[t] = "end" /\ UNCHANGED answer
          \/ pc'[t] = "end" /\ decide(t, is(t, "contains") /\ keyOf(curr[t]) = op[t].key)
          \/ answer[t] = NONE /\ is(t, "insert") /\ pc'[t] = "link" /\ UNCHANGED answer
          \/ answer[t] = NONE /\ is(t, "erase") /\ pc'[t] = "succ" /\ UNCHANGED answer
      BY <2>3 DEF search_return
    <3>8. QED BY <3>2, <3>3, <3>4, <3>5, <3>6, <3>7
  <2>4. ASSUME NEW from \in {"walk", "recheck"}, search_retry(t, from) PROVE CallOf(t)'
    <3>1. pc[t] = from /\ pc'[t] = "search" /\ answer'[t] = answer[t] /\ cur'[t] = cur[t]
      BY <2>4 DEF search_retry, search, call
    <3>2. QED BY <1>4, <1>5, <2>1, <3>1 DEF CallOf
  <2>5. CASE search_unlink(t)
    <3>1. pc[t] = "walk" /\ answer'[t] = answer[t] /\ cur[t] = NULL
      BY <2>1, <2>5 DEF search_unlink, call, CallOf
    <3>2. CASE holds(pred[t], pointTo(predNext[t]))
      <4>1. predNext[t] \in Node
        BY <2>5, <3>2, ChainPassed DEF search_unlink, LinkedNodes
      <4>2. pc'[t] = "retire" /\ cur'[t] # NULL
        BY <2>5, <3>2, <4>1, Sentinels DEF search_unlink
      <4>3. QED BY <1>4, <1>5, <2>1, <3>1, <4>2 DEF CallOf
    <3>3. CASE ~holds(pred[t], pointTo(predNext[t]))
      <4>1. pc'[t] = "search" /\ cur'[t] = NULL
        BY <2>5, <3>1, <3>3 DEF search_unlink
      <4>2. QED BY <1>4, <1>5, <2>1, <3>1, <4>1 DEF CallOf
    <3>4. QED BY <3>2, <3>3
  <2>6. CASE search_retire(t)
    <3>1. /\ pc[t] = "retire" /\ answer'[t] = answer[t]
          /\ \/ pc'[t] = "recheck" /\ cur'[t] = NULL
             \/ pc'[t] = "retire" /\ cur'[t] = next[cur[t]].ptr /\ next[cur[t]].ptr # curr[t]
      BY <2>6 DEF search_retire, call
    <3>2. next[cur[t]].ptr \in Node \union {curr[t]}
      <4>1. PICK rest \in [Tid -> SUBSET Node] : Rests(rest)
        BY DEF Retiring
      <4>2. QED BY <3>1, <4>1 DEF Rests, RestOf
    <3>3. CASE pc'[t] = "recheck" /\ cur'[t] = NULL
      BY <1>4, <1>5, <2>1, <3>1, <3>3 DEF CallOf
    <3>4. CASE pc'[t] = "retire" /\ cur'[t] = next[cur[t]].ptr /\ next[cur[t]].ptr # curr[t]
      <4>1. cur'[t] # NULL
        BY <3>2, <3>4, Sentinels
      <4>2. QED BY <1>4, <1>5, <2>1, <3>1, <3>4, <4>1 DEF CallOf
    <3>5. QED BY <3>1, <3>3, <3>4
  <2>7. CASE insert_link(t)
    <3>1. pc[t] = "link" /\ cur'[t] = NULL /\ answer[t] = NONE
      BY <2>1, <2>7 DEF insert_link, search, CallOf
    <3>2. CASE pc'[t] = "end" /\ takeEffect(t, TRUE)
      <4>1. answer'[t] = TRUE
        BY <3>2 DEF takeEffect, decide
      <4>2. QED BY <1>4, <1>5, <3>1, <3>2, <4>1
    <3>3. CASE pc'[t] = "search" /\ UNCHANGED answer
      BY <1>4, <1>5, <3>1, <3>3
    <3>4. QED BY <2>7, <3>2, <3>3 DEF insert_link
  <2>8. CASE erase_loadSucc(t)
    <3>1. pc[t] = "succ" /\ pc'[t] \in {"search", "mark"} /\ answer' = answer /\ cur'[t] = cur[t]
      BY <2>8 DEF erase_loadSucc, call
    <3>2. QED BY <1>4, <1>5, <2>1, <3>1 DEF CallOf
  <2>9. CASE erase_mark(t)
    <3>1. pc[t] = "mark" /\ cur'[t] = NULL /\ answer[t] = NONE /\ op[t].kind = "erase"
      BY <2>1, <2>9 DEF erase_mark, search, CallOf
    <3>2. CASE pc'[t] = "unlink" /\ takeEffect(t, FALSE)
      <4>1. answer'[t] = TRUE
        BY <3>2 DEF takeEffect, decide
      <4>2. QED BY <1>4, <1>5, <3>1, <3>2, <4>1
    <3>3. CASE pc'[t] = "search" /\ UNCHANGED answer
      BY <1>4, <1>5, <3>1, <3>3
    <3>4. QED BY <2>9, <3>2, <3>3 DEF erase_mark
  <2>10. CASE erase_unlink(t)
    <3>1. /\ pc[t] = "unlink" /\ pc'[t] \in {"eraseRetire", "search"} /\ answer' = answer
          /\ cur'[t] = cur[t]
      BY <2>10 DEF erase_unlink, call, search
    <3>2. QED BY <1>4, <1>5, <2>1, <3>1 DEF CallOf
  <2>11. CASE erase_retire(t)
    <3>1. pc[t] = "eraseRetire" /\ pc'[t] = "end" /\ answer' = answer /\ cur'[t] = cur[t]
      BY <2>11 DEF erase_retire, call, search
    <3>2. QED BY <1>4, <1>5, <2>1, <3>1 DEF CallOf
  <2>12. QED BY <1>5, <2>2, <2>3, <2>4, <2>5, <2>6, <2>7, <2>8, <2>9, <2>10, <2>11
           DEF step, search_adjacent, search_recheck
<1>6. ASSUME NEW t \in Tid, Moves(t) PROVE \A u \in Tid : CallOf(u)'
  <2>1. CallOf(t)'
    BY <1>2, <1>3, <1>5, <1>6 DEF Moves
  <2>2. \A u \in Tid \ {t} : CallOf(u)'
    BY <1>1, <1>6, OthersSame
  <2>3. QED BY <2>1, <2>2
<1>7. ASSUME NEW n \in Node, freeNode(n) PROVE \A u \in Tid : CallOf(u)'
  BY <1>1, <1>7, OthersSame
<1>8. QED BY <1>6, <1>7, NextMoves, TypeStep DEF Calls

-------------------------------------------------------------------------------
(* The set: a key is in it when an unmarked node of the list has it. *)
LEMMA InSet ==
  /\ \A k : k \in set <=> \E n \in LinkedNodes : ~next[n].mark /\ key[n] = k
  /\ \A k : k \in set' <=> \E n \in LinkedNodes' : ~next'[n].mark /\ key'[n] = k
BY DEF set, LinkedNodes

(* What is between two neighbours, or between two nodes with marks only in *)
(* between, is absent, and so is the key of a node with a mark.            *)
LEMMA Between ==
  ASSUME Local, NEW n \in LinkedNodes \union {Head}, NEW k
  PROVE  /\ keyOf(n) < k /\ k < keyOf(next[n].ptr) => k \notin set
         /\ \A c : /\ keyOf(n) < k /\ k < keyOf(c)
                   /\ \A x \in inBetween(n, c) : next[x].mark
                   => k \notin set
         /\ n \in LinkedNodes /\ next[n].mark /\ k = keyOf(n) => k \notin set
<1> USE DEF Local
<1>1. \A x \in LinkedNodes : keyOf(x) = key[x] /\ keyOf(x) \in Nat /\ x \in Node
  BY LinkedKeys
<1>2. ASSUME keyOf(n) < k, k < keyOf(next[n].ptr), k \in set PROVE FALSE
  <2>1. PICK x \in LinkedNodes : key[x] = k
    BY <1>2, InSet
  <2>2. keyOf(next[n].ptr) <= keyOf(x)
    BY <1>1, <1>2, <2>1 DEF Chain
  <2>3. keyOf(next[n].ptr) \in Nat
    BY LinkedKeys DEF Chain
  <2>4. QED BY <1>1, <1>2, <2>1, <2>2, <2>3
<1>3. ASSUME n \in LinkedNodes, next[n].mark, k = keyOf(n), k \in set PROVE FALSE
  <2>1. PICK x \in LinkedNodes : key[x] = k /\ ~next[x].mark
    BY <1>3, InSet
  <2>2. x = n
    BY <1>1, <1>3, <2>1 DEF Chain
  <2>3. QED BY <1>3, <2>1, <2>2
<1>4. ASSUME NEW c, keyOf(n) < k, k < keyOf(c), \A x \in inBetween(n, c) : next[x].mark, k \in set
      PROVE  FALSE
  <2>1. PICK x \in LinkedNodes : key[x] = k /\ ~next[x].mark
    BY <1>4, InSet
  <2>2. x \in inBetween(n, c)
    BY <1>4, <2>1 DEF inBetween
  <2>3. QED BY <1>4, <2>1, <2>2
<1>5. QED BY <1>2, <1>3, <1>4

(* The field that a search reads leads it on, past keys that it may deny   *)
(* if the field has no mark.                                               *)
LEMMA Onward ==
  ASSUME Local, Frozen, Seen, NEW t \in Tid, t \in active, op[t] # NONE,
         NEW n \in Node \union {Head}, Keeps(t, n)
  PROVE  /\ next[n].ptr \in Node \union {Tail} /\ Keeps(t, next[n].ptr)
         /\ keyOf(n) < keyOf(next[n].ptr)
         /\ ~next[n].mark /\ keyOf(n) < op[t].key /\ op[t].key < keyOf(next[n].ptr) => CanDeny(t)
<1> USE DEF Local
<1>1. CASE n \in LinkedNodes \union {Head}
  <2>1. next[n].ptr \in LinkedNodes \union {Tail} /\ keyOf(n) < keyOf(next[n].ptr)
    BY <1>1 DEF Chain
  <2>2. keyOf(n) < op[t].key /\ op[t].key < keyOf(next[n].ptr) => op[t].key \notin set
    BY <1>1, Between
  <2>3. QED BY <2>1, <2>2, Sentinels DEF LinkedNodes, Keeps, Seen, SeenOf, CanDeny
<1>2. CASE n \notin LinkedNodes \union {Head}
  <2>1. n \in Node /\ t \in waiting[n] /\ next[n].mark
    BY <1>2, UnmarkedIsLinked DEF LinkedNodes, Keeps
  <2>2. next[n].ptr \in Node \union {Tail} /\ Keeps(t, next[n].ptr) /\ keyOf(n) < keyOf(next[n].ptr)
    BY <2>1 DEF Frozen
  <2>3. QED BY <2>1, <2>2
<1>3. QED BY <1>1, <1>2

(* A node of the list keeps its key, and its field once that has a mark. *)
LEMMA LinkedStays ==
  ASSUME TypeOK, Effect, NEW x \in LinkedNodes
  PROVE  keyOf(x)' = keyOf(x) /\ (next[x].mark => next'[x].mark)
<1> DEFINE Stays == key'[x] = key[x] /\ (next[x].mark => next'[x].mark)
<1> USE DEF TypeOK, ClientTypeOK
<1>0. x \in Node /\ status[x] = "linked"
  BY DEF LinkedNodes
<1>1. ASSUME Quiet PROVE Stays
  BY <1>1 DEF Quiet
<1>2. ASSUME NEW t \in Tid, Begins(t) \/ Ends(t) PROVE Stays
  BY <1>2 DEF Begins, Ends
<1>3. ASSUME NEW t \in Tid, NEW n \in Node, Links(t, n) PROVE Stays
  <2>1. n # x /\ (next[x].mark => x # pred[t])
    BY <1>0, <1>3, Fields DEF Links
  <2>2. key'[x] = key[x] /\ (x # pred[t] => next'[x] = next[x])
    BY <1>0, <1>3, <2>1 DEF Links
  <2>3. QED BY <2>1, <2>2
<1>4. ASSUME NEW t \in Tid, Marks(t) PROVE Stays
  BY <1>0, <1>4 DEF Marks
<1>5. ASSUME NEW p, NEW c, Unlinks(p, c) PROVE Stays
  BY <1>0, <1>5 DEF Unlinks
<1>6. ASSUME NEW n \in Node, Retires(n) PROVE Stays
  BY <1>6 DEF Retires
<1>7. ASSUME NEW n \in Node, Frees(n) PROVE Stays
  BY <1>0, <1>7 DEF Frees
<1>8. Stays
  BY <1>1, <1>2, <1>3, <1>4, <1>5, <1>6, <1>7 DEF Effect, EffectOf
<1>9. QED BY <1>0, <1>8, KeyOf

(* From a node a of the list on to b there are marks only.  While a is in  *)
(* the list, what is up to b stays there, and nothing comes in between: it *)
(* would have to be linked to a node without a mark.                       *)
LEMMA PassedStays ==
  ASSUME Local, Effect, NEW a \in LinkedNodes, a \in LinkedNodes',
         NEW b \in LinkedNodes \union {Tail}, keyOf(a) <= keyOf(b),
         \A x \in LinkedNodes : keyOf(a) <= keyOf(x) /\ keyOf(x) < keyOf(b) => next[x].mark
  PROVE  /\ b \in LinkedNodes' \union {Tail}
         /\ \A x \in LinkedNodes' :
               keyOf(a)' <= keyOf(x)' /\ keyOf(x)' < keyOf(b)' => next'[x].mark
<1> USE DEF Local
<1>1. /\ \A x \in LinkedNodes : /\ x \in Node /\ keyOf(x) = key[x]
                                /\ KEY_MIN < keyOf(x) /\ keyOf(x) < KEY_MAX
      /\ \A x \in LinkedNodes \union {Head, Tail} : keyOf(x) \in Nat
  BY LinkedKeys
<1>2. /\ \A x \in LinkedNodes : keyOf(x)' = keyOf(x) /\ (next[x].mark => next'[x].mark)
      /\ keyOf(Tail)' = keyOf(Tail)
  BY LinkedStays, KeyOf
<1>3. \A x \in LinkedNodes' : x \in LinkedNodes =>
        (keyOf(a)' <= keyOf(x)' /\ keyOf(x)' < keyOf(b)' => next'[x].mark)
  BY <1>2
<1>4. CASE \A x \in LinkedNodes' : x \in LinkedNodes
  <2>1. ASSUME b \in LinkedNodes, b \notin LinkedNodes' PROVE FALSE
    <3>1. PICK p, c : Unlinks(p, c)
      <4>1. LinkedNodes' # LinkedNodes
        BY <2>1
      <4>2. \A n \in Node, t \in Tid : ~Links(t, n)
        BY <2>1, LinkedAfter
      <4>3. QED BY <4>1, <4>2, LinkedAfter DEF Effect, EffectOf
    <3>2. /\ b \in inBetween(p, c) /\ a \notin inBetween(p, c)
      BY <2>1, <3>1, LinkedAfter
    <3>3. p \in LinkedNodes \union {Head} /\ ~next[p].mark
          /\ c \in LinkedNodes \union {Tail}
      BY <3>1 DEF Unlinks
    <3>4. keyOf(p) < keyOf(b) /\ keyOf(b) < keyOf(c)
      BY <1>1, <2>1, <3>2 DEF inBetween
    <3>5. keyOf(a) < keyOf(c)
      BY <1>1, <3>3, <3>4
    <3>6. keyOf(a) <= keyOf(p)
      BY <1>1, <3>2, <3>3, <3>5 DEF inBetween
    <3>7. p \in LinkedNodes
      BY <1>1, <3>3, <3>6, KeyOf
    <3>8. QED BY <3>3, <3>4, <3>6, <3>7
  <2>2. QED BY <1>3, <1>4, <2>1
<1>5. CASE \E x \in LinkedNodes' : x \notin LinkedNodes
  <2>1. PICK t \in Tid, n \in Node : Links(t, n)
    <3>1. ~(LinkedNodes' \subseteq LinkedNodes)
      BY <1>5
    <3>2. QED BY <3>1, LinkedAfter DEF Effect, EffectOf
  <2>2. LinkedNodes' = LinkedNodes \union {n} /\ n \notin LinkedNodes
    BY <2>1, LinkedAfter
  <2>3. /\ pred[t] \in LinkedNodes \union {Head} /\ ~next[pred[t]].mark
        /\ next[pred[t]].ptr = curr[t] /\ op[t].key \in Nat
        /\ keyOf(pred[t]) < op[t].key /\ op[t].key < keyOf(curr[t])
    BY <2>1, Fields, KeysAreNat DEF Links
  <2>4. key'[n] = op[t].key
    BY <2>1 DEF Links
  <2>5. keyOf(n)' = op[t].key
    BY <2>4, KeyOf
  <2>6. ASSUME keyOf(a)' <= keyOf(n)', keyOf(n)' < keyOf(b)' PROVE FALSE
    <3>1. keyOf(a) <= op[t].key /\ op[t].key < keyOf(b)
      BY <1>2, <2>5, <2>6
    <3>2. pred[t] \in LinkedNodes => keyOf(pred[t]) < keyOf(a)
      BY <1>1, <2>3, <3>1
    <3>3. keyOf(pred[t]) < keyOf(a)
      BY <1>1, <2>3, <3>2, KeyOf
    <3>4. keyOf(curr[t]) <= keyOf(a) /\ curr[t] \in LinkedNodes \union {Tail}
      BY <2>3, <3>3 DEF Chain
    <3>5. QED BY <1>1, <2>3, <3>1, <3>4
  <2>7. QED BY <1>3, <2>2, <2>6
<1>6. QED BY <1>4, <1>5

(* What a call keeps it goes on to keep, with its key. *)
LEMMA KeepsOn ==
  ASSUME Local, Effect, NEW u \in Tid, u \in active, u \in active', NEW n, Keeps(u, n)
  PROVE  /\ Keeps(u, n)'
         /\ n \in Node \union {Head, Tail} => keyOf(n)' = keyOf(n)
<1>1. CASE n \in Node
  BY <1>1, StepKeeps, KeyOf DEF Local
<1>2. CASE n \notin Node
  BY <1>2, KeyOf DEF Keeps
<1>3. QED BY <1>1, <1>2

(* A search that waits is still on its way. *)
LEMMA WalkStays ==
  ASSUME Local, Effect, NEW u \in Tid, u \in active, u \in active', Same(u), WalkOf(u)
  PROVE  WalkOf(u)'
<1> USE DEF Local
<1>1. /\ Keeps(u, pred[u]) /\ Keeps(u, curr[u]) /\ Keeps(u, predNext[u]) /\ Keeps(u, nxt[u].ptr)
  BY InHand
<1>2. \A n \in Node \union {Head, Tail} : Keeps(u, n) => keyOf(n)' = keyOf(n)
  BY KeepsOn
<1>3. /\ op'[u] = op[u] /\ pred'[u] = pred[u] /\ curr'[u] = curr[u]
      /\ predNext'[u] = predNext[u] /\ nxt'[u] = nxt[u] /\ (CanDeny(u) => CanDeny(u)')
  BY DEF Same, CanDeny
<1>4. \A m : /\ m = pred[u] => keyOf(pred[u])' = keyOf(m)'
             /\ m = curr[u] => keyOf(curr[u])' = keyOf(m)'
             /\ m = predNext[u] => keyOf(predNext[u])' = keyOf(m)'
             /\ m = nxt[u].ptr => keyOf(nxt[u].ptr)' = keyOf(m)'
  BY <1>3 DEF keyOf
<1>5. pred[u] \in Node \union {Head} /\ keyOf(pred[u])' = keyOf(pred[u]) /\ keyOf(pred[u]) < op[u].key
  BY <1>1, <1>2, <1>4 DEF WalkOf
<1>6. curr[u] \in Node \union {Head, Tail} /\ keyOf(curr[u])' = keyOf(curr[u])
  BY <1>1, <1>2, <1>4, Hands DEF WalkOf, FurtherOn
<1>7. ASSUME FurtherOn(u) PROVE FurtherOn(u)'
  <2>1. /\ curr[u] \in Node \union {Tail} /\ predNext[u] \in Node \union {Tail}
        /\ keyOf(pred[u]) < keyOf(predNext[u]) /\ keyOf(predNext[u]) <= keyOf(curr[u])
        /\ (op[u].key < keyOf(predNext[u]) => CanDeny(u)) /\ Passed(u)
    BY <1>7 DEF FurtherOn
  <2>2. keyOf(predNext[u])' = keyOf(predNext[u])
    BY <1>1, <1>2, <1>4, <2>1
  <2>3. Passed(u)'
    <3>1. SUFFICES ASSUME predNext[u] \in LinkedNodes'
                   PROVE  /\ curr[u] \in LinkedNodes' \union {Tail}
                          /\ \A x \in LinkedNodes' :
                                keyOf(predNext[u])' <= keyOf(x)' /\ keyOf(x)' < keyOf(curr[u])'
                                   => next'[x].mark
      BY <1>3 DEF Passed
    <3>2. predNext[u] \in LinkedNodes
      <4>1. predNext[u] \in Node
        BY <3>1 DEF LinkedNodes
      <4>2. status'[predNext[u]] = "linked" => status[predNext[u]] = "linked"
        BY <1>1, <4>1, StepKeeps
      <4>3. QED BY <3>1, <4>1, <4>2 DEF LinkedNodes
    <3>3. /\ curr[u] \in LinkedNodes \union {Tail}
          /\ \A x \in LinkedNodes :
                keyOf(predNext[u]) <= keyOf(x) /\ keyOf(x) < keyOf(curr[u]) => next[x].mark
      BY <2>1, <3>2 DEF Passed
    <3>4. ASSUME NEW a, a = predNext[u], NEW b, b = curr[u]
          PROVE  /\ b \in LinkedNodes' \union {Tail}
                 /\ \A x \in LinkedNodes' :
                       keyOf(a)' <= keyOf(x)' /\ keyOf(x)' < keyOf(b)' => next'[x].mark
      BY <2>1, <3>1, <3>2, <3>3, <3>4, PassedStays
    <3>5. QED BY <1>4, <3>4
  <2>4. QED BY <1>3, <1>5, <1>6, <2>1, <2>2, <2>3 DEF FurtherOn
<1>8. (curr[u] = Head /\ predNext[u] = NULL) \/ FurtherOn(u)'
  BY <1>7 DEF WalkOf
<1>9. ASSUME curr[u] # Tail
      PROVE  /\ nxt[u].ptr \in Node \union {Tail} /\ keyOf(curr[u])' < keyOf(nxt[u].ptr)'
             /\ nxt[u].mark => next'[curr[u]] = nxt[u]
             /\ ~nxt[u].mark /\ keyOf(curr[u])' < op[u].key /\ op[u].key < keyOf(nxt[u].ptr)' =>
                   CanDeny(u)'
  <2>1. /\ nxt[u].ptr \in Node \union {Tail} /\ keyOf(curr[u]) < keyOf(nxt[u].ptr)
        /\ nxt[u].mark => next[curr[u]] = nxt[u]
        /\ ~nxt[u].mark /\ keyOf(curr[u]) < op[u].key /\ op[u].key < keyOf(nxt[u].ptr) => CanDeny(u)
    BY <1>9 DEF WalkOf
  <2>2. keyOf(nxt[u].ptr)' = keyOf(nxt[u].ptr)
    BY <1>1, <1>2, <1>4, <2>1
  <2>3. ASSUME nxt[u].mark PROVE next'[curr[u]] = nxt[u]
    <3>1. curr[u] \in Node /\ next[curr[u]].mark
      BY <1>6, <1>9, <2>1, <2>3 DEF Nodes
    <3>2. next'[curr[u]] = next[curr[u]]
      BY <1>1, <3>1, StepKeeps
    <3>3. QED BY <2>1, <2>3, <3>2
  <2>4. QED BY <1>3, <1>6, <2>1, <2>2, <2>3
<1>10. QED BY <1>3, <1>5, <1>8, <1>9 DEF WalkOf

(* A search that is over may deny its key if it has gone past it. *)
LEMMA WalkEnds ==
  ASSUME Local, Seen, NEW t \in Tid, pc[t] = "walk", ~goesOn(t),
         predNext[t] = curr[t] \/ holds(pred[t], pointTo(predNext[t]))
  PROVE  /\ curr[t] \in Node \union {Tail} /\ op[t].key <= keyOf(curr[t])
         /\ op[t].key < keyOf(curr[t]) => CanDeny(t)
<1> USE DEF Local
<1>1. WalkOf(t) /\ op[t] # NONE /\ op[t].key \in Key /\ op[t].key \in Nat /\ keyOf(curr[t]) \in Nat
      /\ keyOf(pred[t]) < op[t].key
  BY Hands, KeysAreNat DEF Searches, SearchOf
<1>2. curr[t] # Head
  <2>1. keyOf(Head) < op[t].key
    BY <1>1, KeyOf, KeysAreNat
  <2>2. QED BY <2>1, Sentinels DEF goesOn
<1>3. FurtherOn(t)
  BY <1>1, <1>2 DEF WalkOf
<1>4. op[t].key <= keyOf(curr[t])
  BY <1>1, KeyOf, KeysAreNat DEF goesOn
<1>5. ASSUME op[t].key < keyOf(curr[t]) PROVE CanDeny(t)
  <2>1. CASE predNext[t] = curr[t]
    BY <1>3, <1>5, <2>1 DEF FurtherOn
  <2>2. CASE predNext[t] # curr[t]
    <3>1. /\ pred[t] \in LinkedNodes \union {Head}
          /\ \A x \in inBetween(pred[t], curr[t]) : next[x].mark
      BY <2>2, ChainPassed
    <3>2. op[t].key \notin set
      BY <1>1, <1>5, <3>1, Between
    <3>3. QED BY <1>1, <3>2 DEF Seen, SeenOf, CanDeny
  <2>3. QED BY <2>1, <2>2
<1>6. QED BY <1>3, <1>4, <1>5 DEF FurtherOn

(* What a search has in hand stays good while it stays there. *)
LEMMA HandStays ==
  ASSUME Local, Effect, NEW u \in Tid, u \in active, u \in active', op'[u] = op[u],
         seen[u] \subseteq seen'[u], pred'[u] = pred[u], curr'[u] = curr[u]
  PROVE  /\ Keeps(u, pred[u])' /\ Keeps(u, curr[u])'
         /\ \A n : Keeps(u, n) => Keeps(u, n)'
         /\ pc[u] \in {"walk"} \union Settled =>
               keyOf(pred[u])' = keyOf(pred[u]) /\ keyOf(curr[u])' = keyOf(curr[u])
         /\ CanDeny(u) => CanDeny(u)'
<1> USE DEF Local
<1>1. Keeps(u, pred[u]) /\ Keeps(u, curr[u])
  BY InHand
<1>2. \A n : Keeps(u, n) => Keeps(u, n)' /\ (n \in Node \union {Head, Tail} => keyOf(n)' = keyOf(n))
  BY KeepsOn
<1>3. Keeps(u, pred[u])' /\ Keeps(u, curr[u])'
  BY <1>1, <1>2 DEF Keeps
<1>4. ASSUME pc[u] \in {"walk"} \union Settled
      PROVE  keyOf(pred[u])' = keyOf(pred[u]) /\ keyOf(curr[u])' = keyOf(curr[u])
  <2>1. pred[u] \in Node \union {Head} /\ curr[u] \in Node \union {Head, Tail}
    BY <1>4, Hands
  <2>2. ASSUME NEW n, n = pred[u] PROVE keyOf(n)' = keyOf(n)
    BY <1>1, <1>2, <2>1, <2>2
  <2>3. ASSUME NEW n, n = curr[u] PROVE keyOf(n)' = keyOf(n)
    BY <1>1, <1>2, <2>1, <2>3
  <2>4. QED BY <2>2, <2>3 DEF keyOf
<1>5. QED BY <1>2, <1>3, <1>4 DEF CanDeny

(* The searches. *)
LEMMA SearchesStep ==
  ASSUME Local, Frozen, Retiring, Seen, Next
  PROVE  Searches'
<1> USE DEF Local
<1>0. Effect /\ Calls' /\ Locals
  BY NextHasEffect, CallsStep, LocalsTyped
<1>1. ASSUME NEW u \in Tid, Same(u) PROVE SearchOf(u)'
  <2>1. SearchOf(u)
    BY DEF Searches
  <2>2. CASE u \in active
    <3>1. u \in active'
      BY <1>1, <2>2 DEF Same
    <3>2. /\ \A n : Keeps(u, n) => Keeps(u, n)'
          /\ pc[u] \in {"walk"} \union Settled =>
                keyOf(pred[u])' = keyOf(pred[u]) /\ keyOf(curr[u])' = keyOf(curr[u])
          /\ CanDeny(u) => CanDeny(u)'
      BY <1>0, <1>1, <2>2, <3>1, HandStays DEF Same
    <3>3. /\ pc'[u] = pc[u] /\ op'[u] = op[u] /\ pred'[u] = pred[u] /\ curr'[u] = curr[u]
          /\ nxt'[u] = nxt[u] /\ pointers(u)' = pointers(u)
      BY <1>1 DEF Same, pointers
    <3>4. \A n \in pointers(u)' : Keeps(u, n)'
      BY <2>1, <2>2, <3>2, <3>3 DEF SearchOf
    <3>5. pc[u] = "walk" => WalkOf(u)'
      BY <1>0, <1>1, <2>1, <2>2, <3>1, WalkStays DEF SearchOf
    <3>6. ASSUME pc[u] = "unlink" PROVE next'[curr[u]] = next[curr[u]]
      <4>1. curr[u] \in Node /\ next[curr[u]] = get_marked_ref(nxt[u]) /\ Keeps(u, curr[u])
        BY <2>1, <2>2, <3>6, FoundIsNode, InHand DEF SearchOf
      <4>2. next[curr[u]].mark
        BY <1>0, <4>1, Fields DEF Locals
      <4>3. QED BY <1>0, <2>2, <3>1, <4>1, <4>2, StepKeeps
    <3>7. QED BY <2>1, <3>2, <3>3, <3>4, <3>5, <3>6 DEF SearchOf, Settled
  <2>3. CASE u \notin active
    <3>1. pc'[u] = "idle" /\ u \notin active'
      BY <1>1, <2>3 DEF Same, Calls, CallOf
    <3>2. QED BY <3>1 DEF SearchOf, Settled
  <2>4. QED BY <2>2, <2>3
<1>2. ASSUME NEW t \in Tid, Starts(t) PROVE SearchOf(t)'
  <2>1. /\ pc[t] = "idle" /\ pc'[t] = "search" /\ pred' = pred /\ curr' = curr /\ predNext' = predNext
        /\ nxt' = nxt /\ cur' = cur
    BY <1>0, <1>2 DEF Starts, startOp, goto, position, search, Locals
  <2>2. /\ pred[t] = NULL /\ curr[t] = NULL /\ predNext[t] = NULL /\ nxt[t].ptr = NULL /\ cur[t] = NULL
    BY <2>1, Fields DEF Calls, CallOf
  <2>3. \A n \in pointers(t)' : Keeps(t, n)'
    BY <2>1, <2>2, Sentinels DEF Keeps, pointers
  <2>4. QED BY <2>1, <2>3 DEF SearchOf, Settled
<1>3. ASSUME NEW t \in Tid, end(t) PROVE SearchOf(t)'
  <2>1. pc'[t] = "idle" /\ t \notin active'
    BY <1>0, <1>3 DEF end, endOp, goto, Locals
  <2>2. QED BY <2>1 DEF SearchOf, Settled
<1>4. ASSUME NEW t \in Tid, NEW n \in Node \union {Head, Tail}, pc[t] \in {"search", "walk"}, step(t), Quiet,
             Keeps(t, n), curr'[t] = n, n # Tail => nxt'[t] = next[n], n = Tail => nxt'[t] = pointTo(NULL),
             pred'[t] \in Node \union {Head}, Keeps(t, pred'[t]), Keeps(t, predNext'[t]),
             keyOf(pred[t])' < op[t].key, cur'[t] = cur[t],
             (n = Head /\ predNext'[t] = NULL) \/ FurtherOn(t)',
             pc'[t] = "walk"
      PROVE  SearchOf(t)'
  <2>1. t \in active /\ op[t] # NONE /\ Keeps(t, cur[t])
    BY <1>4, CallTyped, InHand
  <2>2. op'[t] = op[t] /\ seen[t] \subseteq seen'[t]
    BY <1>4, OthersSame DEF end, endOp, goto
  <2>3. \A m : (Keeps(t, m)' <=> Keeps(t, m)) /\ keyOf(m)' = keyOf(m)
    BY <1>4 DEF Quiet, Keeps, keyOf
  <2>4. n # Tail =>
          /\ next[n].ptr \in Node \union {Tail} /\ Keeps(t, next[n].ptr)
          /\ keyOf(n) < keyOf(next[n].ptr)
          /\ ~next[n].mark /\ keyOf(n) < op[t].key /\ op[t].key < keyOf(next[n].ptr) => CanDeny(t)
    BY <1>4, <2>1, Onward
  <2>5. n # Tail =>
          /\ nxt'[t].ptr \in Node \union {Tail} /\ keyOf(curr[t])' < keyOf(nxt[t].ptr)'
          /\ nxt'[t].mark => next'[n] = nxt'[t]
          /\ ~nxt'[t].mark /\ keyOf(curr[t])' < op[t].key /\ op[t].key < keyOf(nxt[t].ptr)' =>
                CanDeny(t)'
    <3>1. \A m : /\ m = curr'[t] => keyOf(curr[t])' = keyOf(m)'
                 /\ m = nxt'[t].ptr => keyOf(nxt[t].ptr)' = keyOf(m)'
      BY DEF keyOf
    <3>2. next' = next
      BY <1>4 DEF Quiet
    <3>3. keyOf(curr[t])' = keyOf(n) /\ (n # Tail => keyOf(nxt[t].ptr)' = keyOf(next[n].ptr))
      BY <1>4, <2>3, <3>1
    <3>4. CanDeny(t) => CanDeny(t)'
      BY <2>2 DEF CanDeny
    <3>5. QED BY <1>4, <2>4, <3>2, <3>3, <3>4
  <2>6. Keeps(t, nxt'[t].ptr)
    BY <1>4, <2>4, Fields, Sentinels DEF Keeps
  <2>7. \A m \in pointers(t)' : Keeps(t, m)'
    BY <1>4, <2>1, <2>3, <2>6 DEF pointers
  <2>8. WalkOf(t)'
    BY <1>4, <2>2, <2>5 DEF WalkOf
  <2>9. QED BY <1>4, <2>7, <2>8 DEF SearchOf, Settled
<1>5. ASSUME NEW t \in Tid, search_start(t) PROVE SearchOf(t)'
  <2>1. /\ pc[t] = "search" /\ pc'[t] = "walk" /\ pred'[t] = Head /\ curr'[t] = Head
        /\ predNext'[t] = NULL /\ nxt'[t] = next[Head] /\ cur'[t] = cur[t] /\ Quiet /\ step(t)
    BY <1>0, <1>5 DEF search_start, goto, nodes, call, Quiet, Locals, step
  <2>2. Keeps(t, Head) /\ Keeps(t, NULL) /\ keyOf(Head)' < op[t].key
    BY <2>1, CallTyped, KeysAreNat, KeyOf, Sentinels DEF Keeps
  <2>3. keyOf(pred[t])' = keyOf(Head)'
    BY <2>1 DEF keyOf
  <2>4. QED BY <1>4, <2>1, <2>2, <2>3, Sentinels
<1>6. ASSUME NEW t \in Tid, search_walk(t) PROVE SearchOf(t)'
  <2>1. /\ pc[t] = "walk" /\ pc'[t] = "walk" /\ WalkOf(t) /\ op[t].key \in Key /\ t \in active
        /\ curr[t] \in Node \union {Head} /\ Keeps(t, curr[t]) /\ keyOf(curr[t]) \in Nat
        /\ nxt[t] \in Field /\ nxt[t].ptr \in Node \union {Tail} /\ Keeps(t, nxt[t].ptr)
        /\ keyOf(nxt[t].ptr) \in Nat /\ keyOf(curr[t]) < keyOf(nxt[t].ptr)
        /\ (~nxt[t].mark => keyOf(curr[t]) < op[t].key)
    BY <1>6, WalksFromNode
  <2>2. /\ curr'[t] = nxt[t].ptr /\ cur'[t] = cur[t] /\ Quiet /\ step(t)
        /\ nxt'[t] = (IF nxt[t].ptr = Tail THEN pointTo(NULL) ELSE next[nxt[t].ptr])
    BY <1>0, <1>6 DEF search_walk, nodes, call, Quiet, Locals, step
  <2>3. op'[t] = op[t] /\ seen[t] \subseteq seen'[t] /\ (CanDeny(t) => CanDeny(t)')
    BY <2>1, <2>2, OthersSame DEF end, endOp, goto, CanDeny
  <2>4. LinkedNodes' = LinkedNodes /\ next' = next /\ \A m : keyOf(m)' = keyOf(m)
    BY <2>2 DEF Quiet, LinkedNodes, keyOf
  <2>5. \A m : /\ m = pred'[t] => keyOf(pred[t])' = keyOf(m)'
               /\ m = curr'[t] => keyOf(curr[t])' = keyOf(m)'
               /\ m = predNext'[t] => keyOf(predNext[t])' = keyOf(m)'
    BY DEF keyOf
  <2>6. /\ pred[t] \in Node \union {Head} /\ Keeps(t, pred[t]) /\ Keeps(t, predNext[t])
        /\ keyOf(pred[t]) < op[t].key
    BY <2>1, InHand DEF WalkOf
  <2>7. CASE ~nxt[t].mark
    <3>1. pred'[t] = curr[t] /\ predNext'[t] = nxt[t].ptr
      BY <1>0, <1>6, <2>7 DEF search_walk, Locals
    <3>2. /\ keyOf(pred[t])' = keyOf(curr[t]) /\ keyOf(curr[t])' = keyOf(nxt[t].ptr)
          /\ keyOf(predNext[t])' = keyOf(nxt[t].ptr)
      BY <2>2, <2>4, <2>5, <3>1
    <3>3. op[t].key < keyOf(nxt[t].ptr) => CanDeny(t)'
      BY <2>1, <2>3, <2>7, Sentinels DEF WalkOf
    <3>4. Passed(t)'
      <4>1. ASSUME NEW k \in Nat, NEW j, k <= j, j < k PROVE j \notin Nat
        BY <4>1
      <4>2. \A x \in LinkedNodes : keyOf(x) \in Nat
        BY LinkedKeys
      <4>3. QED BY <2>1, <2>2, <2>4, <3>1, <3>2, <4>1, <4>2 DEF Passed
    <3>5. FurtherOn(t)'
      BY <2>1, <2>2, <2>3, <3>1, <3>2, <3>3, <3>4 DEF FurtherOn
    <3>6. QED BY <1>4, <2>1, <2>2, <2>7, <3>1, <3>2, <3>5
  <2>8. CASE nxt[t].mark
    <3>1. pred'[t] = pred[t] /\ predNext'[t] = predNext[t]
      BY <1>0, <1>6, <2>8 DEF search_walk, Locals
    <3>2. next[curr[t]] = nxt[t] /\ curr[t] # Head
      <4>1. next[curr[t]] = nxt[t]
        BY <2>1, <2>8, Sentinels DEF WalkOf
      <4>2. QED BY <2>8, <4>1 DEF Nodes
    <3>3. FurtherOn(t)
      BY <2>1, <3>2 DEF WalkOf
    <3>4. /\ keyOf(pred[t])' = keyOf(pred[t]) /\ keyOf(curr[t])' = keyOf(nxt[t].ptr)
          /\ keyOf(predNext[t])' = keyOf(predNext[t])
      BY <2>2, <2>4, <2>5, <3>1
    <3>5. /\ curr[t] \in Node /\ predNext[t] \in Node \union {Tail} /\ keyOf(predNext[t]) \in Nat
          /\ keyOf(pred[t]) < keyOf(predNext[t]) /\ keyOf(predNext[t]) <= keyOf(curr[t])
          /\ (op[t].key < keyOf(predNext[t]) => CanDeny(t)) /\ Passed(t)
      BY <2>1, <3>2, <3>3, KeysAreNat DEF FurtherOn
    <3>6. ASSUME predNext[t] \in LinkedNodes
          PROVE  /\ nxt[t].ptr \in LinkedNodes \union {Tail}
                 /\ \A x \in LinkedNodes :
                       keyOf(predNext[t]) <= keyOf(x) /\ keyOf(x) < keyOf(nxt[t].ptr) => next[x].mark
      <4>1. /\ curr[t] \in LinkedNodes
            /\ \A x \in LinkedNodes :
                  keyOf(predNext[t]) <= keyOf(x) /\ keyOf(x) < keyOf(curr[t]) => next[x].mark
        BY <3>5, <3>6, Sentinels DEF Passed
      <4>2. /\ nxt[t].ptr \in LinkedNodes \union {Tail}
            /\ \A x \in LinkedNodes : keyOf(curr[t]) < keyOf(x) => keyOf(nxt[t].ptr) <= keyOf(x)
        BY <3>2, <4>1 DEF Chain
      <4>3. ASSUME NEW x \in LinkedNodes, keyOf(predNext[t]) <= keyOf(x), keyOf(x) < keyOf(nxt[t].ptr)
            PROVE  next[x].mark
        <5>1. keyOf(x) \in Nat
          BY LinkedKeys
        <5>2. CASE keyOf(x) < keyOf(curr[t])
          BY <4>1, <4>3, <5>2
        <5>3. CASE keyOf(x) = keyOf(curr[t])
          <6>1. x = curr[t]
            BY <4>1, <5>3, OneOfAKind
          <6>2. QED BY <2>8, <3>2, <6>1
        <5>4. ~(keyOf(curr[t]) < keyOf(x))
          BY <2>1, <4>2, <4>3, <5>1
        <5>5. QED BY <2>1, <5>1, <5>2, <5>3, <5>4
      <4>4. QED BY <4>2, <4>3
    <3>7. Passed(t)'
      BY <2>2, <2>4, <3>1, <3>4, <3>6 DEF Passed
    <3>8. keyOf(predNext[t]) <= keyOf(nxt[t].ptr)
      BY <2>1, <3>5
    <3>9. FurtherOn(t)'
      BY <2>1, <2>2, <2>3, <3>1, <3>4, <3>5, <3>7, <3>8 DEF FurtherOn
    <3>10. QED BY <1>4, <2>1, <2>2, <2>6, <3>1, <3>4, <3>9
  <2>9. QED BY <2>7, <2>8
<1>7. ASSUME NEW t \in Tid, step(t), ~end(t), pred'[t] = pred[t], curr'[t] = curr[t],
             pc[t] \in {"walk"} \union Settled, pc'[t] # "walk",
             Keeps(t, predNext'[t]), Keeps(t, nxt'[t].ptr), Keeps(t, cur'[t]),
             pc'[t] \in Settled =>
                /\ curr[t] \in Node \union {Tail} /\ op[t].key <= keyOf(curr[t])
                /\ op[t].key < keyOf(curr[t]) => CanDeny(t),
             pc'[t] = "link" => op[t].key # keyOf(curr[t]),
             pc'[t] \in {"succ", "mark", "unlink", "eraseRetire"} => op[t].key = keyOf(curr[t]),
             pc'[t] \in {"mark", "unlink"} => ~nxt'[t].mark,
             pc'[t] = "unlink" => next'[curr[t]] = get_marked_ref(nxt'[t])
      PROVE  SearchOf(t)'
  <2>1. /\ t \in active /\ pred[t] \in Node \union {Head} /\ keyOf(pred[t]) < op[t].key
    BY <1>7, Hands
  <2>2. op' = op /\ t \in active' /\ seen[t] \subseteq seen'[t]
    BY <1>7, <2>1, OthersSame
  <2>3. /\ Keeps(t, pred[t])' /\ Keeps(t, curr[t])'
        /\ \A n : Keeps(t, n) => Keeps(t, n)'
        /\ keyOf(pred[t])' = keyOf(pred[t]) /\ keyOf(curr[t])' = keyOf(curr[t])
        /\ (CanDeny(t) => CanDeny(t)')
    BY <1>0, <1>7, <2>1, <2>2, HandStays
  <2>4. \A n \in pointers(t)' : Keeps(t, n)'
    <3>1. Keeps(t, pred[t]) /\ Keeps(t, curr[t])
      BY <2>1, InHand
    <3>2. \A m \in pointers(t)' : Keeps(t, m)
      BY <1>7, <3>1 DEF pointers
    <3>3. QED BY <2>3, <3>2
  <2>5. QED BY <1>7, <2>1, <2>2, <2>3, <2>4 DEF SearchOf, Settled
<1>8. ASSUME NEW t \in Tid, pc[t] \in {"walk"} \union Settled
      PROVE  /\ Keeps(t, pred[t]) /\ Keeps(t, curr[t]) /\ Keeps(t, predNext[t])
             /\ Keeps(t, nxt[t].ptr) /\ Keeps(t, cur[t])
             /\ pc[t] \in Settled =>
                   /\ curr[t] \in Node \union {Tail} /\ op[t].key <= keyOf(curr[t])
                   /\ op[t].key < keyOf(curr[t]) => CanDeny(t)
  <2>1. t \in active
    BY <1>8, Hands
  <2>2. QED BY <1>8, <2>1, InHand DEF Searches, SearchOf
<1>9. ASSUME NEW t \in Tid, NEW from \in {"walk", "recheck"},
             search_return(t, from) \/ search_retry(t, from), step(t),
             curr[t] \in Node \union {Tail}, op[t].key <= keyOf(curr[t]),
             op[t].key < keyOf(curr[t]) => CanDeny(t)
      PROVE  SearchOf(t)'
  <2>1. /\ pc[t] = from /\ pred' = pred /\ curr' = curr /\ predNext' = predNext /\ nxt' = nxt /\ cur' = cur
    BY <1>9 DEF search_return, search_retry, position, search, goto
  <2>2. \/ pc'[t] \in {"search", "end"}
        \/ pc'[t] = "link" /\ op[t].key # keyOf(curr[t])
        \/ pc'[t] = "succ" /\ op[t].key = keyOf(curr[t])
    BY <1>0, <1>9 DEF search_return, search_retry, goto, Locals
  <2>3. ~end(t)
    BY <2>1 DEF end, endOp, goto
  <2>4. QED BY <1>7, <1>8, <1>9, <2>1, <2>2, <2>3 DEF Settled
<1>10. ASSUME NEW t \in Tid, search_adjacent(t) PROVE SearchOf(t)'
  <2>1. pc[t] = "walk" /\ ~goesOn(t) /\ predNext[t] = curr[t] /\ step(t)
    BY <1>10 DEF search_adjacent, step
  <2>2. search_return(t, "walk") \/ search_retry(t, "walk")
    BY <1>10 DEF search_adjacent
  <2>3. QED BY <1>9, <2>1, <2>2, WalkEnds
<1>11. ASSUME NEW t \in Tid, search_recheck(t) PROVE SearchOf(t)'
  <2>1. pc[t] = "recheck" /\ step(t) /\ (search_return(t, "recheck") \/ search_retry(t, "recheck"))
    BY <1>11 DEF search_recheck, search_return, search_retry, goto, step
  <2>2. QED BY <1>8, <1>9, <2>1 DEF Settled
<1>12. ASSUME NEW t \in Tid, search_unlink(t) PROVE SearchOf(t)'
  <2>1. /\ pc[t] = "walk" /\ ~goesOn(t) /\ step(t) /\ ~end(t)
        /\ pred' = pred /\ curr' = curr /\ predNext' = predNext /\ nxt' = nxt
    BY <1>12 DEF search_unlink, position, step, end, endOp, goto
  <2>2. CASE holds(pred[t], pointTo(predNext[t]))
    <3>1. pc'[t] = "retire" /\ cur'[t] = predNext[t]
      BY <1>0, <1>12, <2>2 DEF search_unlink, goto, Locals
    <3>2. QED BY <1>7, <1>8, <2>1, <2>2, <3>1, WalkEnds
  <2>3. CASE ~holds(pred[t], pointTo(predNext[t]))
    <3>1. pc'[t] = "search" /\ cur'[t] = cur[t]
      BY <1>0, <1>12, <2>3 DEF search_unlink, goto, Locals
    <3>2. QED BY <1>7, <1>8, <2>1, <3>1 DEF Settled
  <2>4. QED BY <2>2, <2>3
<1>13. ASSUME NEW t \in Tid, search_retire(t) PROVE SearchOf(t)'
  <2>1. /\ pc[t] = "retire" /\ pc'[t] \in {"recheck", "retire"} /\ step(t) /\ ~end(t)
        /\ pred' = pred /\ curr' = curr /\ predNext' = predNext /\ nxt' = nxt
        /\ cur'[t] \in {NULL, next[cur[t]].ptr}
    BY <1>0, <1>13 DEF search_retire, position, step, end, endOp, goto, Locals
  <2>2. t \in active /\ Keeps(t, cur[t]) /\ Keeps(t, NULL)
    BY <1>8, <2>1, Hands, Sentinels DEF Settled, Keeps
  <2>3. cur[t] \in Node /\ status[cur[t]] = "unlinked"
    BY <1>13, RetireEffect DEF Retires
  <2>4. Keeps(t, next[cur[t]].ptr)
    BY <2>2, <2>3 DEF Keeps, Frozen
  <2>5. QED BY <1>7, <1>8, <2>1, <2>2, <2>4 DEF Settled
<1>14. ASSUME NEW t \in Tid, insert_link(t) \/ erase_retire(t) PROVE SearchOf(t)'
  <2>1. /\ pc[t] \in {"link", "eraseRetire"} /\ pc'[t] \in {"search", "end"} /\ step(t) /\ ~end(t)
        /\ pred' = pred /\ curr' = curr /\ predNext' = predNext /\ nxt' = nxt /\ cur' = cur
    BY <1>0, <1>14 DEF insert_link, erase_retire, position, search, step, end, endOp, goto, Locals
  <2>2. QED BY <1>7, <1>8, <2>1 DEF Settled
<1>15. ASSUME NEW t \in Tid, erase_loadSucc(t) PROVE SearchOf(t)'
  <2>1. /\ pc[t] = "succ" /\ step(t) /\ ~end(t)
        /\ pred' = pred /\ curr' = curr /\ predNext' = predNext /\ nxt'[t] = next[curr[t]] /\ cur' = cur
        /\ \/ pc'[t] = "search"
           \/ pc'[t] = "mark" /\ ~isMarked(curr[t])
    BY <1>0, <1>15 DEF erase_loadSucc, position, step, end, endOp, goto, Locals
  <2>2. curr[t] \in Node /\ op[t].key = keyOf(curr[t])
    BY <2>1, FoundIsNode, KeyOf
  <2>3. Keeps(t, next[curr[t]].ptr)
    <3>1. t \in active /\ op[t] # NONE /\ Keeps(t, curr[t])
      BY <2>1, Hands DEF Settled
    <3>2. QED BY <2>2, <3>1, Onward
  <2>4. pc'[t] = "mark" => ~nxt'[t].mark
    BY <2>1, <2>2, Sentinels DEF isMarked
  <2>5. QED BY <1>7, <1>8, <2>1, <2>2, <2>3, <2>4 DEF Settled
<1>16. ASSUME NEW t \in Tid, erase_mark(t) PROVE SearchOf(t)'
  <2>1. /\ pc[t] = "mark" /\ step(t) /\ ~end(t)
        /\ pred' = pred /\ curr' = curr /\ predNext' = predNext /\ nxt' = nxt /\ cur' = cur
        /\ \/ pc'[t] = "search"
           \/ pc'[t] = "unlink" /\ store(curr[t], get_marked_ref(nxt[t]))
    BY <1>0, <1>16 DEF erase_mark, position, search, step, end, endOp, goto, Locals
  <2>2. curr[t] \in Node /\ op[t].key = keyOf(curr[t]) /\ ~nxt[t].mark
    BY <2>1, FoundIsNode, KeyOf DEF Searches, SearchOf
  <2>3. pc'[t] = "unlink" => next'[curr[t]] = get_marked_ref(nxt[t])
    BY <2>1, <2>2, Typed DEF store
  <2>4. QED BY <1>7, <1>8, <2>1, <2>2, <2>3 DEF Settled
<1>17. ASSUME NEW t \in Tid, erase_unlink(t) PROVE SearchOf(t)'
  <2>1. /\ pc[t] = "unlink" /\ pc'[t] \in {"search", "eraseRetire"} /\ step(t) /\ ~end(t)
        /\ pred' = pred /\ curr' = curr /\ predNext' = predNext /\ nxt' = nxt /\ cur' = cur
    BY <1>0, <1>17 DEF erase_unlink, position, search, step, end, endOp, goto, Locals
  <2>2. op[t].key = keyOf(curr[t])
    BY <2>1, FoundIsNode, KeyOf
  <2>3. QED BY <1>7, <1>8, <2>1, <2>2 DEF Settled
<1>18. ASSUME NEW t \in Tid, Moves(t) PROVE \A u \in Tid : SearchOf(u)'
  <2>1. SearchOf(t)'
    BY <1>2, <1>3, <1>5, <1>6, <1>10, <1>11, <1>12, <1>13, <1>14, <1>15, <1>16, <1>17, <1>18
    DEF Moves, step
  <2>2. \A u \in Tid \ {t} : SearchOf(u)'
    BY <1>1, <1>18, OthersSame
  <2>3. QED BY <2>1, <2>2
<1>19. ASSUME NEW n \in Node, freeNode(n) PROVE \A u \in Tid : SearchOf(u)'
  BY <1>1, <1>19, OthersSame
<1>20. QED BY <1>18, <1>19, NextMoves DEF Searches

-------------------------------------------------------------------------------
(* Nodes that are unlinked and not yet retired do not change. *)
LEMMA UnlinkedStays ==
  ASSUME Local, Effect, NEW n \in Node, status[n] = "unlinked"
  PROVE  next'[n] = next[n] /\ key'[n] = key[n] /\ keyOf(n)' = keyOf(n)
<1> USE Sentinels DEF Local, TypeOK, ClientTypeOK
<1>1. n \notin LinkedNodes \union {Head}
  BY DEF LinkedNodes
<1>2. ASSUME NEW t \in Tid, EffectOf(t) PROVE next'[n] = next[n] /\ key'[n] = key[n]
  <2>1. CASE Quiet \/ Begins(t) \/ Ends(t) \/ (\E m \in Node : Retires(m))
    BY <2>1 DEF Quiet, Begins, Ends, Retires
  <2>2. ASSUME NEW m \in Node, Links(t, m) PROVE next'[n] = next[n] /\ key'[n] = key[n]
    BY <1>1, <2>2 DEF Links
  <2>3. CASE Marks(t)
    BY <1>1, <2>3 DEF Marks
  <2>4. ASSUME NEW p, NEW c, Unlinks(p, c) PROVE next'[n] = next[n] /\ key'[n] = key[n]
    BY <1>1, <2>4 DEF Unlinks
  <2>5. QED BY <1>2, <2>1, <2>2, <2>3, <2>4 DEF EffectOf
<1>3. ASSUME NEW m \in Node, Frees(m) PROVE next'[n] = next[n] /\ key'[n] = key[n]
  BY <1>3 DEF Frees
<1>4. QED BY <1>2, <1>3, KeyOf DEF Effect

(* Nor does what is left of a chain while others move. *)
LEMMA RestStays ==
  ASSUME Local, Effect, NEW S \in SUBSET Node, \A n \in S : status[n] = "unlinked",
         NEW u \in Tid, Same(u), RestOf(u, S)
  PROVE  RestOf(u, S)'
<1>1. pc'[u] = pc[u] /\ cur'[u] = cur[u] /\ curr'[u] = curr[u]
  BY DEF Same
<1>2. CASE pc[u] # "retire"
  BY <1>1, <1>2 DEF RestOf
<1>3. CASE pc[u] = "retire"
  <2>1. u \in active /\ u \in active'
    BY <1>3, Hands DEF Settled, Same
  <2>2. keyOf(curr[u])' = keyOf(curr[u])
    BY <1>3, <2>1, HandStays DEF Settled, Same
  <2>3. \A n \in S : next'[n] = next[n] /\ key'[n] = key[n] /\ keyOf(n)' = keyOf(n)
    BY UnlinkedStays
  <2>4. \A m : m = curr'[u] => keyOf(m)' = keyOf(curr[u])'
    BY DEF keyOf
  <2>5. \A m \in S \union {curr[u]} : keyOf(m)' = keyOf(m)
    BY <1>1, <2>2, <2>3, <2>4
  <2>6. cur[u] \in S
    BY <1>3 DEF RestOf
  <2>7. ASSUME NEW n \in S
        PROVE  next[n].ptr \in S \union {curr[u]} /\ keyOf(next[n].ptr)' = keyOf(next[n].ptr)
    <3>1. next[n].ptr \in S \union {curr[u]}
      BY <1>3 DEF RestOf
    <3>2. \A m : m = next'[n].ptr => keyOf(m)' = keyOf(next[n].ptr)'
      BY DEF keyOf
    <3>3. QED BY <2>3, <2>5, <3>1, <3>2
  <2>8. QED BY <1>1, <1>3, <2>2, <2>3, <2>6, <2>7 DEF RestOf
<1>4. QED BY <1>2, <1>3

(* A step that leaves t with R in the place of what it had. *)
LEMMA RestChanges ==
  ASSUME Local, Effect, NEW rest \in [Tid -> SUBSET Node], Rests(rest),
         NEW t \in Tid, \A u \in Tid \ {t} : Same(u), NEW R \in SUBSET Node, RestOf(t, R)',
         \A n \in Node : status'[n] = "unlinked" <=>
                            n \in R \/ (status[n] = "unlinked" /\ n \notin rest[t]),
         \A n \in R : n \in rest[t] \/ status[n] # "unlinked"
  PROVE  Retiring'
<1> DEFINE rest2 == [rest EXCEPT ![t] = R]
<1>1. /\ rest2 \in [Tid -> SUBSET Node] /\ rest2[t] = R
      /\ \A u \in Tid \ {t} : rest2[u] = rest[u]
  OBVIOUS
<1>2. /\ \A n \in Node : status[n] = "unlinked" <=> \E u \in Tid : n \in rest[u]
      /\ \A u, v \in Tid : \A n \in Node : n \in rest[u] /\ n \in rest[v] => u = v
      /\ \A u \in Tid : RestOf(u, rest[u])
  BY DEF Rests
<1>3. ASSUME NEW n \in Node PROVE status'[n] = "unlinked" <=> \E u \in Tid : n \in rest2[u]
  <2>1. (\E u \in Tid : n \in rest2[u]) <=> n \in R \/ \E u \in Tid \ {t} : n \in rest[u]
    BY <1>1
  <2>2. (\E u \in Tid \ {t} : n \in rest[u]) <=> status[n] = "unlinked" /\ n \notin rest[t]
    BY <1>2
  <2>3. QED BY <2>1, <2>2
<1>4. ASSUME NEW n \in R, NEW u \in Tid \ {t} PROVE n \notin rest[u]
  BY <1>2, <1>4
<1>5. \A u, v \in Tid : \A n \in Node : n \in rest2[u] /\ n \in rest2[v] => u = v
  BY <1>1, <1>2, <1>4
<1>6. ASSUME NEW u \in Tid PROVE RestOf(u, rest2[u])'
  <2>1. PICK S \in SUBSET Node : S = rest2[u]
    BY <1>1
  <2>2. RestOf(u, S)'
    <3>1. CASE u = t
      BY <1>1, <2>1, <3>1
    <3>2. CASE u # t
      <4>1. S = rest[u] /\ RestOf(u, S) /\ (\A n \in S : status[n] = "unlinked") /\ Same(u)
        BY <1>1, <1>2, <2>1, <3>2
      <4>2. QED BY <4>1, RestStays
    <3>3. QED BY <3>1, <3>2
  <2>3. QED BY <2>1, <2>2
<1>7. Rests(rest2)'
  BY <1>3, <1>5, <1>6 DEF Rests
<1> HIDE DEF rest2
<1>8. QED BY <1>1, <1>7 DEF Retiring

(* The chain that a search has cut out, from its first node on. *)
LEMMA RestOfChain ==
  ASSUME Local, Effect, NEW t \in Tid, search_unlink(t), holds(pred[t], pointTo(predNext[t])),
         NEW R, R = inBetween(pred[t], curr[t])
  PROVE  RestOf(t, R)'
<1> USE DEF Local
<1>0. Locals
  BY LocalsTyped
<1>1. pc[t] = "walk" /\ pc'[t] = "retire" /\ cur'[t] = predNext[t] /\ curr' = curr
  BY <1>0 DEF search_unlink, goto, position, Locals
<1>2. /\ pred[t] \in LinkedNodes \union {Head}
      /\ predNext[t] \in R /\ next[pred[t]].ptr = predNext[t]
      /\ curr[t] \in LinkedNodes \union {Tail}
  BY ChainPassed DEF search_unlink
<1>3. key' = key /\ next' = [next EXCEPT ![pred[t]] = pointTo(curr[t])]
  BY SearchUnlinkEffect DEF Unlinks
<1>4. /\ \A x \in LinkedNodes : x \in Node /\ keyOf(x) = key[x] /\ keyOf(x) < KEY_MAX
      /\ \A x \in LinkedNodes \union {Head, Tail} : keyOf(x) \in Nat
  BY LinkedKeys
<1>5. \A m : keyOf(m)' = keyOf(m)
  BY <1>3 DEF keyOf
<1>6. ASSUME NEW n \in R
      PROVE  /\ key[predNext[t]] <= key[n] /\ key[n] < keyOf(curr[t])
             /\ n \in LinkedNodes /\ next'[n] = next[n]
             /\ next[n].ptr \in R \union {curr[t]} /\ key[n] < keyOf(next[n].ptr)
             /\ \A m \in R : /\ key[n] < key[m] => keyOf(next[n].ptr) <= key[m]
                             /\ key[n] = key[m] => n = m
  <2>1. n \in LinkedNodes /\ keyOf(pred[t]) < key[n] /\ key[n] < keyOf(curr[t])
    BY <1>6 DEF inBetween
  <2>2. /\ predNext[t] \in LinkedNodes
        /\ \A x \in LinkedNodes : keyOf(pred[t]) < keyOf(x) => keyOf(predNext[t]) <= keyOf(x)
    BY <1>2 DEF Chain, inBetween
  <2>3. /\ next[n].ptr \in LinkedNodes \union {Tail} /\ keyOf(n) < keyOf(next[n].ptr)
        /\ \A x \in LinkedNodes : keyOf(n) < keyOf(x) => keyOf(next[n].ptr) <= keyOf(x)
        /\ \A x \in LinkedNodes : key[n] = key[x] => n = x
    BY <2>1 DEF Chain
  <2>4. n # pred[t]
    BY <1>2, <1>4, <2>1
  <2>5. next[n].ptr \in R \union {curr[t]}
    <3>1. CASE keyOf(next[n].ptr) < keyOf(curr[t])
      <4>1. next[n].ptr # Tail
        BY <1>2, <1>4, <3>1, KeyOf
      <4>2. next[n].ptr \in LinkedNodes /\ keyOf(pred[t]) < key[next[n].ptr]
        BY <1>2, <1>4, <2>1, <2>3, <4>1
      <4>3. QED BY <1>4, <3>1, <4>2 DEF inBetween
    <3>2. CASE keyOf(next[n].ptr) >= keyOf(curr[t])
      <4>1. CASE curr[t] = Tail
        BY <1>2, <1>4, <2>3, <3>2, <4>1, KeyOf
      <4>2. CASE curr[t] \in LinkedNodes
        <5>1. keyOf(next[n].ptr) = keyOf(curr[t])
          BY <1>4, <2>1, <2>3, <3>2, <4>2
        <5>2. next[n].ptr # Tail
          BY <1>4, <4>2, <5>1, KeyOf
        <5>3. QED BY <2>3, <4>2, <5>1, <5>2, OneOfAKind
      <4>3. QED BY <1>2, <4>1, <4>2
    <3>3. QED BY <1>2, <1>4, <2>3, <3>1, <3>2
  <2>6. R \subseteq LinkedNodes
    BY DEF inBetween
  <2>7. next'[n] = next[n]
    BY <1>3, <2>4
  <2>8. QED BY <1>4, <2>1, <2>2, <2>3, <2>5, <2>6, <2>7
<1>7. ASSUME NEW n \in R
      PROVE  next'[n] = next[n] /\ keyOf(next[n].ptr)' = keyOf(next[n].ptr)
  <2>1. \A m : m = next'[n].ptr => keyOf(m)' = keyOf(next[n].ptr)'
    BY DEF keyOf
  <2>2. QED BY <1>5, <1>6, <2>1
<1>8. keyOf(curr[t])' = keyOf(curr[t])
  BY <1>1, <1>3 DEF keyOf
<1>9. QED BY <1>1, <1>2, <1>3, <1>6, <1>7, <1>8 DEF RestOf

(* Retiring the next node of a chain. *)
LEMMA RestRetired ==
  ASSUME Local, Frozen, Effect, NEW t \in Tid, search_retire(t), NEW S \in SUBSET Node, RestOf(t, S),
         \A n \in S : status[n] = "unlinked", NEW R, R = S \ {cur[t]}
  PROVE  RestOf(t, R)'
<1> USE DEF Local
<1>0. Locals
  BY LocalsTyped
<1> DEFINE succ == next[cur[t]].ptr
<1>1. /\ pc[t] = "retire" /\ curr' = curr /\ next' = next /\ key' = key /\ cur[t] \in S
      /\ pc'[t] = IF succ = curr[t] THEN "recheck" ELSE "retire"
      /\ cur'[t] = IF succ = curr[t] THEN NULL ELSE succ
  BY <1>0 DEF search_retire, retireNode, goto, position, Locals, RestOf
<1>2. \A n \in S :
          /\ key[cur[t]] <= key[n] /\ key[n] < keyOf(curr[t])
          /\ next[n].ptr \in S \union {curr[t]} /\ key[n] < keyOf(next[n].ptr)
          /\ \A m \in S : /\ key[n] < key[m] => keyOf(next[n].ptr) <= key[m]
                          /\ key[n] = key[m] => n = m
  BY <1>1 DEF RestOf
<1>3. /\ \A n \in S : key[n] \in Nat /\ keyOf(n) = key[n]
      /\ keyOf(curr[t]) \in Nat
  BY <1>1, KeyOf, KeysAreNat, Hands DEF Settled
<1>4. \A n : keyOf(n)' = keyOf(n)
  BY <1>1 DEF keyOf
<1>5. \A n \in S : n # cur[t] => key[cur[t]] < key[n] /\ keyOf(succ) <= key[n]
  BY <1>1, <1>2, <1>3
<1>6. CASE succ = curr[t]
  <2>1. R = {}
    BY <1>2, <1>3, <1>5, <1>6
  <2>2. QED BY <1>1, <1>6, <2>1 DEF RestOf
<1>7. CASE succ # curr[t]
  <2>1. succ \in S /\ succ # cur[t] /\ keyOf(succ) = key[succ]
    BY <1>1, <1>2, <1>3, <1>7
  <2>2. ASSUME NEW n \in R PROVE next[n].ptr \in R \union {curr[t]}
    BY <1>1, <1>2, <1>3
  <2>3. \A n \in R : keyOf(next[n].ptr)' = keyOf(next[n].ptr)
    BY <1>1 DEF keyOf
  <2>4. keyOf(curr[t])' = keyOf(curr[t])
    BY <1>1 DEF keyOf
  <2>5. QED BY <1>1, <1>2, <1>5, <1>7, <2>1, <2>2, <2>3, <2>4 DEF RestOf
<1>8. QED BY <1>6, <1>7

(* Each node that is taken out is retired, once, by the call that has      *)
(* taken it out.                                                           *)
LEMMA RetiringStep ==
  ASSUME Local, Frozen, Retiring, Next
  PROVE  Retiring'
<1> USE DEF Local
<1>0. Locals /\ Effect
  BY LocalsTyped, NextHasEffect
<1>1. PICK rest \in [Tid -> SUBSET Node] : Rests(rest)
  BY DEF Retiring
<1>2. /\ \A n \in Node : status[n] = "unlinked" <=> \E u \in Tid : n \in rest[u]
      /\ \A u, v \in Tid : \A n \in Node : n \in rest[u] /\ n \in rest[v] => u = v
      /\ \A u \in Tid : RestOf(u, rest[u])
  BY <1>1 DEF Rests
<1>3. ASSUME NEW n \in Node, freeNode(n) PROVE Retiring'
  <2>1. \A u \in Tid : Same(u)
    BY <1>3, OthersSame
  <2>2. \A m \in Node : status'[m] = "unlinked" <=> status[m] = "unlinked"
    BY <1>3, NextHasEffect DEF Frees, TypeOK, ClientTypeOK
  <2>3. ASSUME NEW u \in Tid PROVE RestOf(u, rest[u])'
    <3>1. PICK S \in SUBSET Node : S = rest[u]
      OBVIOUS
    <3>2. RestOf(u, S)'
      BY <1>0, <1>2, <2>1, <3>1, RestStays
    <3>3. QED BY <3>1, <3>2
  <2>4. Rests(rest)'
    BY <1>2, <2>2, <2>3 DEF Rests
  <2>5. QED BY <2>4 DEF Retiring
<1>4. ASSUME NEW t \in Tid, Moves(t), rest[t] = {}, pc'[t] \notin {"retire", "eraseRetire"},
             \A n \in Node : status'[n] = "unlinked" <=> status[n] = "unlinked"
      PROVE  Retiring'
  <2>1. RestOf(t, {})'
    BY <1>4 DEF RestOf
  <2>2. \A u \in Tid \ {t} : Same(u)
    BY <1>4, OthersSame
  <2>3. QED BY <1>0, <1>1, <1>4, <2>1, <2>2, RestChanges
<1>5. ASSUME NEW t \in Tid, pc[t] \notin {"retire", "eraseRetire"} PROVE rest[t] = {}
  BY <1>2, <1>5 DEF RestOf
<1>6. ASSUME NEW t \in Tid, NEW R \in SUBSET Node, NEW p, NEW c, Unlinks(p, c), R = inBetween(p, c),
             rest[t] = {}, RestOf(t, R)', Moves(t)
      PROVE  Retiring'
  <2>1. \A u \in Tid \ {t} : Same(u)
    BY <1>6, OthersSame
  <2>2. \A n \in Node : status'[n] = "unlinked" <=> n \in R \/ status[n] = "unlinked"
    BY <1>6 DEF Unlinks
  <2>3. \A n \in R : status[n] # "unlinked"
    BY <1>6 DEF inBetween, LinkedNodes
  <2>4. QED BY <1>0, <1>1, <1>6, <2>1, <2>2, <2>3, RestChanges
<1>7. ASSUME NEW t \in Tid, NEW n \in rest[t], Retires(n), NEW R, R = rest[t] \ {n},
             RestOf(t, R)', Moves(t)
      PROVE  Retiring'
  <2>1. \A u \in Tid \ {t} : Same(u)
    BY <1>7, OthersSame
  <2>2. \A m \in Node : status'[m] = "unlinked" <=> status[m] = "unlinked" /\ m # n
    BY <1>7 DEF Retires, TypeOK, ClientTypeOK
  <2>3. \A m \in R : status[m] = "unlinked"
    BY <1>2, <1>7
  <2>4. \A m \in Node : status'[m] = "unlinked" <=>
                           m \in R \/ (status[m] = "unlinked" /\ m \notin rest[t])
    BY <1>7, <2>2, <2>3
  <2>5. R \in SUBSET Node /\ \A m \in R : m \in rest[t]
    BY <1>7
  <2>6. QED BY <1>0, <1>1, <1>7, <2>1, <2>4, <2>5, RestChanges
<1>8. ASSUME NEW t \in Tid, search_unlink(t) PROVE Retiring'
  <2>1. Moves(t) /\ pc[t] = "walk" /\ rest[t] = {}
    BY <1>5, <1>8 DEF Moves, step, search_unlink
  <2>2. CASE holds(pred[t], pointTo(predNext[t]))
    <3>1. PICK R \in SUBSET Node : R = inBetween(pred[t], curr[t])
      BY DEF inBetween, LinkedNodes
    <3>2. RestOf(t, R)'
      BY <1>0, <1>8, <2>2, <3>1, RestOfChain
    <3>3. Unlinks(pred[t], curr[t])
      BY <1>8, <2>2, SearchUnlinkEffect
    <3>4. QED BY <1>6, <2>1, <3>1, <3>2, <3>3
  <2>3. CASE ~holds(pred[t], pointTo(predNext[t]))
    <3>1. pc'[t] = "search" /\ Quiet
      BY <1>0, <1>8, <2>3 DEF search_unlink, goto, Locals, nodes, call, Quiet
    <3>2. QED BY <1>4, <2>1, <3>1 DEF Quiet
  <2>4. QED BY <2>2, <2>3
<1>9. ASSUME NEW t \in Tid, search_retire(t) PROVE Retiring'
  <2>1. Moves(t) /\ pc[t] = "retire" /\ cur[t] \in rest[t] /\ Retires(cur[t])
    BY <1>2, <1>9, RetireEffect DEF Moves, step, search_retire, goto, RestOf
  <2>2. PICK S \in SUBSET Node : S = rest[t]
    OBVIOUS
  <2>3. PICK R : R = S \ {cur[t]}
    OBVIOUS
  <2>4. RestOf(t, S) /\ \A n \in S : status[n] = "unlinked"
    BY <1>2, <2>2
  <2>5. RestOf(t, R)'
    BY <1>0, <1>9, <2>3, <2>4, RestRetired
  <2>6. QED BY <1>7, <2>1, <2>2, <2>3, <2>5
<1>10. ASSUME NEW t \in Tid, erase_unlink(t) PROVE Retiring'
  <2>1. Moves(t) /\ pc[t] = "unlink" /\ rest[t] = {} /\ curr' = curr
    BY <1>5, <1>10 DEF Moves, step, erase_unlink, position
  <2>2. CASE holds(pred[t], pointTo(curr[t]))
    <3>1. PICK R \in SUBSET Node : R = {curr[t]}
      BY <2>1, FoundIsNode
    <3>2. Unlinks(pred[t], nxt[t].ptr) /\ R = inBetween(pred[t], nxt[t].ptr)
      BY <1>10, <2>2, <3>1, EraseUnlinkEffect
    <3>3. pc'[t] = "eraseRetire" /\ curr'[t] = curr[t]
      BY <1>0, <1>10, <2>2 DEF erase_unlink, goto, position, Locals
    <3>4. RestOf(t, R)'
      BY <3>1, <3>3 DEF RestOf
    <3>5. QED BY <1>6, <2>1, <3>2, <3>4
  <2>3. CASE ~holds(pred[t], pointTo(curr[t]))
    <3>1. pc'[t] = "search" /\ Quiet
      BY <1>0, <1>10, <2>3 DEF erase_unlink, goto, Locals, nodes, call, Quiet
    <3>2. QED BY <1>4, <2>1, <3>1 DEF Quiet
  <2>4. QED BY <2>2, <2>3
<1>11. ASSUME NEW t \in Tid, erase_retire(t) PROVE Retiring'
  <2>1. Moves(t) /\ pc[t] = "eraseRetire" /\ rest[t] = {curr[t]} /\ Retires(curr[t])
    BY <1>2, <1>11, RetireEffect DEF Moves, step, erase_retire, goto, RestOf
  <2>2. pc'[t] = "end"
    BY <1>0, <1>11 DEF erase_retire, goto, Locals
  <2>3. PICK R : R = {}
    OBVIOUS
  <2>4. RestOf(t, R)'
    BY <2>2, <2>3 DEF RestOf
  <2>5. R = rest[t] \ {curr[t]} /\ curr[t] \in rest[t]
    BY <2>1, <2>3
  <2>6. QED BY <1>7, <2>1, <2>4, <2>5
<1>12. ASSUME NEW t \in Tid, Moves(t), ~search_unlink(t), ~search_retire(t), ~erase_unlink(t),
              ~erase_retire(t)
       PROVE  Retiring'
  <2>1. pc[t] \notin {"retire", "eraseRetire"} /\ pc'[t] \notin {"retire", "eraseRetire"}
    BY <1>0, <1>12
    DEF Moves, Starts, startOp, step, search_start, search_walk, search_adjacent, search_return,
        search_retry, search_recheck, insert_link, erase_loadSucc, erase_mark, end, endOp, goto, Locals
  <2>2. \A n \in Node : status'[n] = "unlinked" <=> status[n] = "unlinked"
    <3>1. CASE insert_link(t)
      BY <3>1, LinkEffect DEF Links, Quiet
    <3>2. CASE ~insert_link(t)
      <4>1. status' = status
        BY <1>12, <3>2
        DEF Moves, Starts, startOp, step, search_start, search_walk, search_adjacent, search_return,
            search_retry, search_recheck, erase_loadSucc, erase_mark, end, endOp, nodes
      <4>2. QED BY <4>1
    <3>3. QED BY <3>1, <3>2
  <2>3. QED BY <1>4, <1>5, <1>12, <2>1, <2>2
<1>13. QED BY <1>3, <1>8, <1>9, <1>10, <1>11, <1>12, NextMoves

-------------------------------------------------------------------------------
(* The set stays the same where only marked nodes are unlinked and no mark *)
(* or key of a linked node changes, *)
LEMMA SetStays ==
  ASSUME Local,
         \/ Quiet
         \/ \E t \in Tid : Begins(t) \/ Ends(t)
         \/ \E p, c \in Node \union {Head, Tail} : Unlinks(p, c)
         \/ \E n \in Node : Retires(n) \/ Frees(n)
  PROVE  set' = set
<1> USE DEF Local
<1>1. ASSUME LinkedNodes' \subseteq LinkedNodes,
             \A n \in LinkedNodes : /\ key'[n] = key[n]
                                    /\ next'[n].mark <=> next[n].mark
                                    /\ n \notin LinkedNodes' => next[n].mark
      PROVE  set' = set
  <2>1. \A k : k \in set' <=> k \in set
    BY <1>1, InSet
  <2>2. QED BY <2>1
<1>2. ASSUME NEW t \in Tid, Quiet \/ Begins(t) \/ Ends(t) PROVE set' = set
  <2>1. LinkedNodes' = LinkedNodes /\ key' = key /\ next' = next
    BY <1>2, LinkedAfter DEF Quiet, Begins, Ends
  <2>2. QED BY <1>1, <2>1
<1>3. CASE Quiet
  BY <1>1, <1>3 DEF Quiet, LinkedNodes
<1>4. ASSUME NEW p, NEW c, Unlinks(p, c) PROVE set' = set
  <2>1. LinkedNodes' = LinkedNodes \ inBetween(p, c) /\ key' = key
    BY <1>4, LinkedAfter DEF Unlinks
  <2>2. \A n \in inBetween(p, c) : next[n].mark
    BY <1>4 DEF Unlinks
  <2>3. \A n \in LinkedNodes : next'[n].mark <=> next[n].mark
    BY <1>4, Fields, Typed DEF Unlinks
  <2>4. QED BY <1>1, <2>1, <2>2, <2>3
<1>5. ASSUME NEW n \in Node, Retires(n) PROVE set' = set
  BY <1>1, <1>5, LinkedAfter DEF Retires
<1>6. ASSUME NEW n \in Node, Frees(n) PROVE set' = set
  <2>1. LinkedNodes' = LinkedNodes /\ n \notin LinkedNodes
    BY <1>6, LinkedAfter
  <2>2. \A m \in LinkedNodes : key'[m] = key[m] /\ next'[m] = next[m]
    BY <1>6, <2>1, Typed DEF Frees, TypeOK, ClientTypeOK
  <2>3. QED BY <1>1, <2>1, <2>2
<1>7. QED BY <1>2, <1>3, <1>4, <1>5, <1>6

(* doInsert adds the key of its call, which the set did not have, *)
LEMMA SetAdds ==
  ASSUME Local, NEW t \in Tid, NEW x \in Node, Links(t, x)
  PROVE  op[t].key \notin set /\ set' = set \union {op[t].key}
<1> USE DEF Local
<1>1. /\ pred[t] \in LinkedNodes \union {Head} /\ next[pred[t]].ptr = curr[t] /\ ~next[pred[t]].mark
      /\ keyOf(pred[t]) < op[t].key /\ op[t].key < keyOf(curr[t])
  BY Fields DEF Links
<1>2. op[t].key \notin set
  BY <1>1, Between
<1>3. LinkedNodes' = LinkedNodes \union {x} /\ x \notin LinkedNodes /\ LinkedNodes \subseteq Node
  BY LinkedAfter, Typed
<1>4. \A n \in LinkedNodes : key'[n] = key[n] /\ (next'[n].mark <=> next[n].mark)
  <2>1. \A n \in LinkedNodes : n # pred[t] => next'[n] = next[n]
    BY <1>3, Typed DEF Links
  <2>2. pred[t] \in Node \union {Head} /\ pred[t] # x => ~next'[pred[t]].mark
    BY Fields, Typed DEF Links
  <2>3. \A n \in LinkedNodes : key'[n] = key[n]
    BY <1>3 DEF Links
  <2>4. QED BY <1>1, <1>3, <2>1, <2>2, <2>3
<1>5. key'[x] = op[t].key /\ ~next'[x].mark
  BY Fields, Typed DEF Links
<1>6. \A k : k \in set' <=> k \in set \/ k = op[t].key
  BY <1>3, <1>4, <1>5, InSet
<1>7. QED BY <1>2, <1>6

(* and the mark of erase removes the key of its call, which the set had.   *)
LEMMA SetRemoves ==
  ASSUME Local, NEW t \in Tid, Marks(t)
  PROVE  op[t].key \in set /\ set' = set \ {op[t].key}
<1> USE DEF Local
<1> DEFINE c == curr[t]
<1>1. c \in LinkedNodes /\ ~next[c].mark /\ key[c] = op[t].key /\ key' = key
      /\ LinkedNodes' = LinkedNodes /\ LinkedNodes \subseteq Node
  BY LinkedAfter, Typed DEF Marks
<1>2. \A n \in LinkedNodes : next'[n].mark <=> (next[n].mark \/ n = c)
  <2>1. next'[c].mark
    BY <1>1, Fields, Typed DEF Marks
  <2>2. \A n \in LinkedNodes : n # c => next'[n] = next[n]
    BY <1>1, Typed DEF Marks
  <2>3. QED BY <2>1, <2>2
<1>3. \A n \in LinkedNodes : key[n] = key[c] => n = c
  BY <1>1 DEF Chain
<1> HIDE DEF c
<1>4. \A k : k \in set' <=> k \in set /\ k # key[c]
  BY <1>1, <1>2, <1>3, InSet, SMTT(30)
<1>5. QED BY <1>1, <1>4, InSet

(* What seen starts with. *)
LEMMA Present == \A S, x : {(x \in S)} = IF x \in S THEN {TRUE} ELSE {FALSE}
<1>1. ASSUME NEW S, NEW x, x \in S PROVE {(x \in S)} = {TRUE}
  BY <1>1, Zenon
<1>2. ASSUME NEW S, NEW x, x \notin S PROVE {(x \in S)} = {FALSE}
  <2> DEFINE b == x \in S
  <2>1. b \in BOOLEAN /\ ~b
    BY <1>2
  <2> HIDE DEF b
  <2>2. {b} = {FALSE}
    BY <2>1, Zenon
  <2>3. QED BY <2>2 DEF b
<1>3. QED BY <1>1, <1>2, Zenon

(* A call is the abstract set's. *)
LEMMA CallStep ==
  ASSUME Local, NEW t \in Tid, Starts(t)
  PROVE  set' = set /\ \E o \in Operation : AbstractSet!Call(t, o)
<1> USE DEF Local
<1>1. set' = set
  BY NextHasEffect, SetStays DEF Starts
<1>2. op[t] = NONE
  BY DEF Starts, startOp, goto, Calls, CallOf
<1>3. PICK o \in Operation : /\ op' = [op EXCEPT ![t] = o]
                             /\ seen' = [seen EXCEPT ![t] = {o.key \in set}]
  BY DEF Starts, startOp
<1>4. answer' = answer
  BY DEF Starts, startOp
<1>5. AbstractSet!Call(t, o)
  BY <1>1, <1>2, <1>3, <1>4 DEF AbstractSet!Call
<1>6. QED BY <1>1, <1>5

(* Each step of an operation adds its key, removes it, or leaves the       *)
(* abstract set as it is; only search_return then fixes an answer.         *)
LEMMA SetSteps ==
  ASSUME Local, Retiring, NEW t \in Tid, step(t), ~end(t)
  PROVE  \/ AbstractSet!Add(t)
         \/ AbstractSet!Remove(t)
         \/ /\ set' = set /\ UNCHANGED <<op, seen>>
            /\ UNCHANGED answer \/ search_return(t, "walk") \/ search_return(t, "recheck")
<1> USE DEF Local
<1>1. CASE insert_link(t)
  <2>1. CASE Quiet /\ UNCHANGED <<answer, seen>>
    BY <1>1, <2>1, SetStays DEF insert_link
  <2>2. ASSUME NEW n \in Node, Links(t, n) PROVE AbstractSet!Add(t)
    <3>1. op[t].key \notin set /\ set' = set \union {op[t].key}
      BY <2>2, SetAdds
    <3>2. op[t] # NONE /\ op[t].kind = "insert" /\ answer[t] = NONE /\ op' = op
      BY <1>1 DEF insert_link, Calls, CallOf
    <3>3. takeEffect(t, TRUE)
      BY <1>1, <2>2 DEF insert_link, Links, holds
    <3>4. QED BY <3>1, <3>2, <3>3
              DEF takeEffect, decide, notice, AbstractSet!Add, AbstractSet!running, AbstractSet!notice
  <2>3. QED BY <1>1, <2>1, <2>2, LinkEffect
<1>2. CASE erase_mark(t)
  <2>1. CASE Quiet /\ UNCHANGED <<answer, seen>>
    BY <1>2, <2>1, SetStays DEF erase_mark
  <2>2. CASE Marks(t)
    <3>1. op[t].key \in set /\ set' = set \ {op[t].key}
      BY <2>2, SetRemoves
    <3>2. op[t] # NONE /\ op[t].kind = "erase" /\ answer[t] = NONE /\ op' = op
      BY <1>2 DEF erase_mark, Calls, CallOf
    <3>3. takeEffect(t, FALSE)
      <4>1. CASE holds(curr[t], nxt[t])
        BY <1>2, <4>1 DEF erase_mark
      <4>2. CASE ~holds(curr[t], nxt[t])
        <5>1. next' = next
          BY <1>2, <4>2 DEF erase_mark
        <5>2. next'[curr[t]].mark /\ ~next[curr[t]].mark
          BY <2>2, Fields, Typed DEF Marks
        <5>3. QED BY <5>1, <5>2
      <4>3. QED BY <4>1, <4>2
    <3>4. QED BY <3>1, <3>2, <3>3
              DEF takeEffect, decide, notice, AbstractSet!Remove, AbstractSet!running, AbstractSet!notice
  <2>3. QED BY <1>2, <2>1, <2>2, MarkEffect
<1>3. CASE search_unlink(t) \/ erase_unlink(t) \/ search_retire(t) \/ erase_retire(t)
  <2>1. \/ Quiet
        \/ \E p, c \in Node \union {Head, Tail} : Unlinks(p, c)
        \/ \E n \in Node : Retires(n)
    <3>1. ASSUME NEW p, NEW c, Unlinks(p, c)
          PROVE  \E q, d \in Node \union {Head, Tail} : Unlinks(q, d)
      BY <3>1 DEF Unlinks, LinkedNodes
    <3>2. QED BY <1>3, <3>1, SearchUnlinkEffect, EraseUnlinkEffect, RetireEffect
  <2>2. set' = set
    BY <2>1, SetStays
  <2>3. QED BY <1>3, <2>2 DEF search_unlink, erase_unlink, search_retire, erase_retire, call
<1>4. CASE \/ search_start(t) \/ search_walk(t) \/ search_adjacent(t) \/ search_recheck(t)
           \/ erase_loadSucc(t)
  <2>1. Quiet /\ UNCHANGED <<op, seen>>
    BY <1>4 DEF search_start, search_walk, search_adjacent, search_recheck, search_return,
                search_retry, erase_loadSucc, nodes, call, Quiet
  <2>2. UNCHANGED answer \/ search_return(t, "walk") \/ search_return(t, "recheck")
    BY <1>4 DEF search_start, search_walk, search_adjacent, search_recheck, search_retry,
                erase_loadSucc, call
  <2>3. QED BY <2>1, <2>2, SetStays
<1>5. QED BY <1>1, <1>2, <1>3, <1>4 DEF step

(* seen has every answer that was right since the call. *)
LEMMA SeenStep ==
  ASSUME Local, Retiring, Seen, Next
  PROVE  Seen'
<1> USE DEF Local
<1>1. ASSUME NEW t \in Tid, NEW o \in Operation, AbstractSet!Call(t, o), set' = set, NEW u \in Tid
      PROVE  SeenOf(u)'
  <2>1. /\ u # t => op'[u] = op[u] /\ seen'[u] = seen[u]
        /\ op'[t] = o /\ seen'[t] = {(o.key \in set)}
    BY <1>1 DEF AbstractSet!Call, TypeOK, ClientTypeOK
  <2>2. CASE u = t
    <3>1. /\ (o.key \in set) => TRUE \in {(o.key \in set)}
          /\ (o.key \notin set) => FALSE \in {(o.key \in set)}
      BY Present
    <3>2. QED BY <1>1, <2>1, <2>2, <3>1 DEF SeenOf
  <2>3. CASE u # t
    BY <1>1, <2>1, <2>3 DEF Seen, SeenOf
  <2>4. QED BY <2>2, <2>3
<1>2. ASSUME NEW t \in Tid, AbstractSet!Add(t), NEW u \in Tid PROVE SeenOf(u)'
  <2>1. /\ op' = op /\ set' = set \union {op[t].key}
        /\ seen'[u] = IF op[u] # NONE /\ op[u].key = op[t].key THEN seen[u] \union {TRUE}
                                                                ELSE seen[u]
    BY <1>2 DEF AbstractSet!Add, AbstractSet!notice
  <2>2. QED BY <2>1 DEF Seen, SeenOf
<1>3. ASSUME NEW t \in Tid, AbstractSet!Remove(t), NEW u \in Tid PROVE SeenOf(u)'
  <2>1. /\ op' = op /\ set' = set \ {op[t].key}
        /\ seen'[u] = IF op[u] # NONE /\ op[u].key = op[t].key THEN seen[u] \union {FALSE}
                                                                ELSE seen[u]
    BY <1>3 DEF AbstractSet!Remove, AbstractSet!notice
  <2>2. QED BY <2>1 DEF Seen, SeenOf
<1>4. ASSUME set' = set, UNCHANGED <<op, seen>>, NEW u \in Tid PROVE SeenOf(u)'
  BY <1>4 DEF Seen, SeenOf
<1>5. ASSUME NEW t \in Tid, end(t), NEW u \in Tid PROVE SeenOf(u)'
  <2>1. set' = set
    BY <1>5, NextHasEffect, SetStays
  <2>2. op'[t] = NONE /\ (u # t => op'[u] = op[u] /\ seen'[u] = seen[u])
    BY <1>5 DEF end, endOp, TypeOK, ClientTypeOK
  <2>3. QED BY <2>1, <2>2 DEF Seen, SeenOf
<1>6. ASSUME NEW t \in Tid, Moves(t), NEW u \in Tid PROVE SeenOf(u)'
  BY <1>1, <1>2, <1>3, <1>4, <1>5, <1>6, CallStep, SetSteps DEF Moves
<1>7. ASSUME NEW n \in Node, freeNode(n), NEW u \in Tid PROVE SeenOf(u)'
  <2>1. set' = set
    BY <1>7, NextHasEffect, SetStays
  <2>2. UNCHANGED <<op, seen>>
    BY <1>7 DEF freeNode, free, call
  <2>3. QED BY <1>4, <2>1, <2>2
<1>8. QED BY <1>6, <1>7, NextMoves DEF Seen

-------------------------------------------------------------------------------
(* Marks of linked nodes are old, or this step's. *)
LEMMA NewMark ==
  ASSUME Local, Retiring, Next, NEW n \in LinkedNodes', next'[n].mark,
         ~(n \in LinkedNodes /\ next[n].mark)
  PROVE  \E t \in Tid : pc[t] = "mark" /\ n = curr[t] /\ key[n] = op[t].key /\ key' = key
                        /\ ~Quiet /\ Moves(t)
<1> USE DEF Local
<1>1. LinkedNodes \subseteq Node
  BY Typed
<1>2. ASSUME NEW t \in Tid, EffectOf(t) PROVE Marks(t) /\ n = curr[t]
  <2>1. ~(Quiet \/ Begins(t) \/ Ends(t) \/ \E m \in Node : Retires(m))
    <3>1. SUFFICES ASSUME Quiet \/ Begins(t) \/ Ends(t) \/ \E m \in Node : Retires(m) PROVE FALSE
      OBVIOUS
    <3>2. LinkedNodes' = LinkedNodes /\ next' = next
      BY <3>1, LinkedAfter DEF Quiet, Begins, Retires, Ends
    <3>3. QED BY <3>2
  <2>2. ASSUME NEW m \in Node, Links(t, m) PROVE FALSE
    <3>1. LinkedNodes' = LinkedNodes \union {m}
      BY <2>2, LinkedAfter
    <3>2. ~next'[m].mark /\ \A x \in LinkedNodes : x # m /\ next'[x].mark => next[x].mark
      BY <1>1, <2>2, Fields, Typed DEF Links
    <3>3. QED BY <3>1, <3>2
  <2>3. ASSUME NEW p, NEW c, Unlinks(p, c) PROVE FALSE
    <3>1. LinkedNodes' \subseteq LinkedNodes
      BY <2>3, LinkedAfter
    <3>2. \A x \in LinkedNodes : next'[x].mark => next[x].mark
      BY <1>1, <2>3, Fields, Typed DEF Unlinks
    <3>3. QED BY <3>1, <3>2
  <2>4. Marks(t)
    BY <1>2, <2>1, <2>2, <2>3 DEF EffectOf
  <2>5. LinkedNodes' = LinkedNodes
    BY <2>4, LinkedAfter
  <2>6. n = curr[t]
    BY <1>1, <2>4, <2>5, Typed DEF Marks
  <2>7. QED BY <2>4, <2>6
<1>3. ASSUME NEW m \in Node, Frees(m) PROVE FALSE
  <2>1. LinkedNodes' = LinkedNodes /\ m \notin LinkedNodes
    BY <1>3, LinkedAfter
  <2>2. QED BY <1>1, <1>3, <2>1, Typed DEF Frees
<1>4. PICK t \in Tid : Moves(t)
  BY <1>3, NextHasEffect, NextMoves
<1>5. EffectOf(t)
  BY <1>4, NextHasEffect DEF Moves, Starts, EffectOf
<1>6. Marks(t) /\ n = curr[t]
  BY <1>2, <1>5
<1>7. ~Quiet
  BY <1>6, Fields, Typed DEF Quiet, Marks
<1>8. QED BY <1>4, <1>6, <1>7 DEF Marks

(* The call that has set the mark goes on to unlink the node. *)
LEMMA MarkerErases ==
  ASSUME Local, NEW t \in Tid, Moves(t), pc[t] = "mark", NEW n, n = curr[t], key[n] = op[t].key,
         key' = key, ~Quiet
  PROVE  Erases(t, n)'
<1> USE DEF Local
<1>0. Locals
  BY LocalsTyped
<1>1. erase_mark(t)
  BY DEF Moves, Starts, startOp, step, search_start, search_walk, search_adjacent, search_return,
         search_retry, search_unlink, search_retire, search_recheck, insert_link, erase_loadSucc,
         erase_unlink, erase_retire, end, endOp, goto
<1>2. holds(curr[t], nxt[t])
  BY <1>1 DEF erase_mark, nodes, Quiet
<1>3. /\ pc'[t] = "unlink" /\ curr' = curr /\ op' = op /\ answer'[t] = TRUE
  BY <1>0, <1>1, <1>2 DEF erase_mark, goto, takeEffect, decide, position, Locals
<1>4. op[t] # NONE /\ op[t].kind = "erase"
  BY DEF Calls, CallOf
<1>5. QED BY <1>3, <1>4 DEF Erases

(* From a node before n a search does not get past n. *)
LEMMA NextNotPast ==
  ASSUME Local, NEW t \in Tid, NEW m \in Node \union {Head}, Keeps(t, m), ~next[m].mark,
         NEW n \in LinkedNodes, key[n] = op[t].key, keyOf(m) < op[t].key
  PROVE  NotPast(t, next[m].ptr, n)
<1> USE DEF Local
<1>1. m \in LinkedNodes \union {Head}
  BY UnmarkedIsLinked
<1>2. /\ next[m].ptr \in LinkedNodes \union {Tail}
      /\ \A x \in LinkedNodes : keyOf(m) < keyOf(x) => keyOf(next[m].ptr) <= keyOf(x)
      /\ \A x, y \in LinkedNodes : key[x] = key[y] => x = y
  BY <1>1 DEF Chain
<1>3. \A x \in LinkedNodes : keyOf(x) = key[x] /\ keyOf(x) < KEY_MAX /\ keyOf(x) \in Nat
  BY LinkedKeys
<1>4. keyOf(next[m].ptr) <= op[t].key
  BY <1>2, <1>3
<1>5. next[m].ptr # Tail
  BY <1>3, <1>4, KeyOf, KeysAreNat
<1>6. QED BY <1>2, <1>3, <1>4, <1>5 DEF NotPast

(* While others move, the erase that answers for a mark stays where it is. *)
LEMMA EraserStays ==
  ASSUME Local, Retiring, Effect, NEW u \in Tid, Same(u),
         NEW n \in LinkedNodes, key'[n] = key[n], Erases(u, n)
  PROVE  Erases(u, n)'
<1> USE DEF Local
<1>1. /\ pc'[u] = pc[u] /\ op'[u] = op[u] /\ answer'[u] = answer[u] /\ curr'[u] = curr[u]
      /\ predNext'[u] = predNext[u] /\ nxt'[u] = nxt[u]
  BY DEF Same
<1>2. ASSUME pc[u] = "walk", NEW m \in Node \union {Tail}, Keeps(u, m), NotPast(u, m, n)
      PROVE  \A x : x = m => keyOf(x)' <= op[u].key /\ (keyOf(x)' = op[u].key => m = n)
  <2>1. u \in active /\ u \in active'
    BY <1>2, Hands DEF Same
  <2>2. keyOf(m)' = keyOf(m)
    BY <1>2, <2>1, KeepsOn
  <2>3. QED BY <1>2, <2>2 DEF NotPast
<1>3. ASSUME pc[u] = "walk"
      PROVE  /\ WalkOf(u) /\ Keeps(u, predNext[u]) /\ Keeps(u, nxt[u].ptr) /\ Keeps(u, curr[u])
             /\ curr[u] \in Node \union {Head, Tail}
             /\ keyOf(curr[u])' = keyOf(curr[u])
  <2>1. u \in active /\ u \in active' /\ curr[u] \in Node \union {Head, Tail}
    BY <1>3, Hands DEF Same
  <2>2. keyOf(curr[u])' = keyOf(curr[u])
    BY <1>1, <1>3, <2>1, HandStays DEF Same
  <2>3. QED BY <1>3, <2>1, <2>2, InHand DEF Searches, SearchOf
<1>4. ASSUME pc[u] = "walk", curr[u] # Head PROVE NotPast(u, predNext[u], n)'
  <2>1. predNext[u] \in Node \union {Tail} /\ NotPast(u, predNext[u], n)
    BY <1>3, <1>4 DEF Erases, WalkOf, FurtherOn
  <2>2. \A x : x = predNext[u] =>
            keyOf(x)' <= op[u].key /\ (keyOf(x)' = op[u].key => predNext[u] = n)
    BY <1>2, <1>3, <1>4, <2>1
  <2>3. keyOf(predNext[u])' <= op[u].key /\ (keyOf(predNext[u])' = op[u].key => predNext[u] = n)
    <3>1. \A x : x = predNext'[u] => keyOf(x)' = keyOf(predNext[u])'
      BY DEF keyOf
    <3>2. QED BY <1>1, <2>2, <3>1
  <2>4. QED BY <1>1, <2>3 DEF NotPast
<1>5. ASSUME pc[u] = "walk", curr[u] # Tail, ~nxt[u].mark, keyOf(curr[u]) < op[u].key
      PROVE  NotPast(u, nxt[u].ptr, n)'
  <2>1. nxt[u].ptr \in Node \union {Tail} /\ NotPast(u, nxt[u].ptr, n)
    BY <1>3, <1>5 DEF Erases, WalkOf
  <2>2. \A x : x = nxt[u].ptr =>
            keyOf(x)' <= op[u].key /\ (keyOf(x)' = op[u].key => nxt[u].ptr = n)
    BY <1>2, <1>3, <1>5, <2>1
  <2>3. keyOf(nxt[u].ptr)' <= op[u].key /\ (keyOf(nxt[u].ptr)' = op[u].key => nxt[u].ptr = n)
    <3>1. \A x : x = nxt'[u].ptr => keyOf(x)' = keyOf(nxt[u].ptr)'
      BY DEF keyOf
    <3>2. QED BY <1>1, <2>2, <3>1
  <2>4. QED BY <1>1, <2>3 DEF NotPast
<1>6. QED BY <1>1, <1>3, <1>4, <1>5 DEF Erases

(* Its own steps lead on to the node or start the search again, *)
LEMMA EraserMoves ==
  ASSUME Local, Retiring, Seen, NEW t \in Tid, step(t), NEW n \in LinkedNodes, n \in LinkedNodes',
         next[n].mark, key'[n] = key[n], Erases(t, n)
  PROVE  Erases(t, n)'
<1> USE DEF Local
<1>0. Locals
  BY LocalsTyped
<1>1. /\ op[t] # NONE /\ op[t].kind = "erase" /\ op[t].key = key[n] /\ answer[t] = TRUE
      /\ pc[t] \in {"search", "walk", "retire", "recheck", "unlink"}
      /\ pc[t] \in {"retire", "recheck", "unlink"} => curr[t] = n
  BY DEF Erases
<1>2. op[t].key \in Nat /\ n \in Node /\ keyOf(n) = key[n]
  BY <1>1, CallTyped, KeysAreNat, KeyOf DEF LinkedNodes
<1>3. ASSUME call' = call, pc'[t] = "search" PROVE Erases(t, n)'
  BY <1>1, <1>3 DEF call, Erases
<1>4. ASSUME call' = call, pc'[t] \in {"retire", "recheck"}, curr'[t] = n PROVE Erases(t, n)'
  BY <1>1, <1>4 DEF call, Erases
<1>5. ASSUME curr[t] = n, NEW from, search_return(t, from) \/ search_retry(t, from)
      PROVE  Erases(t, n)'
  <2>1. isMarked(curr[t])
    BY <1>2, <1>5, Sentinels DEF isMarked
  <2>2. search_retry(t, from)
    BY <1>5, <2>1 DEF search_return
  <2>3. QED BY <1>0, <1>3, <2>2 DEF search_retry, goto, Locals
<1>6. ASSUME NEW m \in Node \union {Head, Tail}, Keeps(t, m), m # Tail => nxt'[t] = next[m],
             curr'[t] = m, pc'[t] = "walk", Quiet, call' = call, m # Head => NotPast(t, predNext[t], n)'
      PROVE  Erases(t, n)'
  <2>1. ASSUME m # Tail, ~next[m].mark, keyOf(m) < op[t].key PROVE NotPast(t, next[m].ptr, n)
    BY <1>1, <1>6, <2>1, NextNotPast
  <2>2. \A x, y : /\ x = y => keyOf(x)' = keyOf(y)
                  /\ x = curr'[t] => keyOf(x)' = keyOf(curr[t])'
                  /\ x = nxt'[t].ptr => keyOf(x)' = keyOf(nxt[t].ptr)'
    BY <1>6 DEF Quiet, keyOf
  <2>3. op' = op
    BY <1>6 DEF call
  <2>4. ASSUME m # Tail, ~nxt'[t].mark, keyOf(curr[t])' < op[t].key PROVE NotPast(t, nxt[t].ptr, n)'
    <3>1. keyOf(curr[t])' = keyOf(m)
      BY <1>6, <2>2
    <3>2. NotPast(t, next[m].ptr, n)
      BY <1>6, <2>1, <2>4, <3>1
    <3>3. keyOf(nxt[t].ptr)' = keyOf(next[m].ptr) /\ nxt'[t].ptr = next[m].ptr
      BY <1>6, <2>2, <2>4
    <3>4. QED BY <2>3, <3>2, <3>3 DEF NotPast
  <2>5. QED BY <1>1, <1>6, <2>4 DEF call, Erases
<1>7. CASE search_start(t)
  <2>1. /\ pc'[t] = "walk" /\ curr'[t] = Head /\ nxt'[t] = next[Head] /\ Quiet /\ call' = call
    BY <1>0, <1>7 DEF search_start, goto, nodes, call, Quiet, Locals
  <2>2. Keeps(t, Head)
    BY Sentinels DEF Keeps
  <2>3. QED BY <1>6, <2>1, <2>2
<1>8. CASE search_walk(t)
  <2>1. /\ pc[t] = "walk" /\ pc'[t] = "walk" /\ WalkOf(t)
        /\ curr[t] \in Node \union {Head} /\ nxt[t] \in Field
        /\ nxt[t].ptr \in Node \union {Tail} /\ Keeps(t, nxt[t].ptr)
        /\ (~nxt[t].mark => keyOf(curr[t]) < op[t].key)
    BY <1>8, WalksFromNode
  <2>2. /\ curr'[t] = nxt[t].ptr /\ Quiet /\ call' = call
        /\ nxt'[t] = (IF nxt[t].ptr = Tail THEN pointTo(NULL) ELSE next[nxt[t].ptr])
        /\ predNext'[t] = IF nxt[t].mark THEN predNext[t] ELSE nxt[t].ptr
    BY <1>0, <1>8 DEF search_walk, nodes, call, Quiet, Locals
  <2>3. NotPast(t, predNext'[t], n)
    <3>1. CASE ~nxt[t].mark
      <4>1. predNext'[t] = nxt[t].ptr /\ curr[t] # Tail
        BY <2>1, <2>2, <3>1, Sentinels
      <4>2. NotPast(t, nxt[t].ptr, n)
        BY <2>1, <3>1, <4>1 DEF Erases
      <4>3. QED BY <4>1, <4>2
    <3>2. CASE nxt[t].mark
      <4>1. predNext'[t] = predNext[t] /\ next[curr[t]] = nxt[t]
        BY <2>1, <2>2, <3>2, Sentinels DEF WalkOf
      <4>2. curr[t] # Head
        BY <3>2, <4>1 DEF Nodes
      <4>3. NotPast(t, predNext[t], n)
        BY <2>1, <4>2 DEF Erases
      <4>4. QED BY <4>1, <4>3
    <3>3. QED BY <3>1, <3>2
  <2>4. NotPast(t, predNext[t], n)'
    <3>1. \A x : x = predNext'[t] => keyOf(predNext[t])' = keyOf(x)
      BY <2>2 DEF Quiet, keyOf
    <3>2. op' = op
      BY <2>2 DEF call
    <3>3. PICK x : x = predNext'[t]
      OBVIOUS
    <3>4. NotPast(t, x, n) /\ keyOf(predNext[t])' = keyOf(x)
      BY <2>3, <3>1, <3>3
    <3>5. QED BY <3>2, <3>3, <3>4 DEF NotPast
  <2>5. QED BY <1>6, <2>1, <2>2, <2>4
<1>9. CASE search_adjacent(t)
  <2>1. pc[t] = "walk" /\ ~goesOn(t) /\ predNext[t] = curr[t]
    BY <1>9 DEF search_adjacent
  <2>2. curr[t] \in Node \union {Tail} /\ op[t].key <= keyOf(curr[t])
    BY <2>1, WalkEnds
  <2>3. NotPast(t, curr[t], n)
    BY <2>1, <2>2, Sentinels DEF Erases
  <2>4. curr[t] = n
    <3>1. keyOf(curr[t]) \in Nat
      BY <2>2, KeysAreNat
    <3>2. QED BY <1>2, <2>2, <2>3, <3>1 DEF NotPast
  <2>5. QED BY <1>5, <1>9, <2>4 DEF search_adjacent
<1>10. CASE search_unlink(t)
  <2>1. pc[t] = "walk" /\ ~goesOn(t) /\ predNext[t] # curr[t] /\ curr' = curr /\ call' = call
    BY <1>10 DEF search_unlink, position
  <2>2. CASE ~holds(pred[t], pointTo(predNext[t]))
    <3>1. pc'[t] = "search"
      BY <1>0, <1>10, <2>2 DEF search_unlink, goto, Locals
    <3>2. QED BY <1>3, <2>1, <3>1
  <2>3. CASE holds(pred[t], pointTo(predNext[t]))
    <3>1. pc'[t] = "retire"
      BY <1>0, <1>10, <2>3 DEF search_unlink, goto, Locals
    <3>2. curr[t] \in LinkedNodes \union {Tail} /\ op[t].key <= keyOf(curr[t])
      BY <2>1, <2>3, ChainPassed, WalkEnds
    <3>3. Unlinks(pred[t], curr[t])
      BY <1>10, <2>3, SearchUnlinkEffect
    <3>4. n \notin inBetween(pred[t], curr[t])
      BY <3>3, LinkedAfter
    <3>5. keyOf(pred[t]) < op[t].key
      BY <2>1, Hands
    <3>6. keyOf(curr[t]) = op[t].key
      <4>1. ~(key[n] < keyOf(curr[t]))
        BY <1>1, <3>4, <3>5 DEF inBetween
      <4>2. keyOf(curr[t]) \in Nat
        BY <3>2, LinkedKeys
      <4>3. QED BY <1>1, <1>2, <3>2, <4>1, <4>2
    <3>7. curr[t] # Tail
      <4>1. op[t].key < KEY_MAX
        BY <1>1, LinkedKeys
      <4>2. QED BY <1>2, <3>6, <4>1, KeyOf, KeysAreNat
    <3>8. curr[t] = n
      BY <1>1, <1>2, <3>2, <3>6, <3>7, OneOfAKind
    <3>9. QED BY <1>4, <2>1, <3>1, <3>8
  <2>4. QED BY <2>2, <2>3
<1>11. CASE search_retire(t)
  <2>1. pc[t] = "retire" /\ pc'[t] \in {"retire", "recheck"} /\ curr' = curr /\ call' = call
    BY <1>0, <1>11 DEF search_retire, goto, position, Locals
  <2>2. QED BY <1>1, <1>4, <2>1
<1>12. CASE search_recheck(t)
  <2>1. pc[t] = "recheck"
    BY <1>12 DEF search_recheck, search_return, search_retry, goto
  <2>2. QED BY <1>1, <1>5, <1>12, <2>1 DEF search_recheck
<1>13. CASE erase_unlink(t)
  <2>1. pc[t] = "unlink" /\ curr[t] = n /\ call' = call
    BY <1>1, <1>13 DEF erase_unlink
  <2>2. ~holds(pred[t], pointTo(curr[t]))
    <3>1. SUFFICES ASSUME holds(pred[t], pointTo(curr[t])) PROVE FALSE
      OBVIOUS
    <3>2. Unlinks(pred[t], nxt[t].ptr) /\ n \in inBetween(pred[t], nxt[t].ptr)
      BY <1>13, <2>1, <3>1, EraseUnlinkEffect
    <3>3. QED BY <3>2, LinkedAfter
  <2>3. pc'[t] = "search"
    BY <1>0, <1>13, <2>2 DEF erase_unlink, goto, Locals
  <2>4. QED BY <1>3, <2>1, <2>3
<1>14. CASE insert_link(t) \/ erase_loadSucc(t) \/ erase_mark(t) \/ erase_retire(t) \/ end(t)
  BY <1>1, <1>14 DEF insert_link, erase_loadSucc, erase_mark, erase_retire, end, endOp, goto
<1>15. QED BY <1>7, <1>8, <1>9, <1>10, <1>11, <1>12, <1>13, <1>14 DEF step

(* so that every mark in the list has a call that answers for it. *)
LEMMA MarkedErasedStep ==
  ASSUME Local, Retiring, Seen, MarkedErased, Next
  PROVE  MarkedErased'
<1> USE DEF Local
<1>0. Effect
  BY NextHasEffect
<1>1. ASSUME NEW n \in LinkedNodes', next'[n].mark, n \in LinkedNodes, next[n].mark
      PROVE  \E u \in Tid : Erases(u, n)'
  <2>1. PICK u \in Tid : Erases(u, n)
    BY <1>1 DEF MarkedErased
  <2>2. key'[n] = key[n]
    BY <1>0, <1>1, LinkedStays, Typed, KeyOf
  <2>3. ASSUME Same(u) PROVE Erases(u, n)'
    BY <1>0, <1>1, <2>1, <2>2, <2>3, EraserStays
  <2>4. ASSUME Moves(u) PROVE Erases(u, n)'
    <3>1. ~Starts(u)
      BY <2>1 DEF Erases, Starts, startOp, goto
    <3>2. step(u)
      BY <2>4, <3>1 DEF Moves
    <3>3. QED BY <1>1, <2>1, <2>2, <3>2, EraserMoves
  <2>5. ASSUME NEW t \in Tid, Moves(t) PROVE Erases(u, n)'
    BY <2>3, <2>4, <2>5, OthersSame
  <2>6. ASSUME NEW m \in Node, freeNode(m) PROVE Erases(u, n)'
    BY <2>3, <2>6, OthersSame
  <2>7. QED BY <2>5, <2>6, NextMoves
<1>2. ASSUME NEW n \in LinkedNodes', next'[n].mark, ~(n \in LinkedNodes /\ next[n].mark)
      PROVE  \E u \in Tid : Erases(u, n)'
  <2>1. PICK t \in Tid : /\ pc[t] = "mark" /\ n = curr[t] /\ key[n] = op[t].key /\ key' = key
                         /\ ~Quiet /\ Moves(t)
    BY <1>2, NewMark
  <2>2. Erases(t, n)'
    BY <2>1, MarkerErases
  <2>3. QED BY <2>2
<1>3. QED BY <1>1, <1>2 DEF MarkedErased

-------------------------------------------------------------------------------
(* The list that nobody has used yet. *)
LEMMA InitIInv == Init => IInv
<1> SUFFICES ASSUME Init PROVE IInv
  OBVIOUS
<1> USE DEF Init, ClientInit
<1>1. LinkedNodes = {} /\ set = {} /\ next[Head] = pointTo(Tail)
  BY DEF LinkedNodes, set
<1>2. TypeOK
  <2>1. key \in [Node -> KEY_MIN .. KEY_MAX]
    BY KeysAreNat, SetClientAssumption DEF KEY_MIN, KEY_MAX
  <2>2. /\ status \in [Node -> {"free", "linked", "unlinked", "retired"}]
        /\ active \subseteq Tid /\ waiting \in [Node -> SUBSET active]
    OBVIOUS
  <2>3. /\ op \in [Tid -> Operation \union {NONE}] /\ answer \in [Tid -> BOOLEAN \union {NONE}]
        /\ seen \in [Tid -> SUBSET BOOLEAN]
    OBVIOUS
  <2>4. {pred, curr, predNext, cur} \subseteq [Tid -> Node \union {Head, Tail, NULL}]
    OBVIOUS
  <2>5. next \in [Node \union {Head} -> Field] /\ nxt \in [Tid -> Field]
    BY Fields
  <2>6. QED BY <2>1, <2>2, <2>3, <2>4, <2>5 DEF TypeOK, ClientTypeOK
<1>3. Calls
  BY DEF Calls, CallOf, Steps
<1>4. Nodes /\ Frozen
  BY Fields DEF Nodes, Frozen
<1>5. Chain
  <2>1. keyOf(Head) < keyOf(Tail)
    BY KeyOf, KeysAreNat, SetClientAssumption DEF KEY_MIN, KEY_MAX
  <2>2. next[Head].ptr = Tail
    BY <1>1, Fields
  <2>3. QED BY <1>1, <2>1, <2>2 DEF Chain
<1>6. Searches
  BY DEF Searches, SearchOf, Settled
<1>7. Retiring
  <2>1. Rests([t \in Tid |-> {}])
    BY DEF Rests, RestOf
  <2>2. QED BY <2>1 DEF Retiring
<1>8. Seen /\ MarkedErased
  BY <1>1 DEF Seen, SeenOf, MarkedErased
<1>9. QED BY <1>2, <1>3, <1>4, <1>5, <1>6, <1>7, <1>8 DEF IInv

(* Every step preserves the inductive invariant. *)
LEMMA IInvStep == IInv /\ [Next]_vars => IInv'
<1> SUFFICES ASSUME IInv, [Next]_vars PROVE IInv'
  OBVIOUS
<1>1. CASE Next
  <2>1. Local /\ Frozen /\ Retiring /\ Seen /\ MarkedErased
    BY DEF IInv, Local
  <2>2. Effect
    BY <1>1, <2>1, NextHasEffect
  <2>3. QED BY <1>1, <2>1, <2>2, TypeStep, CallsStep, NodesStep, ChainStep, FrozenStep, SearchesStep,
               RetiringStep, SeenStep, MarkedErasedStep DEF IInv
<1>2. CASE UNCHANGED vars
  <2> USE <1>2 DEF vars, clientVars
  <2>1. /\ LinkedNodes' = LinkedNodes /\ set' = set /\ \A n : keyOf(n)' = keyOf(n)
        /\ \A t, n : Keeps(t, n)' <=> Keeps(t, n)
    BY DEF LinkedNodes, set, keyOf, Keeps
  <2>2. TypeOK' /\ Calls' /\ Nodes'
    BY DEF IInv, TypeOK, ClientTypeOK, Calls, CallOf, Nodes
  <2>3. Chain' /\ Frozen'
    BY <2>1 DEF IInv, Chain, Frozen, keyOf, Keeps
  <2>4. Searches'
    <3>1. ASSUME NEW t \in Tid, Passed(t) PROVE Passed(t)'
      BY <2>1, <3>1 DEF Passed, keyOf
    <3>2. ASSUME NEW t \in Tid, FurtherOn(t) PROVE FurtherOn(t)'
      BY <3>1, <3>2 DEF FurtherOn, CanDeny, keyOf
    <3>3. ASSUME NEW t \in Tid, WalkOf(t) PROVE WalkOf(t)'
      BY <3>2, <3>3 DEF WalkOf, CanDeny, keyOf
    <3>4. ASSUME NEW t \in Tid, SearchOf(t) PROVE SearchOf(t)'
      BY <2>1, <3>3, <3>4 DEF SearchOf, Settled, pointers, CanDeny, keyOf
    <3>5. QED BY <3>4 DEF IInv, Searches
  <2>5. Retiring'
    BY DEF IInv, Retiring, Rests, RestOf, keyOf
  <2>6. Seen'
    <3>1. ASSUME NEW t \in Tid, SeenOf(t) PROVE SeenOf(t)'
      BY <2>1, <3>1 DEF SeenOf
    <3>2. QED BY <3>1 DEF IInv, Seen
  <2>7. MarkedErased'
    BY <2>1 DEF IInv, MarkedErased, Erases, NotPast, keyOf
  <2>8. QED BY <2>2, <2>3, <2>4, <2>5, <2>6, <2>7 DEF IInv
<1>3. QED BY <1>1, <1>2

(* The inductive invariant holds in every state that contains, doInsert,   *)
(* erase, list_search and the reclaimer's frees reach.                     *)
THEOREM Invariance == Spec => []IInv
BY InitIInv, IInvStep, PTL DEF Spec

(* Every variable holds what the code can store in it; in particular the   *)
(* search never goes past the sentinel at the end.                         *)
THEOREM TypeCorrect == Spec => []TypeOK
<1>1. IInv => TypeOK
  BY DEF IInv
<1>2. QED BY <1>1, Invariance, PTL

(* A search that walks along marked nodes, which others may have taken     *)
(* out, never reads memory that was freed, and neither does the loop that  *)
(* retires a chain.                                                        *)
THEOREM Safety == Spec => []NoUseAfterFree
<1>1. IInv => NoUseAfterFree
  <2>1. SUFFICES ASSUME IInv, NEW t \in active, NEW n \in pointers(t) \cap Node
                 PROVE  status[n] # "free"
    BY DEF NoUseAfterFree
  <2>2. t \in Tid /\ Keeps(t, n)
    BY <2>1 DEF IInv, TypeOK, ClientTypeOK, Searches, SearchOf
  <2>3. QED BY <2>1, <2>2, KeptNotFree DEF IInv
<1>2. QED BY <1>1, Invariance, PTL

(* The linked nodes are one list from Head to Tail, sorted, each node the  *)
(* successor of one other.                                                 *)
THEOREM OneSortedList == Spec => []Ordered
<1>1. IInv => Ordered
  <2>1. SUFFICES ASSUME IInv PROVE Ordered
    OBVIOUS
  <2>2. TypeOK /\ Nodes /\ Chain
    BY <2>1 DEF IInv
  <2>3. ASSUME NEW n \in LinkedNodes \union {Tail}
        PROVE  Cardinality({m \in LinkedNodes \union {Head} : next[m].ptr = n}) = 1
    <3>1. PICK p \in LinkedNodes \union {Head} : next[p].ptr = n
      BY <2>2 DEF Chain
    <3>2. {m \in LinkedNodes \union {Head} : next[m].ptr = n} = {p}
      BY <2>2, <3>1, OneOfAKind
    <3>3. QED BY <3>2, FS_Singleton
  <2>4. QED BY <2>2, <2>3 DEF Ordered, Chain
<1>2. QED BY <1>1, Invariance, PTL

(* No erase returns before its node is unlinked, by itself or by a search, *)
(* and whoever unlinks a chain retires all of it.                          *)
THEOREM NothingLeft == Spec => []Tidy
<1>1. IInv => Tidy
  <2>1. SUFFICES ASSUME IInv, \A t \in Tid : pc[t] = "idle"
                 PROVE  /\ \A n \in LinkedNodes : ~next[n].mark
                        /\ \A n \in Node : status[n] # "unlinked"
    BY DEF Tidy
  <2>2. \A n \in LinkedNodes : ~next[n].mark
    BY <2>1 DEF IInv, MarkedErased, Erases
  <2>3. \A n \in Node : status[n] # "unlinked"
    BY <2>1 DEF IInv, Retiring, Rests, RestOf
  <2>4. QED BY <2>2, <2>3
<1>2. QED BY <1>1, Invariance, PTL

-------------------------------------------------------------------------------
(* What a search answers was right at some moment since the call: a key    *)
(* that it passes over was absent, and a node that it finds without a mark *)
(* is in the list. *)
LEMMA SearchAnswers ==
  ASSUME Local, Seen, NEW t \in Tid, NEW from \in {"walk", "recheck"}, search_return(t, from),
         from = "walk" => ~goesOn(t) /\ predNext[t] = curr[t]
  PROVE  AbstractSet!Answer(t) \/ UNCHANGED AbstractSet!vars
<1> USE DEF Local
<1>1. set' = set /\ UNCHANGED <<op, seen>>
  BY SetStays DEF search_return, nodes, Quiet
<1>2. pc[t] = from /\ ~isMarked(curr[t])
  BY DEF search_return
<1>3. /\ op[t] # NONE /\ op[t].key \in Key
      /\ curr[t] \in Node \union {Tail} /\ Keeps(t, curr[t]) /\ keyOf(curr[t]) \in Nat
      /\ op[t].key <= keyOf(curr[t])
      /\ op[t].key < keyOf(curr[t]) => FALSE \in seen[t]
  <2>1. CASE from = "walk"
    BY <1>2, <2>1, Hands, WalkEnds DEF CanDeny
  <2>2. CASE from = "recheck"
    BY <1>2, <2>2, Hands DEF Settled, Searches, SearchOf, CanDeny
  <2>3. QED BY <2>1, <2>2
<1> DEFINE found == keyOf(curr[t]) = op[t].key
<1>4. ~found => FALSE \in seen[t]
  <2>1. op[t].key \in Nat
    BY <1>3, KeysAreNat
  <2>2. keyOf(curr[t]) # op[t].key => op[t].key < keyOf(curr[t])
    BY <1>3, <2>1
  <2>3. QED BY <1>3, <2>2
<1>5. ASSUME found PROVE TRUE \in seen[t]
  <2>1. curr[t] \in Node
    BY <1>3, <1>5, KeysAreNat, KeyOf
  <2>2. curr[t] \in LinkedNodes /\ ~next[curr[t]].mark
    BY <1>2, <1>3, <2>1, UnmarkedIsLinked, Sentinels DEF isMarked
  <2>3. op[t].key \in set
    BY <1>5, <2>1, <2>2, KeyOf, InSet
  <2>4. QED BY <1>3, <2>3 DEF Seen, SeenOf
<1>6. ASSUME NEW b \in BOOLEAN, b <=> is(t, "contains") /\ found, decide(t, b), answer[t] = NONE,
             is(t, "contains") \/ (is(t, "insert") /\ found) \/ (is(t, "erase") /\ ~found)
      PROVE  AbstractSet!Answer(t)
  <2>1. answer' = [answer EXCEPT ![t] = b]
    BY <1>6 DEF decide
  <2>2. CASE is(t, "contains")
    <3>1. b \in seen[t]
      BY <1>4, <1>5, <1>6, <2>2, Zenon
    <3>2. QED BY <1>1, <1>3, <1>6, <2>1, <2>2, <3>1 DEF is, AbstractSet!Answer, AbstractSet!running
  <2>3. CASE is(t, "insert") /\ found
    <3>1. b = FALSE
      BY <1>6, <2>3 DEF is
    <3>2. TRUE \in seen[t]
      BY <1>5, <2>3
    <3>3. QED BY <1>1, <1>3, <1>6, <2>1, <2>3, <3>1, <3>2
              DEF is, AbstractSet!Answer, AbstractSet!running
  <2>4. CASE is(t, "erase") /\ ~found
    <3>1. b = FALSE
      BY <1>6, <2>4
    <3>2. FALSE \in seen[t]
      BY <1>4, <2>4
    <3>3. QED BY <1>1, <1>3, <1>6, <2>1, <2>4, <3>1, <3>2
              DEF is, AbstractSet!Answer, AbstractSet!running
  <2>5. QED BY <1>6, <2>2, <2>3, <2>4
<1>7. (is(t, "contains") /\ found) \in BOOLEAN
  OBVIOUS
<1>8. ASSUME answer[t] = NONE, decide(t, is(t, "contains") /\ found),
             is(t, "contains") \/ (is(t, "insert") /\ found) \/ (is(t, "erase") /\ ~found)
      PROVE  AbstractSet!Answer(t)
  BY <1>6, <1>7, <1>8, Zenon
<1>9. ASSUME UNCHANGED answer PROVE UNCHANGED AbstractSet!vars
  BY <1>1, <1>9 DEF AbstractSet!vars
<1>10. QED BY <1>8, <1>9 DEF search_return

(* The list implements a linearizable set: a link adds, a mark removes,    *)
(* and every other answer was right at some moment of its operation.       *)
THEOREM ImplementsSet == Spec => Linearizable
<1>1. Init => AbstractSet!Init
  BY DEF Init, ClientInit, AbstractSet!Init, set, LinkedNodes
<1>2. ASSUME IInv, [Next]_vars
      PROVE  AbstractSet!Next \/ UNCHANGED AbstractSet!vars
  <2>1. Local /\ Retiring /\ Seen
    BY <1>2 DEF IInv, Local
  <2>2. ASSUME NEW t \in Tid, Starts(t) PROVE AbstractSet!Next
    <3>1. \E o \in AbstractSet!Operation : AbstractSet!Call(t, o)
      BY <2>1, <2>2, CallStep DEF Operation, AbstractSet!Operation
    <3>2. QED BY <3>1 DEF AbstractSet!Next
  <2>3. ASSUME NEW t \in Tid, step(t), ~end(t) PROVE AbstractSet!Next \/ UNCHANGED AbstractSet!vars
    <3>1. \/ AbstractSet!Add(t) \/ AbstractSet!Remove(t) \/ UNCHANGED AbstractSet!vars
          \/ search_return(t, "walk") \/ search_return(t, "recheck")
      BY <2>1, <2>3, SetSteps DEF AbstractSet!vars
    <3>2. search_return(t, "recheck") => AbstractSet!Answer(t) \/ UNCHANGED AbstractSet!vars
      BY <2>1, SearchAnswers
    <3>3. ASSUME search_return(t, "walk"), ~UNCHANGED AbstractSet!vars PROVE AbstractSet!Answer(t)
      <4>1. pc[t] = "walk" /\ set' = set /\ UNCHANGED <<op, seen>>
        BY <2>1, <3>3, SetStays DEF search_return, nodes, Quiet
      <4>2. ~UNCHANGED answer
        BY <3>3, <4>1 DEF AbstractSet!vars
      <4>3. search_adjacent(t)
        BY <2>3, <4>1, <4>2
        DEF step, search_start, search_walk, search_unlink, search_retire, search_recheck,
            search_return, search_retry, insert_link, erase_loadSucc, erase_mark, erase_unlink,
            erase_retire, goto, call
      <4>4. QED BY <2>1, <3>3, <4>3, SearchAnswers DEF search_adjacent
    <3>4. QED BY <3>1, <3>2, <3>3 DEF AbstractSet!Next
  <2>4. ASSUME NEW t \in Tid, end(t) PROVE AbstractSet!Next
    <3>1. set' = set
      BY <2>1, <2>4, NextHasEffect, SetStays
    <3>2. answer[t] # NONE
      BY <2>1, <2>4 DEF end, endOp, goto, Local, Calls, CallOf
    <3>3. AbstractSet!Return(t)
      BY <2>4, <3>1, <3>2 DEF end, endOp, AbstractSet!Return
    <3>4. QED BY <3>3 DEF AbstractSet!Next
  <2>5. ASSUME NEW n \in Node, freeNode(n) PROVE UNCHANGED AbstractSet!vars
    <3>1. set' = set
      BY <2>1, <2>5, NextHasEffect, SetStays
    <3>2. QED BY <2>5, <3>1 DEF freeNode, free, call, AbstractSet!vars
  <2>6. CASE UNCHANGED vars
    BY <2>6 DEF vars, clientVars, AbstractSet!vars, set, LinkedNodes
  <2>7. QED BY <1>2, <2>2, <2>3, <2>4, <2>5, <2>6, NextMoves DEF Moves
<1>3. QED BY <1>1, <1>2, Invariance, PTL DEF Spec, Linearizable, AbstractSet!Spec

(* And it is a client the reclaimer may trust: each node of a chain that   *)
(* is cut out is unlinked once and retired once, after that, and not used  *)
(* once its waiting set is empty.                                          *)
THEOREM KeepsContract == Spec => Reclamation
<1>1. Init => Contract!Init
  BY DEF Init, ClientInit, Contract!Init
<1>2. ASSUME IInv, [Next]_vars
      PROVE  Contract!Next \/ UNCHANGED Contract!vars
  <2> USE DEF Contract!Next, Contract!move
  <2>0. TypeOK
    BY <1>2 DEF IInv
  <2>1. ASSUME NEW t \in Tid, Begins(t) PROVE Contract!Next
    BY <2>1 DEF Begins, Contract!StartOp
  <2>2. ASSUME NEW t \in Tid, Ends(t) PROVE Contract!Next
    BY <2>2 DEF Ends, Contract!EndOp
  <2>3. ASSUME NEW p, NEW c, Unlinks(p, c) PROVE Contract!Next
    <3>1. Contract!Unlink(inBetween(p, c)) /\ inBetween(p, c) \in SUBSET Node
      BY <2>3 DEF Unlinks, inBetween, LinkedNodes, Contract!Unlink
    <3>2. QED BY <3>1
  <2>4. ASSUME NEW t \in Tid, NEW n \in Node, Links(t, n) PROVE Contract!Next
    <3>1. Contract!Link({n}) /\ {n} \in SUBSET Node
      BY <2>0, <2>4 DEF Links, TypeOK, ClientTypeOK, Contract!Link
    <3>2. QED BY <3>1
  <2>5. ASSUME NEW n \in Node, Retires(n) PROVE Contract!Next
    <3>1. Contract!Retire(n)
      BY <2>0, <2>5 DEF Retires, TypeOK, ClientTypeOK, Contract!Retire
    <3>2. QED BY <3>1
  <2>6. ASSUME NEW n \in Node, Frees(n) PROVE Contract!Next
    <3>1. Contract!Free(n)
      BY <2>0, <2>6 DEF Frees, TypeOK, ClientTypeOK, Contract!Free
    <3>2. QED BY <3>1
  <2>7. ASSUME NEW t \in Tid, Quiet \/ Marks(t) PROVE UNCHANGED Contract!vars
    BY <2>7 DEF Quiet, Marks, Contract!vars
  <2>8. CASE Next
    <3>1. Effect
      BY <1>2, <2>8, NextHasEffect DEF IInv, Local
    <3>2. QED BY <2>1, <2>2, <2>3, <2>4, <2>5, <2>6, <2>7, <3>1 DEF Effect, EffectOf
  <2>9. CASE UNCHANGED vars
    BY <2>9 DEF vars, clientVars, Contract!vars
  <2>10. QED BY <1>2, <2>8, <2>9
<1>3. QED BY <1>1, <1>2, Invariance, PTL DEF Spec, Reclamation, Contract!Spec
================================================================================
