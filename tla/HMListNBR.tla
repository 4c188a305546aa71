------------------------------ MODULE HMListNBR ------------------------------
(***************************************************************************)
(* Michael's list over NBR+, hmlist_nzb_impl.h on top of                   *)
(* reclaimer_nbrplus.h, as the difference to HMList: each search is a read *)
(* phase, from which a signal throws it back to its start, and ends by     *)
(* saving three records for the write phase that follows.                  *)
(*                                                                         *)
(* Sending the signals and collecting what others have saved, which take a *)
(* step per thread in NBRPlus, are one step here: fewer behaviours than    *)
(* the program has.                                                        *)
(***************************************************************************)
EXTENDS HMList

VARIABLES
    restartable,    \* per thread, whether it is in a read phase
    saved,          \* per thread, proposedHzptrs
    bag,            \* per thread, retiredBag
    at              \* per thread, how far it is in the end of its search

nbr == <<restartable, saved, bag, at>>
nbrVars == <<vars, nbr>>

NBRInit ==
    /\ Init
    /\ restartable = [t \in Tid |-> FALSE]
    /\ saved = [t \in Tid |-> {}]
    /\ bag = [t \in Tid |-> {}]
    /\ at = [t \in Tid |-> "check"]

-------------------------------------------------------------------------------
(* CHECKPOINT_TR; startOp(tid); and the first load. *)
readPhase_start(t) ==
    /\ search_start(t)
    /\ restartable' = [restartable EXCEPT ![t] = TRUE]
    /\ saved' = [saved EXCEPT ![t] = {}]
    /\ UNCHANGED <<bag, at>>

read_load(t) == search_load(t) /\ UNCHANGED nbr

(* A search that starts over calls endOp first. *)
read_reload(t) ==
    /\ search_reload(t)
    /\ restartable' = [restartable EXCEPT ![t] = pc'[t] = "check"]
    /\ UNCHANGED <<saved, bag, at>>

(* prev is loaded again.  The search goes on with the next node, starts    *)
(* over, or has come to its end or to a marked node.                       *)
read_check(t) ==
    /\ pc[t] = "check" /\ at[t] = "check"
    /\ \/ /\ ~holds(prev[t], pointTo(curr[t]))
          /\ goto(t, "check", "search")
          /\ restartable' = [restartable EXCEPT ![t] = FALSE]
          /\ UNCHANGED <<search, at>>
       \/ /\ holds(prev[t], pointTo(curr[t]))
          /\ ~cmark[t] /\ keyOf(curr[t]) < op[t].key
          /\ goto(t, "check", "load")
          /\ prev' = [prev EXCEPT ![t] = curr[t]]
          /\ curr' = [curr EXCEPT ![t] = nxt[t]]
          /\ UNCHANGED <<nxt, cmark, restartable, at>>
       \/ /\ holds(prev[t], pointTo(curr[t]))
          /\ cmark[t] \/ keyOf(curr[t]) >= op[t].key
          /\ at' = [at EXCEPT ![t] = "save"]
          /\ UNCHANGED <<pc, search, restartable>>
    /\ UNCHANGED <<list, reclaimer, call, seen, saved, bag>>

(* saveForWritePhase, three times: of prev->load(), of curr and of nxt. *)
saveForWritePhase(t) ==
    /\ at[t] = "save"
    /\ saved' = [saved EXCEPT ![t] = {next[prev[t]].ptr, curr[t], nxt[t]}]
    /\ at' = [at EXCEPT ![t] = "upgrade"]
    /\ UNCHANGED <<vars, restartable, bag>>

upgradeToWritePhase(t) ==
    /\ at[t] = "upgrade"
    /\ \/ /\ cmark[t] /\ goto(t, "check", "unlink") /\ UNCHANGED <<answer, newNode>>
       \/ ~cmark[t] /\ search_return(t, keyOf(curr[t]) = op[t].key)
    /\ restartable' = [restartable EXCEPT ![t] = FALSE]
    /\ at' = [at EXCEPT ![t] = "check"]
    /\ UNCHANGED <<list, reclaimer, op, seen, search, saved, bag>>

(* A search that has unlinked a node retires it and starts over. *)
read_retire(t) ==
    /\ goto(t, "retire", "search")
    /\ status' = [status EXCEPT ![curr[t]] = "retired"]
    /\ bag' = [bag EXCEPT ![t] = @ \union {curr[t]}]
    /\ UNCHANGED <<next, key, reclaimer, call, seen, search, restartable, saved, at>>

write_retire(t) ==
    /\ erase_retire(t)
    /\ bag' = [bag EXCEPT ![t] = @ \union {curr[t]}]
    /\ UNCHANGED <<restartable, saved, at>>

(* The other steps of the write phase are HMList's. *)
write(t) ==
    /\ \/ startOp(t) \/ search_unlink(t) \/ insert_link(t) \/ erase_mark(t)
       \/ erase_unlink(t) \/ endOp(t) \/ insert_readVal(t)
    /\ UNCHANGED nbr

(* retire finds the bag full, before it adds to it: threads in their read  *)
(* phase start over, and what nobody has saved is freed.                   *)
Restarted == {u \in Tid : restartable[u]}

reclaim(t) ==
    /\ pc[t] \in {"retire", "eraseRetire"}
    /\ LET freed == bag[t] \ UNION {saved[u] : u \in Tid} IN
          /\ freed # {}
          /\ bag' = [bag EXCEPT ![t] = @ \ freed]
          /\ status' = [n \in Node |-> IF n \in freed THEN "free" ELSE status[n]]
          /\ next' = [n \in DOMAIN next |-> IF n \in freed THEN pointTo(NULL) ELSE next[n]]
          /\ key' = [n \in Node |-> IF n \in freed THEN KEY_MIN ELSE key[n]]
    /\ pc' = [u \in Tid |-> IF u \in Restarted THEN "search" ELSE pc[u]]
    /\ at' = [u \in Tid |-> IF u \in Restarted THEN "check" ELSE at[u]]
    /\ restartable' = [u \in Tid |-> FALSE]
    /\ UNCHANGED <<reclaimer, call, seen, search, saved>>

NBRNext ==
    \E t \in Tid :
        \/ readPhase_start(t) \/ read_load(t) \/ read_reload(t) \/ read_check(t)
        \/ saveForWritePhase(t) \/ upgradeToWritePhase(t)
        \/ read_retire(t) \/ write_retire(t) \/ write(t) \/ reclaim(t)

NBRSpec == NBRInit /\ [][NBRNext]_nbrVars

-------------------------------------------------------------------------------
(* The nodes whose fields a thread changes in its write phase. *)
written(t) ==
    CASE pc[t] \in {"unlink", "link", "eraseUnlink"} -> {prev[t]}
      [] pc[t] = "mark" -> {curr[t]}
      [] OTHER -> {}

(* saveForWritePhase "ensures that when I am in write phase possibly       *)
(* dereferencing these pointers no other thread could reclaim/free these   *)
(* records": the nodes whose fields the write phase changes are allocated. *)
WritePhaseProtected == \A t \in Tid : \A n \in written(t) \cap Node : status[n] # "free"
=============================================================================
