---------------------------- MODULE EpochReclaimer ----------------------------
(***************************************************************************)
(* Epoch based reclamation, reclaimer_ibr_rcu.h.  Every load and store of  *)
(* shared memory is a step of its own: startOp reads the epoch and only    *)
(* later publishes it, retire reads the epoch after the record was         *)
(* unlinked, empty reads the reservations one thread after the other.      *)
(***************************************************************************)
EXTENDS LinkedRecords

CONSTANTS
    EmptyFreq,      \* empty_freq: retires between two calls of empty
    EpochFreq,      \* epoch_freq: allocations per thread and epoch
    MaxEpoch        \* BOUND: the epoch is not advanced beyond it

ASSUME EpochReclaimerAssumption ==
    /\ EmptyFreq \in Nat \ {0}
    /\ EpochFreq \in Nat \ {0}
    /\ MaxEpoch \in Nat

(* The reservation of a thread outside any operation: an epoch the counter *)
(* never reaches.                                                          *)
UINT64_MAX == MaxEpoch + 1

VARIABLES
    epoch,              \* the global epoch
    reservations,       \* per thread, the epoch it announced in startOp
    retired,            \* per thread, its list of RCUInfo
    retire_counters,    \* per thread, modulo EmptyFreq: its only use
    alloc_counters,     \* per thread, modulo EpochFreq * NumProcess: its only use
    pc,                 \* per thread, the step it takes next
    e,                  \* local of startOp and retire: the epoch just loaded
    obj,                \* argument of retire
    i, minEpoch,        \* locals of empty
    waiting             \* per record, the operations running when it was unlinked

reclaimer == <<epoch, reservations, retired, retire_counters, alloc_counters>>
locals == <<e, obj, i, minEpoch>>
vars == <<cell, pool, epoch, reservations, retired, retire_counters,
          alloc_counters, pc, e, obj, i, minEpoch, waiting>>

Epoch == 0 .. MaxEpoch
RCUInfo == [obj : Node, epoch : Epoch]
AllocPeriod == EpochFreq * NumProcess

Init ==
    /\ RecordsInit
    /\ epoch = 0
    /\ reservations = [t \in Tid |-> UINT64_MAX]
    /\ retired = [t \in Tid |-> {}]
    /\ retire_counters = [t \in Tid |-> 0]
    /\ alloc_counters = [t \in Tid |-> 0]
    /\ pc = [t \in Tid |-> "idle"]
    /\ e = [t \in Tid |-> 0]
    /\ obj = [t \in Tid |-> NULL]
    /\ i = [t \in Tid |-> 0]
    /\ minEpoch = [t \in Tid |-> UINT64_MAX]
    /\ waiting = [n \in Node |-> {}]

(* The threads between startOp and endOp. *)
active == {t \in Tid : pc[t] \notin {"idle", "reserve", "quiesce"}}

goto(t, from, to) == pc[t] = from /\ pc' = [pc EXCEPT ![t] = to]

-------------------------------------------------------------------------------
(* Wrong versions of steps below, which the properties must tell from the  *)
(* right ones.                                                             *)

(* frees what was retired in the oldest announced epoch, too *)
freeableSameEpoch(t, res) == res.epoch <= minEpoch[t]

(* counts on when the period is over *)
updateAllocCounterOnly(t) ==
    /\ goto(t, "op", "link")
    /\ alloc_counters' = [alloc_counters EXCEPT ![t] = @ + 1]
    /\ IF alloc_counters[t] > AllocPeriod
       THEN epoch < MaxEpoch /\ epoch' = epoch + 1
       ELSE UNCHANGED epoch
    /\ UNCHANGED <<records, reservations, retired, retire_counters, locals, waiting>>

(* stamps the record with the epoch the retiring thread announced *)
retire_loadReservation(t) ==
    /\ goto(t, "retire", "push")
    /\ e' = [e EXCEPT ![t] = reservations[t]]
    /\ UNCHANGED <<records, reclaimer, obj, i, minEpoch, waiting>>

(* leaves out the last thread *)
empty_scanTooShort(t) ==
    /\ minEpoch' = [minEpoch EXCEPT
                      ![t] = IF reservations[i[t]] < @ THEN reservations[i[t]] ELSE @]
    /\ IF i[t] + 2 < NumProcess
       THEN pc[t] = "scan" /\ UNCHANGED pc /\ i' = [i EXCEPT ![t] = @ + 1]
       ELSE goto(t, "scan", "sweep") /\ i' = [i EXCEPT ![t] = 0]
    /\ UNCHANGED <<records, reclaimer, e, obj, waiting>>

(* adds to the pool and forgets to erase from the list *)
empty_freeNoErase(t) ==
    /\ pc[t] = "sweep"
    /\ \E res \in retired[t] : res.epoch < minEpoch[t] /\ poolAdd(res.obj)
    /\ UNCHANGED <<reclaimer, pc, locals, waiting>>

(* goes on only from a list it could free completely *)
empty_returnNoAdvance(t) ==
    /\ pc[t] = "sweep"
    /\ \A res \in retired[t] : res.epoch >= minEpoch[t]
    /\ IF retired[t] = {}
       THEN goto(t, "sweep", "op") /\ minEpoch' = [minEpoch EXCEPT ![t] = UINT64_MAX]
       ELSE UNCHANGED <<pc, minEpoch>>
    /\ UNCHANGED <<records, reclaimer, e, obj, i, waiting>>

-------------------------------------------------------------------------------
(* startOp: load the epoch ... *)
startOp_load(t) ==
    /\ goto(t, "idle", "reserve")
    /\ e' = [e EXCEPT ![t] = epoch]
    /\ UNCHANGED <<records, reclaimer, obj, i, minEpoch, waiting>>

(* ... and publish it.  The store is sequentially consistent and a full   *)
(* fence follows, so nothing of the operation is read before it.          *)
startOp_store(t) ==
    /\ goto(t, "reserve", "op")
    /\ reservations' = [reservations EXCEPT ![t] = e[t]]
    /\ e' = [e EXCEPT ![t] = 0]
    /\ UNCHANGED <<records, epoch, retired, retire_counters, alloc_counters,
                   obj, i, minEpoch, waiting>>

endOp(t) ==
    /\ goto(t, "op", "idle")
    /\ reservations' = [reservations EXCEPT ![t] = UINT64_MAX]
    /\ waiting' = [n \in Node |-> waiting[n] \ {t}]
    /\ UNCHANGED <<records, epoch, retired, retire_counters, alloc_counters, locals>>

(* Before each attempt to link a record. *)
updateAllocCounterAndEpoch(t) ==
    /\ goto(t, "op", "link")
    /\ LET count == (alloc_counters[t] + 1) % AllocPeriod IN
          /\ alloc_counters' = [alloc_counters EXCEPT ![t] = count]
          /\ IF count = 0
             THEN epoch < MaxEpoch /\ epoch' = epoch + 1
             ELSE UNCHANGED epoch
    /\ UNCHANGED <<records, reservations, retired, retire_counters, locals, waiting>>

(* The attempt succeeds, or fails because the link has changed (or, BOUND, *)
(* because all of Node is in use: the program has memory to spare).        *)
insert(t, c) ==
    /\ goto(t, "link", "op")
    /\ \/ link(c)
       \/ (cell[c] # NULL \/ pool = {}) /\ UNCHANGED records
    /\ UNCHANGED <<reclaimer, locals, waiting>>

(* erase unlinks a record and calls retire.  Every operation that runs at  *)
(* this time may have a pointer to the record, or come by one through a    *)
(* record unlinked before, and may use it until its endOp.                 *)
erase(t, c) ==
    /\ goto(t, "op", "retire")
    /\ cell[c] # NULL
    /\ unlink(c, cell[c])
    /\ obj' = [obj EXCEPT ![t] = cell[c]]
    /\ waiting' = [waiting EXCEPT ![cell[c]] = active]
    /\ UNCHANGED <<reclaimer, e, i, minEpoch>>

-------------------------------------------------------------------------------
retire_load(t) ==
    /\ goto(t, "retire", "push")
    /\ e' = [e EXCEPT ![t] = epoch]
    /\ UNCHANGED <<records, reclaimer, obj, i, minEpoch, waiting>>

retire_push(t) ==
    /\ retired' = [retired EXCEPT ![t] = @ \union {[obj |-> obj[t], epoch |-> e[t]]}]
    /\ LET count == (retire_counters[t] + 1) % EmptyFreq IN
          /\ retire_counters' = [retire_counters EXCEPT ![t] = count]
          /\ goto(t, "push", IF count = 0 THEN "scan" ELSE "op")
    /\ e' = [e EXCEPT ![t] = 0]
    /\ obj' = [obj EXCEPT ![t] = NULL]
    /\ UNCHANGED <<records, epoch, reservations, alloc_counters, i, minEpoch, waiting>>

(* empty, first loop: the minimum over the reservations, one load a step. *)
empty_scan(t) ==
    /\ minEpoch' = [minEpoch EXCEPT
                      ![t] = IF reservations[i[t]] < @ THEN reservations[i[t]] ELSE @]
    /\ IF i[t] + 1 < NumProcess
       THEN pc[t] = "scan" /\ UNCHANGED pc /\ i' = [i EXCEPT ![t] = @ + 1]
       ELSE goto(t, "scan", "sweep") /\ i' = [i EXCEPT ![t] = 0]
    /\ UNCHANGED <<records, reclaimer, e, obj, waiting>>

(* empty, second loop: free what was retired before that minimum. *)
freeable(t, res) == res.epoch < minEpoch[t]

empty_free(t) ==
    /\ pc[t] = "sweep"
    /\ \E res \in retired[t] :
          /\ freeable(t, res)
          /\ retired' = [retired EXCEPT ![t] = @ \ {res}]
          /\ poolAdd(res.obj)
    /\ UNCHANGED <<epoch, reservations, retire_counters, alloc_counters, pc, locals, waiting>>

empty_return(t) ==
    /\ goto(t, "sweep", "op")
    /\ \A res \in retired[t] : ~freeable(t, res)
    /\ minEpoch' = [minEpoch EXCEPT ![t] = UINT64_MAX]
    /\ UNCHANGED <<records, reclaimer, e, obj, i, waiting>>

-------------------------------------------------------------------------------
retire(t) ==
    \/ retire_load(t) \/ retire_push(t)
    \/ empty_scan(t) \/ empty_free(t) \/ empty_return(t)

client(t) ==
    \/ startOp_load(t) \/ startOp_store(t) \/ endOp(t)
    \/ updateAllocCounterAndEpoch(t)
    \/ \E c \in Cell : insert(t, c) \/ erase(t, c)

Next == \E t \in Tid : client(t) \/ retire(t)

Spec == Init /\ [][Next]_vars

(* retire and empty call nothing that waits: a thread inside them that is  *)
(* scheduled goes on.  Nothing is assumed of a thread between operations,  *)
(* or of how long an operation takes.                                      *)
FairSpec == Spec /\ \A t \in Tid : WF_vars(retire(t))

-------------------------------------------------------------------------------
(* Every variable holds what the code can store in it. *)
TypeOK ==
    /\ RecordsTypeOK
    /\ epoch \in Epoch
    /\ reservations \in [Tid -> Epoch \union {UINT64_MAX}]
    /\ retired \in [Tid -> SUBSET RCUInfo]
    /\ retire_counters \in [Tid -> 0 .. EmptyFreq - 1]
    /\ alloc_counters \in [Tid -> 0 .. AllocPeriod - 1]
    /\ pc \in [Tid -> {"idle", "reserve", "op", "link", "retire", "push", "scan", "sweep",
                       "quiesce"}]      \* a step of QuiescentReclaimer
    /\ e \in [Tid -> Epoch]
    /\ obj \in [Tid -> Node \union {NULL}]
    /\ i \in [Tid -> 0 .. NumProcess - 1]
    /\ minEpoch \in [Tid -> Epoch \union {UINT64_MAX}]
    /\ waiting \in [Node -> SUBSET Tid]

(* pool->add frees no record to which an operation may still have a        *)
(* pointer, however late its thread runs on.                               *)
NoUseAfterFree == \A n \in pool : waiting[n] = {}

(* A record is in one place at a time: free, in one link, in the hands of   *)
(* the thread retiring it, or once in one retired list.  A record that got *)
(* into two lists, or twice into one, would be freed twice.                *)
LinksDisjoint ==
    \A c \in Cell :
        /\ cell[c] \notin pool
        /\ \A d \in Cell : cell[c] = cell[d] /\ cell[c] # NULL => c = d

RetiringDisjoint ==
    \A u \in Tid : obj[u] # NULL =>
        /\ obj[u] \notin pool
        /\ \A c \in Cell : cell[c] # obj[u]
        /\ \A v \in Tid : obj[u] = obj[v] => u = v

RetiredDisjoint ==
    \A u \in Tid : \A res \in retired[u] :
        /\ res.obj \notin pool
        /\ \A c \in Cell : cell[c] # res.obj
        /\ \A v \in Tid :
              /\ obj[v] # res.obj
              /\ \A other \in retired[v] : res.obj = other.obj => u = v /\ res = other

OnePlace == LinksDisjoint /\ RetiringDisjoint /\ RetiredDisjoint

(* The grace period argument: an operation that may have a pointer to a    *)
(* retired record announced an epoch no later than the record's.           *)
ReadersReserved ==
    \A u \in Tid : \A res \in retired[u] : \A t \in waiting[res.obj] :
        reservations[t] <= res.epoch

(* Retiring is wait free: retire comes back, whatever the others do.       *)
RetireReturns == \A t \in Tid : pc[t] = "retire" ~> pc[t] = "op"

(* The reclaimer keeps the contract of GracePeriod. *)
status ==
    [n \in Node |->
        IF n \in pool THEN "free"
        ELSE IF n \in Linked THEN "linked"
        ELSE IF \E t \in Tid : \E res \in retired[t] : res.obj = n THEN "retired"
        ELSE "unlinked"]

Contract == INSTANCE GracePeriod WITH Thread <- Tid
Reclamation == Contract!Spec

=============================================================================
