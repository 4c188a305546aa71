----------------------------- MODULE EraReclaimer -----------------------------
(***************************************************************************)
(* What interval based reclamation (reclaimer_2geibr.h) and hazard eras    *)
(* (reclaimer_he.h) have in common.  Records carry the epoch they were     *)
(* created in and are retired with the epoch of that moment.  read         *)
(* announces the current epoch, in one slot or one of several, until the   *)
(* epoch has not changed while it loaded the link.                         *)
(*                                                                         *)
(* Which slots there are, what empties them and which records empty may    *)
(* free differs: HazardEras and IntervalReclaimer say so.                  *)
(***************************************************************************)
EXTENDS LinkedRecords

CONSTANTS
    SlotsPerThread,     \* num_he: 3 in the code; 1, upper_reservs, with intervals
    EmptyFreq,          \* freq: retires between two calls of empty
    EpochFreq,          \* epoch_freq: allocations per thread and epoch
    MaxEpoch            \* BOUND: the epoch is not advanced beyond it

ASSUME EraReclaimerAssumption ==
    /\ SlotsPerThread \in Nat \ {0}
    /\ EmptyFreq \in Nat \ {0}
    /\ EpochFreq \in Nat \ {0}
    /\ MaxEpoch \in Nat \ {0}

Epoch == 0 .. MaxEpoch
AllocPeriod == EpochFreq * NumProcess

Slot == Tid \X (1 .. SlotsPerThread)
slotsOf(t) == {t} \X (1 .. SlotsPerThread)

VARIABLES
    epoch,              \* the global epoch
    birth,              \* the birth_epoch field of each record
    reservations,       \* the epochs announced, per slot
    retired,            \* per thread, its list of IntervalInfo or HeInfo
    retire_counters,    \* per thread, modulo EmptyFreq: its only use
    alloc_counters,     \* per thread, modulo AllocPeriod: its only use
    pc,                 \* per thread, the step it takes next
    newNode,            \* per thread, a record created and not linked yet
    idx, src, ret,      \* arguments and local of read
    obj, e,             \* argument and local of retire; e is a local of startOp, too
    toScan, scanned,    \* locals of empty: what its first loop has left to copy, and
                        \* its copy
    ref                 \* per slot, the records its owner uses under its protection

reclaimer == <<epoch, birth, reservations, retired, retire_counters, alloc_counters>>
reading == <<idx, src, ret>>
retiring == <<obj, e>>
emptying == <<toScan, scanned>>
eraVars == <<cell, pool, epoch, birth, reservations, retired, retire_counters,
             alloc_counters, pc, newNode, idx, src, ret, obj, e, toScan, scanned, ref>>

Pointer == Node \union {NULL}
Info == [obj : Node, birth : Epoch, retire : Epoch]

EraInit(firstEpoch, noReservation, start) ==
    /\ RecordsInit
    /\ epoch = firstEpoch
    /\ birth = [n \in Node |-> 0]
    /\ reservations = [s \in Slot |-> noReservation]
    /\ retired = [t \in Tid |-> {}]
    /\ retire_counters = [t \in Tid |-> 0]
    /\ alloc_counters = [t \in Tid |-> 0]
    /\ pc = [t \in Tid |-> start]
    /\ newNode = [t \in Tid |-> NULL]
    /\ idx = [t \in Tid |-> <<t, 1>>]
    /\ src = [t \in Tid |-> NULL]
    /\ ret = [t \in Tid |-> NULL]
    /\ obj = [t \in Tid |-> NULL]
    /\ e = [t \in Tid |-> 0]
    /\ toScan = [t \in Tid |-> {}]
    /\ scanned = [t \in Tid |-> {}]
    /\ ref = [s \in Slot |-> {}]

goto(t, from, to) == pc[t] = from /\ pc' = [pc EXCEPT ![t] = to]

-------------------------------------------------------------------------------
(* Wrong versions of steps below, which the properties must tell from the  *)
(* right ones.                                                             *)

(* counts on when the period is over *)
updateAllocCounterOnly(t) ==
    /\ goto(t, "created", "link")
    /\ alloc_counters' = [alloc_counters EXCEPT ![t] = @ + 1]
    /\ IF alloc_counters[t] > AllocPeriod
       THEN epoch < MaxEpoch /\ epoch' = epoch + 1
       ELSE UNCHANGED epoch
    /\ UNCHANGED <<records, birth, reservations, retired, retire_counters, newNode,
                   reading, retiring, emptying, ref>>

(* stamps the record with the epoch of its birth *)
retire_loadBirth(t) ==
    /\ goto(t, "retire", "push")
    /\ e' = [e EXCEPT ![t] = birth[obj[t]]]
    /\ UNCHANGED <<records, reclaimer, newNode, reading, obj, emptying, ref>>

(* adds to the pool and forgets to erase from the list *)
empty_freeNoErase(t, res) ==
    /\ goto(t, "sweep", "sweep")
    /\ res \in retired[t]
    /\ poolAdd(res.obj)
    /\ UNCHANGED <<reclaimer, newNode, reading, retiring, emptying, ref>>

-------------------------------------------------------------------------------
(* read, called for slot s and link c.  The client goes on using the       *)
(* records in kept under the protection of the slot.                       *)
read_call(t, s, c, kept) ==
    /\ goto(t, "op", "load")
    /\ idx' = [idx EXCEPT ![t] = s]
    /\ src' = [src EXCEPT ![t] = c]
    /\ ref' = [ref EXCEPT ![s] = kept]
    /\ UNCHANGED <<records, reclaimer, newNode, ret, retiring, emptying>>

read_load(t) ==
    /\ goto(t, "load", "check")
    /\ ret' = [ret EXCEPT ![t] = cell[src[t]]]
    /\ UNCHANGED <<records, reclaimer, newNode, idx, src, retiring, emptying, ref>>

(* The epoch is loaded: it is the announced one, or read announces it and  *)
(* starts over.  Only its own thread stores to a slot, so that prev_epoch  *)
(* is always what the slot holds.                                          *)
read_check(t) ==
    LET s == idx[t] IN
    \/ /\ goto(t, "check", "op")
       /\ epoch = reservations[s]
       /\ ref' = [ref EXCEPT ![s] = @ \union ({ret[t]} \ {NULL})]
       /\ src' = [src EXCEPT ![t] = NULL]
       /\ ret' = [ret EXCEPT ![t] = NULL]
       /\ UNCHANGED <<records, reclaimer, newNode, idx, retiring, emptying>>
    \/ /\ goto(t, "check", "announce")
       /\ epoch # reservations[s]
       /\ e' = [e EXCEPT ![t] = epoch]
       /\ ret' = [ret EXCEPT ![t] = NULL]
       /\ UNCHANGED <<records, reclaimer, newNode, idx, src, obj, emptying, ref>>

read_announce(t) ==
    /\ goto(t, "announce", "load")
    /\ reservations' = [reservations EXCEPT ![idx[t]] = e[t]]
    /\ e' = [e EXCEPT ![t] = 0]
    /\ UNCHANGED <<records, epoch, birth, retired, retire_counters, alloc_counters,
                   newNode, reading, obj, emptying, ref>>

-------------------------------------------------------------------------------
(* new_node: allocate a record and write the current epoch into it. *)
new_node(t) ==
    /\ goto(t, "op", "created")
    /\ \E n \in pool :
          /\ newNode' = [newNode EXCEPT ![t] = n]
          /\ pool' = pool \ {n}
          /\ birth' = [birth EXCEPT ![n] = epoch]
    /\ UNCHANGED <<cell, epoch, reservations, retired, retire_counters, alloc_counters,
                   reading, retiring, emptying, ref>>

(* Before each attempt to link it. *)
updateAllocCounterAndEpoch(t) ==
    /\ goto(t, "created", "link")
    /\ LET count == (alloc_counters[t] + 1) % AllocPeriod IN
          /\ alloc_counters' = [alloc_counters EXCEPT ![t] = count]
          /\ IF count = 0
             THEN epoch < MaxEpoch /\ epoch' = epoch + 1
             ELSE UNCHANGED epoch
    /\ UNCHANGED <<records, birth, reservations, retired, retire_counters, newNode,
                   reading, retiring, emptying, ref>>

(* The attempt succeeds, or the link has changed.  Then doInsert searches  *)
(* again and makes another attempt, or finds its key and deallocates.      *)
insert(t, c) ==
    \/ /\ goto(t, "link", "op")
       /\ cell[c] = NULL
       /\ cell' = [cell EXCEPT ![c] = newNode[t]]
       /\ newNode' = [newNode EXCEPT ![t] = NULL]
       /\ UNCHANGED <<pool, reclaimer, reading, retiring, emptying, ref>>
    \/ /\ goto(t, "link", "created")
       /\ cell[c] # NULL
       /\ UNCHANGED <<records, reclaimer, newNode, reading, retiring, emptying, ref>>
    \/ /\ goto(t, "link", "op")
       /\ cell[c] # NULL
       /\ poolAdd(newNode[t])
       /\ newNode' = [newNode EXCEPT ![t] = NULL]
       /\ UNCHANGED <<reclaimer, reading, retiring, emptying, ref>>

(* erase unlinks a record that its search has found and calls retire. *)
erase(t, c) ==
    /\ goto(t, "op", "retire")
    /\ cell[c] # NULL
    /\ \E s \in slotsOf(t) : cell[c] \in ref[s]
    /\ unlink(c, cell[c])
    /\ obj' = [obj EXCEPT ![t] = cell[c]]
    /\ UNCHANGED <<reclaimer, newNode, reading, e, emptying, ref>>

-------------------------------------------------------------------------------
retire_load(t) ==
    /\ goto(t, "retire", "push")
    /\ e' = [e EXCEPT ![t] = epoch]
    /\ UNCHANGED <<records, reclaimer, newNode, reading, obj, emptying, ref>>

retire_push(t, all) ==
    /\ pc[t] = "push"
    /\ retired' = [retired EXCEPT ![t] = @ \union
                      {[obj |-> obj[t], birth |-> birth[obj[t]], retire |-> e[t]]}]
    /\ LET count == (retire_counters[t] + 1) % EmptyFreq IN
          /\ retire_counters' = [retire_counters EXCEPT ![t] = count]
          /\ IF count = 0
             THEN goto(t, "push", "scan") /\ toScan' = [toScan EXCEPT ![t] = all]
             ELSE goto(t, "push", "op") /\ UNCHANGED toScan
    /\ obj' = [obj EXCEPT ![t] = NULL]
    /\ e' = [e EXCEPT ![t] = 0]
    /\ UNCHANGED <<records, epoch, birth, reservations, alloc_counters, newNode,
                   reading, scanned, ref>>

(* empty, second loop: free a record, *)
empty_free(t, res) ==
    /\ goto(t, "sweep", "sweep")
    /\ res \in retired[t]
    /\ retired' = [retired EXCEPT ![t] = @ \ {res}]
    /\ poolAdd(res.obj)
    /\ UNCHANGED <<epoch, birth, reservations, retire_counters, alloc_counters, newNode,
                   reading, retiring, emptying, ref>>

(* or return when there is none left to free. *)
empty_return(t) ==
    /\ goto(t, "sweep", "op")
    /\ scanned' = [scanned EXCEPT ![t] = {}]
    /\ UNCHANGED <<records, reclaimer, newNode, reading, retiring, toScan, ref>>

-------------------------------------------------------------------------------
(* The steps both schemes take in the same way. *)
shared(t) ==
    \/ read_load(t) \/ read_check(t) \/ read_announce(t)
    \/ new_node(t) \/ updateAllocCounterAndEpoch(t)
    \/ \E c \in Cell : insert(t, c) \/ erase(t, c)
    \/ retire_load(t)

-------------------------------------------------------------------------------
(* What a thread may use: what read has returned, and what read has loaded *)
(* under an announcement that is still that of the current epoch and is    *)
(* going to return if it stays so.                                         *)
current(t) ==
    IF pc[t] = "check" /\ reservations[idx[t]] = epoch THEN {ret[t]} \ {NULL} ELSE {}

held == [t \in Tid |-> current(t) \union UNION {ref[s] : s \in slotsOf(t)}]

(* pool->add frees no record that a caller of read still protects, or that *)
(* read is going to return.                                                *)
NoUseAfterFree == \A t \in Tid : held[t] \cap pool = {}

(* A record is in one place at a time: free, created and not linked yet,   *)
(* in one link, in the hands of the thread that retires it, or once in one *)
(* list.  It cannot be freed twice.                                        *)
LinksDisjoint ==
    \A c \in Cell :
        /\ cell[c] \notin pool
        /\ \A d \in Cell : cell[c] = cell[d] /\ cell[c] # NULL => c = d

CreatedDisjoint ==
    \A u \in Tid : newNode[u] # NULL =>
        /\ newNode[u] \notin pool
        /\ \A c \in Cell : cell[c] # newNode[u]
        /\ \A v \in Tid : newNode[u] = newNode[v] => u = v

RetiringDisjoint ==
    \A u \in Tid : obj[u] # NULL =>
        /\ obj[u] \notin pool
        /\ \A c \in Cell : cell[c] # obj[u]
        /\ \A v \in Tid : obj[u] # newNode[v] /\ (obj[u] = obj[v] => u = v)

RetiredDisjoint ==
    \A u \in Tid : \A res \in retired[u] :
        /\ res.obj \notin pool
        /\ \A c \in Cell : cell[c] # res.obj
        /\ \A v \in Tid :
              /\ res.obj # newNode[v] /\ res.obj # obj[v]
              /\ \A other \in retired[v] : res.obj = other.obj => u = v /\ res = other

OnePlace == LinksDisjoint /\ CreatedDisjoint /\ RetiringDisjoint /\ RetiredDisjoint

(* The reclaimer keeps the contract of SafeReclamation.  A record that is  *)
(* created and not linked is its creator's alone: nobody has freed it.     *)
status ==
    [n \in Node |->
        IF n \in pool \/ \E t \in Tid : newNode[t] = n THEN "free"
        ELSE IF n \in Linked THEN "linked"
        ELSE IF \E t \in Tid : \E res \in retired[t] : res.obj = n THEN "retired"
        ELSE "unlinked"]

Contract == INSTANCE SafeReclamation WITH Thread <- Tid
Reclamation == Contract!Spec
=============================================================================
