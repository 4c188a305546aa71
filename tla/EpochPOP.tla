------------------------------- MODULE EpochPOP -------------------------------
(***************************************************************************)
(* EpochPOP, reclaimer_rcu_popplushp.h: epochs as long as they suffice,    *)
(* and hazard pointers published on ping when they do not.  Operations     *)
(* announce an epoch and keep local hazard pointers at the same time.  A   *)
(* full list is swept by epochs first; if too much of it stays, the thread *)
(* pings the others and sweeps it by the slots they publish.  At the low   *)
(* watermark the list is swept by slots behind another thread's ping.      *)
(*                                                                         *)
(* Stated as the difference to HazardPtrPOP, whose handler, reads, round   *)
(* of pings and snapshot at the low watermark the file repeats.            *)
(***************************************************************************)
EXTENDS HazardPtrPOP

CONSTANTS
    Patience,           \* empty_freq - 4096: a list that stays so long is swept
                        \* by slots
    EpochFreq,          \* epoch_freq: allocations per thread and epoch
    MaxEpoch            \* BOUND: the epoch is not advanced beyond it

(* The reservation of a thread outside any operation. *)
UINT64_MAX == MaxEpoch + 1

VARIABLES
    epoch,              \* the global epoch
    reservations,       \* per thread, the epoch it announced in startOp
    alloc_counters,     \* per thread, modulo EpochFreq * NumProcess: its only use
    retireEpoch,        \* per record, the epoch of its RCUInfo
    e, minEpoch,        \* locals of startOp and retire, and of rcu_empty
    kept                \* how many records hp_empty has passed and kept

epochs == <<epoch, reservations, alloc_counters, retireEpoch, e, minEpoch, kept>>
epochVars == <<vars, epochs>>

AllocPeriod == EpochFreq * NumProcess

EpochInit ==
    /\ InitAt("idle")
    /\ epoch = 0
    /\ reservations = [t \in Tid |-> UINT64_MAX]
    /\ alloc_counters = [t \in Tid |-> 0]
    /\ retireEpoch = [n \in Node |-> 0]
    /\ e = [t \in Tid |-> 0]
    /\ minEpoch = [t \in Tid |-> UINT64_MAX]
    /\ kept = [t \in Tid |-> 0]

-------------------------------------------------------------------------------
(* Wrong versions of steps below, which the properties must tell from the  *)
(* right ones.                                                             *)

(* frees what was retired in the oldest announced epoch, too *)
rcu_freeableSameEpoch(t) ==
    {k \in 1 .. Len(retired[t]) : retireEpoch[retired[t][k]] <= minEpoch[t]}

-------------------------------------------------------------------------------
(* startOp: load the epoch, and publish it; a full fence follows.          *)
startOp_load(t) ==
    /\ goto(t, "idle", "start")
    /\ e' = [e EXCEPT ![t] = epoch]
    /\ UNCHANGED <<records, reserved, retired, stamps, loWm, signals, reading, obj,
                   emptying, ref, epoch, reservations, alloc_counters, retireEpoch,
                   minEpoch, kept>>

startOp_store(t) ==
    /\ goto(t, "start", "op")
    /\ reservations' = [reservations EXCEPT ![t] = e[t]]
    /\ e' = [e EXCEPT ![t] = 0]
    /\ UNCHANGED <<records, reserved, retired, stamps, loWm, signals, reading, obj,
                   emptying, ref, epoch, alloc_counters, retireEpoch, minEpoch, kept>>

(* endOp clears the local slots and withdraws the epoch; what the thread   *)
(* has published of its slots stays.                                       *)
endOp_both(t) ==
    /\ goto(t, "op", "idle")
    /\ local_slots' = [s \in Slot |-> IF s \in slotsOf(t) THEN NULL ELSE local_slots[s]]
    /\ ref' = [s \in Slot |-> IF s \in slotsOf(t) THEN NULL ELSE ref[s]]
    /\ reservations' = [reservations EXCEPT ![t] = UINT64_MAX]
    /\ UNCHANGED <<records, slots, retired, stamps, loWm, signals, reading, obj, emptying,
                   epoch, alloc_counters, retireEpoch, e, minEpoch, kept>>

(* Before each attempt to link a record. *)
updateAllocCounterAndEpoch(t) ==
    /\ goto(t, "op", "link")
    /\ LET count == (alloc_counters[t] + 1) % AllocPeriod IN
          /\ alloc_counters' = [alloc_counters EXCEPT ![t] = count]
          /\ IF count = 0
             THEN epoch < MaxEpoch /\ epoch' = epoch + 1
             ELSE UNCHANGED epoch
    /\ UNCHANGED <<records, reserved, retired, stamps, loWm, signals, reading, obj,
                   emptying, ref, reservations, retireEpoch, e, minEpoch, kept>>

(* The attempt succeeds, or fails because the link has changed (or, BOUND, *)
(* because all of Node is in use).                                         *)
insert_link(t, c) ==
    /\ goto(t, "link", "op")
    /\ \/ link(c)
       \/ (cell[c] # NULL \/ pool = {}) /\ UNCHANGED records
    /\ UNCHANGED <<reserved, retired, stamps, loWm, signals, reading, obj, emptying, ref,
                   epochs>>

-------------------------------------------------------------------------------
isFull(size) == size >= EmptyFreq

isPastLowWatermark(t, size) ==
    /\ size > EmptyFreq \div 8
    /\ numRetiresSinceLoWatermark[t] % LoPathReclaimAttemptFreq[t] = 0

(* retire goes on behind the low watermark. *)
retire_goOn(t, from, size) ==
    \/ goto(t, from, "scan") /\ isFull(size) /\ UNCHANGED loWm
    \/ goto(t, from, "op") /\ ~isFull(size) /\ countRetire(t)

retire_load(t) ==
    /\ goto(t, "retire", "push")
    /\ e' = [e EXCEPT ![t] = epoch]
    /\ UNCHANGED <<records, reserved, retired, stamps, loWm, signals, reading, obj,
                   emptying, ref, epoch, reservations, alloc_counters, retireEpoch,
                   minEpoch, kept>>

(* Whoever retires a record does not use it again. *)
retire_pushEpoch(t) ==
    /\ retired' = [retired EXCEPT ![t] = Append(@, obj[t])]
    /\ retireEpoch' = [n \in Node |-> IF n = obj[t] THEN e[t] ELSE retireEpoch[n]]
    /\ e' = [e EXCEPT ![t] = 0]
    /\ obj' = [obj EXCEPT ![t] = NULL]
    /\ ref' = [s \in Slot |-> IF s \in slotsOf(t) /\ ref[s] = obj[t] THEN NULL ELSE ref[s]]
    /\ LET low == isPastLowWatermark(t, Len(retired[t]) + 1) IN
          \/ low /\ firstLoEntryFlag[t] /\ goto(t, "push", "save") /\ UNCHANGED loWm
          \/ low /\ ~firstLoEntryFlag[t] /\ goto(t, "push", "check") /\ UNCHANGED loWm
          \/ ~low /\ retire_goOn(t, "push", Len(retired[t]) + 1)
    /\ UNCHANGED <<records, reserved, stamps, signals, reading, emptying, epoch,
                   reservations, alloc_counters, minEpoch, kept>>

(* Only what was in the list on entry may be freed. *)
lo_limit(t) == retire_bag_size_when_entered_loWm[t]

(* Has some thread pinged since the snapshot?  Then the records that were  *)
(* in the list when it was taken are tested against the slots.             *)
lo_checkSlots(t) ==
    /\ \/ /\ goto(t, "check", "low sweep")
          /\ pingedSince(t, i[t])
          /\ i' = [i EXCEPT ![t] = 0]
          /\ limit' = [limit EXCEPT ![t] = lo_limit(t)]
          /\ UNCHANGED loWm
       \/ /\ goto(t, "check", "check")
          /\ ~pingedSince(t, i[t])
          /\ i[t] + 1 < NumProcess
          /\ i' = [i EXCEPT ![t] = @ + 1]
          /\ UNCHANGED <<limit, loWm>>
       \/ /\ retire_goOn(t, "check", Len(retired[t]))
          /\ ~pingedSince(t, i[t])
          /\ i[t] + 1 = NumProcess
          /\ i' = [i EXCEPT ![t] = 0]
          /\ UNCHANGED limit
    /\ UNCHANGED <<records, reserved, retired, stamps, signals, reading, obj, scanned,
                   ref, epochs>>

(* rcu_empty: the minimum over the reservations, one load a step, ...      *)
rcu_scan(t) ==
    /\ IF i[t] + 1 < NumProcess
       THEN goto(t, "scan", "scan") /\ i' = [i EXCEPT ![t] = @ + 1]
       ELSE goto(t, "scan", "epochs") /\ i' = [i EXCEPT ![t] = 0]
    /\ minEpoch' = [minEpoch EXCEPT
                      ![t] = IF reservations[i[t]] < @ THEN reservations[i[t]] ELSE @]
    /\ UNCHANGED <<records, reserved, retired, stamps, loWm, signals, reading, obj,
                   scanned, limit, ref, epoch, reservations, alloc_counters, retireEpoch,
                   e, kept>>

(* ... and what was retired before it is freed. *)
rcu_freeable(t) == {k \in 1 .. Len(retired[t]) : retireEpoch[retired[t][k]] < minEpoch[t]}

rcu_free(t) ==
    /\ goto(t, "epochs", "epochs")
    /\ rcu_freeable(t) # {}
    /\ LET k == Min(rcu_freeable(t)) IN
          /\ poolAdd(retired[t][k])
          /\ retired' = [retired EXCEPT ![t] = RemoveAt(@, k)]
    /\ UNCHANGED <<reserved, stamps, loWm, signals, reading, obj, emptying, ref, epochs>>

(* Some thread is delayed if most of the list stays. *)
rcu_return(t) ==
    /\ rcu_freeable(t) = {}
    /\ minEpoch' = [minEpoch EXCEPT ![t] = UINT64_MAX]
    /\ \/ goto(t, "epochs", "announce") /\ Len(retired[t]) >= Patience /\ UNCHANGED loWm
       \/ goto(t, "epochs", "op") /\ Len(retired[t]) < Patience /\ resetLoWmMetaData(t)
    /\ UNCHANGED <<records, reserved, retired, stamps, signals, reading, obj, emptying,
                   ref, epoch, reservations, alloc_counters, retireEpoch, e, kept>>

-------------------------------------------------------------------------------
(* The round of pings begins; the thread does not publish its own slots.   *)
hi_announceOnly(t) ==
    /\ goto(t, "announce", "ping")
    /\ myscannedTS' = [myscannedTS EXCEPT ![t] = mypublishingTS]
    /\ announcedTS' = [announcedTS EXCEPT ![t] = @ + 1]
    /\ UNCHANGED <<records, reserved, retired, mypublishingTS, loWm, signals, reading,
                   obj, emptying, ref, epochs>>

(* The round ends, as in HazardPtrPOP, and the whole list is tested.       *)
hi_confirmAll(t) ==
    /\ goto(t, "confirm", "sweep")
    /\ PromptDelivery => \A u \in Tid \ {t} : ~pending[u] /\ handler[u] = 0
    /\ announcedTS' = [announcedTS EXCEPT ![t] = @ + 1]
    /\ limit' = [limit EXCEPT ![t] = Len(retired[t])]
    /\ UNCHANGED <<records, reserved, retired, mypublishingTS, myscannedTS, loWm,
                   signals, reading, obj, i, scanned, ref, epochs>>

(* hp_empty ("sweep") and hp_LoWmempty ("low sweep"): for each record, the *)
(* published slots are read anew, one load a step, until one names it ...  *)
candidate(t) == retired[t][kept[t] + 1]

hp_test(t, sweep) ==
    /\ goto(t, sweep, sweep)
    /\ limit[t] > 0 /\ i[t] < NumSlots
    /\ \/ /\ slots[i[t]] = candidate(t)
          /\ kept' = [kept EXCEPT ![t] = @ + 1]
          /\ limit' = [limit EXCEPT ![t] = @ - 1]
          /\ i' = [i EXCEPT ![t] = 0]
       \/ /\ slots[i[t]] # candidate(t)
          /\ i' = [i EXCEPT ![t] = @ + 1]
          /\ UNCHANGED <<kept, limit>>
    /\ UNCHANGED <<records, reserved, retired, stamps, loWm, signals, reading, obj,
                   scanned, ref, epoch, reservations, alloc_counters, retireEpoch, e,
                   minEpoch>>

(* ... or none does. *)
hp_free(t, sweep) ==
    /\ goto(t, sweep, sweep)
    /\ limit[t] > 0 /\ i[t] = NumSlots
    /\ poolAdd(candidate(t))
    /\ retired' = [retired EXCEPT ![t] = RemoveAt(@, kept[t] + 1)]
    /\ limit' = [limit EXCEPT ![t] = @ - 1]
    /\ i' = [i EXCEPT ![t] = 0]
    /\ UNCHANGED <<reserved, stamps, loWm, signals, reading, obj, scanned, ref, epochs>>

(* The period of the low watermark ends with either; behind the low sweep  *)
(* retire goes on.                                                         *)
hp_return(t) ==
    /\ \/ goto(t, "sweep", "op")
       \/ goto(t, "low sweep", "op") /\ ~isFull(Len(retired[t]))
       \/ goto(t, "low sweep", "scan") /\ isFull(Len(retired[t]))
    /\ limit[t] = 0
    /\ kept' = [kept EXCEPT ![t] = 0]
    /\ resetLoWmMetaData(t)
    /\ UNCHANGED <<records, reserved, retired, stamps, signals, reading, obj, emptying,
                   ref, epoch, reservations, alloc_counters, retireEpoch, e, minEpoch>>

-------------------------------------------------------------------------------
(* The steps of HazardPtrPOP that this scheme repeats. *)
repeated(t) ==
    \/ read_load(t) \/ reserve(t) \/ read_validate(t)
    \/ \E c \in Cell : erase(t, c) \/ \E s \in slotsOf(t) : read_call(t, s, c)
    \/ lo_save(t) \/ hi_ping(t) \/ signal(t)

epochClient(t) ==
    \/ startOp_load(t) \/ startOp_store(t) \/ endOp_both(t)
    \/ updateAllocCounterAndEpoch(t)
    \/ \E c \in Cell : insert_link(t, c)

epochRetire(t) ==
    \/ retire_load(t) \/ retire_pushEpoch(t) \/ lo_checkSlots(t)
    \/ rcu_scan(t) \/ rcu_free(t) \/ rcu_return(t)
    \/ hi_announceOnly(t) \/ hi_confirmAll(t) \/ hp_return(t)
    \/ \E sweep \in {"sweep", "low sweep"} : hp_test(t, sweep) \/ hp_free(t, sweep)

EpochNext ==
    \E t \in Tid :
        \/ repeated(t) /\ UNCHANGED epochs
        \/ epochClient(t)
        \/ epochRetire(t)

EpochSpec == EpochInit /\ [][EpochNext]_epochVars

-------------------------------------------------------------------------------
(* Every variable holds what the code can store in it. *)
EpochTypeOK ==
    /\ RecordsTypeOK
    /\ local_slots \in [Slot -> Pointer] /\ slots \in [Slot -> Pointer]
    /\ \A t \in Tid : retired[t] \in Seq(Node)
    /\ numRetiresSinceLoWatermark \in [Tid -> 0 .. EmptyFreq - 1]
    /\ retire_bag_size_when_entered_loWm \in [Tid -> 0 .. EmptyFreq + NumSlots]
    /\ pc \in [Tid -> {"idle", "start", "op", "link", "load", "reserve", "validate",
                       "retire", "push", "save", "check", "low sweep", "scan", "epochs",
                       "announce", "ping", "confirm", "sweep"}]
    /\ i \in [Tid -> 0 .. NumSlots]
    /\ \A t \in Tid : kept[t] + limit[t] <= Len(retired[t])
    /\ ref \in [Slot -> Pointer]
    /\ epoch \in 0 .. MaxEpoch
    /\ reservations \in [Tid -> 0 .. UINT64_MAX]
    /\ alloc_counters \in [Tid -> 0 .. AllocPeriod - 1]
    /\ retireEpoch \in [Node -> 0 .. MaxEpoch]
    /\ e \in [Tid -> 0 .. MaxEpoch]
    /\ minEpoch \in [Tid -> 0 .. UINT64_MAX]

(* "confirm that all reservations were published after ping": a thread     *)
(* that sweeps its list by slots does so when every other thread has       *)
(* published since it took the time stamps.                                *)
PublishedBeforeSweep ==
    \A t, u \in Tid :
        t # u /\ pc[t] = "sweep" => mypublishingTS[u] > myscannedTS[t][u]
===============================================================================
