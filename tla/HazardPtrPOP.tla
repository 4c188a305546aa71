----------------------------- MODULE HazardPtrPOP -----------------------------
(***************************************************************************)
(* HazardPtrPOP, reclaimer_ibr_popplushp.h: hazard pointers published on   *)
(* ping.  read writes its reservation to memory only its own thread looks  *)
(* at.  A thread whose list is full pings all others with a signal; their  *)
(* handler (recovery_manager.h) copies the local slots to the shared ones. *)
(* A thread whose list is half full (low watermark) waits for another one  *)
(* to ping and then empties its list, too.                                 *)
(*                                                                         *)
(* Modelled as built by default, with NDEBUG: assert does nothing.         *)
(***************************************************************************)
EXTENDS LinkedRecords, Sequences, SequencesExt

CONSTANTS
    SlotsPerThread,     \* NUM_POPHP: 3 in the code
    EmptyFreq,          \* empty_freq and bagCapacityThreshold: a full list
    LoFreqs,            \* what rand() can make LoPathReclaimAttemptFreq
    PromptDelivery,     \* TRUE: the handlers have run when the pinging loop ends.
                        \* Not promised by POSIX, which lets a signal be pending.
    MaxTS               \* BOUND: announcedTS does not exceed it

ASSUME HazardPtrPOPAssumption ==
    /\ SlotsPerThread \in Nat \ {0} /\ EmptyFreq \in Nat \ {0} /\ MaxTS \in Nat
    /\ LoFreqs \subseteq Nat \ {0} /\ \E most \in LoFreqs : \A freq \in LoFreqs : most >= freq
    /\ PromptDelivery \in BOOLEAN

NumSlots == NumProcess * SlotsPerThread
Slot == 0 .. NumSlots - 1
slotOf(t, k) == t * SlotsPerThread + k
slotsOf(t) == {slotOf(t, k) : k \in 0 .. SlotsPerThread - 1}

VARIABLES
    local_slots,        \* the reservations, as their thread sees them
    slots,              \* the reservations, as last published
    retired,            \* per thread, its list in the order of retirement
    announcedTS,        \* per thread, odd while it pings
    mypublishingTS,     \* per thread, how often it published
    myscannedTS,        \* per thread, the mypublishingTS it saw before pinging
    savedTS,            \* per thread, the announcedTS it saw at the low watermark
    firstLoEntryFlag, numRetiresSinceLoWatermark,
    LoPathReclaimAttemptFreq, retire_bag_size_when_entered_loWm,
    pending,            \* per thread, whether a ping waits to be delivered
    handler,            \* per thread, 0, or the next step of its signal handler
    pc,                 \* per thread, the step it takes next
    idx, src, ret,      \* argument and local of read
    obj,                \* argument of retire
    i, scanned, limit,  \* loop index, temp_local_slots, how many records empty may
                        \* still free or keep
    ref                 \* per slot, the record its owner uses under its protection

reserved == <<local_slots, slots>>
stamps == <<announcedTS, mypublishingTS, myscannedTS>>
loWm == <<savedTS, firstLoEntryFlag, numRetiresSinceLoWatermark,
          LoPathReclaimAttemptFreq, retire_bag_size_when_entered_loWm>>
signals == <<pending, handler>>
reading == <<idx, src, ret>>
emptying == <<i, scanned, limit>>
vars == <<records, reserved, retired, stamps, loWm, signals, pc, reading, obj,
          emptying, ref>>

Pointer == Node \union {NULL}

(* The constructor and initThread; every thread's first step is step. *)
InitAt(step) ==
    /\ RecordsInit
    /\ local_slots = [s \in Slot |-> NULL]
    /\ slots = [s \in Slot |-> NULL]
    /\ retired = [t \in Tid |-> <<>>]
    /\ announcedTS = [t \in Tid |-> 0]
    /\ mypublishingTS = [t \in Tid |-> 0]
    /\ myscannedTS = [t \in Tid |-> [u \in Tid |-> 0]]
    /\ savedTS = [t \in Tid |-> [u \in Tid |-> 0]]
    /\ firstLoEntryFlag = [t \in Tid |-> TRUE]
    /\ numRetiresSinceLoWatermark = [t \in Tid |-> 0]
    /\ LoPathReclaimAttemptFreq = [t \in Tid |-> Max(LoFreqs)]
    /\ retire_bag_size_when_entered_loWm = [t \in Tid |-> 0]
    /\ pending = [t \in Tid |-> FALSE]
    /\ handler = [t \in Tid |-> 0]
    /\ pc = [t \in Tid |-> step]
    /\ idx = [t \in Tid |-> 0]
    /\ src = [t \in Tid |-> NULL]
    /\ ret = [t \in Tid |-> NULL]
    /\ obj = [t \in Tid |-> NULL]
    /\ i = [t \in Tid |-> 0]
    /\ scanned = [t \in Tid |-> {}]
    /\ limit = [t \in Tid |-> 0]
    /\ ref = [s \in Slot |-> NULL]

Init == InitAt("op")

(* A thread takes its own steps while it is not in the signal handler. *)
goto(t, from, to) ==
    /\ handler[t] = 0
    /\ pc[t] = from
    /\ pc' = [pc EXCEPT ![t] = to]

-------------------------------------------------------------------------------
(* Wrong versions of steps below, which the properties must tell from the  *)
(* right ones.                                                             *)

(* pings the threads after its own only *)
hi_pingLater(t) ==
    /\ IF i[t] + 1 < NumProcess
       THEN goto(t, "ping", "ping") /\ i' = [i EXCEPT ![t] = @ + 1]
       ELSE goto(t, "ping", "confirm") /\ i' = [i EXCEPT ![t] = 0]
    /\ pending' = [pending EXCEPT ![i[t]] = @ \/ i[t] > t]
    /\ UNCHANGED <<records, reserved, retired, stamps, loWm, handler, reading, obj,
                   scanned, limit, ref>>

(* notices a full list only when it has just become full *)
isJustFull(size) == size = EmptyFreq

(* counts outside the low watermark, too *)
countRetireAlways(t) ==
    /\ numRetiresSinceLoWatermark' = [numRetiresSinceLoWatermark EXCEPT ![t] = @ + 1]
    /\ UNCHANGED <<savedTS, firstLoEntryFlag, LoPathReclaimAttemptFreq,
                   retire_bag_size_when_entered_loWm>>

(* forgets to end the low watermark *)
resetLoWmFlagOnly(t) ==
    /\ firstLoEntryFlag' = [firstLoEntryFlag EXCEPT ![t] = TRUE]
    /\ UNCHANGED <<savedTS, numRetiresSinceLoWatermark, LoPathReclaimAttemptFreq,
                   retire_bag_size_when_entered_loWm>>

-------------------------------------------------------------------------------
(* The signal handler: publishReservations, one store a step.  Signals are *)
(* blocked while it runs, and pings that are pending together are one.     *)
handler_start(t) ==
    /\ pending[t] /\ handler[t] = 0
    /\ pending' = [pending EXCEPT ![t] = FALSE]
    /\ handler' = [handler EXCEPT ![t] = 1]
    /\ UNCHANGED <<records, reserved, retired, stamps, loWm, pc, reading, obj,
                   emptying, ref>>

handler_publish(t) ==
    /\ handler[t] \in 1 .. SlotsPerThread
    /\ LET s == slotOf(t, handler[t] - 1) IN slots' = [slots EXCEPT ![s] = local_slots[s]]
    /\ handler' = [handler EXCEPT ![t] = @ + 1]
    /\ UNCHANGED <<records, local_slots, retired, stamps, loWm, pending, pc,
                   reading, obj, emptying, ref>>

handler_return(t) ==
    /\ handler[t] = SlotsPerThread + 1
    /\ mypublishingTS' = [mypublishingTS EXCEPT ![t] = @ + 1]
    /\ handler' = [handler EXCEPT ![t] = 0]
    /\ UNCHANGED <<records, reserved, retired, announcedTS, myscannedTS, loWm,
                   pending, pc, reading, obj, emptying, ref>>

-------------------------------------------------------------------------------
(* endOp clears the local slots only; the published ones keep their value. *)
endOp(t) ==
    /\ goto(t, "op", "op")
    /\ local_slots' = [s \in Slot |-> IF s \in slotsOf(t) THEN NULL ELSE local_slots[s]]
    /\ ref' = [s \in Slot |-> IF s \in slotsOf(t) THEN NULL ELSE ref[s]]
    /\ UNCHANGED <<records, slots, retired, stamps, loWm, signals, reading, obj, emptying>>

(* The client calls read for slot s and link c; with that it is done with  *)
(* the record slot s protected before.                                     *)
read_call(t, s, c) ==
    /\ goto(t, "op", "load")
    /\ idx' = [idx EXCEPT ![t] = s]
    /\ src' = [src EXCEPT ![t] = c]
    /\ ref' = [ref EXCEPT ![s] = NULL]
    /\ UNCHANGED <<records, reserved, retired, stamps, loWm, signals, ret, obj, emptying>>

read_load(t) ==
    /\ goto(t, "load", "reserve")
    /\ ret' = [ret EXCEPT ![t] = cell[src[t]]]
    /\ UNCHANGED <<records, reserved, retired, stamps, loWm, signals, idx, src, obj,
                   emptying, ref>>

reserve(t) ==
    /\ goto(t, "reserve", "validate")
    /\ local_slots' = [local_slots EXCEPT ![idx[t]] = ret[t]]
    /\ UNCHANGED <<records, slots, retired, stamps, loWm, signals, reading, obj,
                   emptying, ref>>

(* The link still holds what was reserved, or read starts over. *)
read_validate(t) ==
    /\ \/ /\ goto(t, "validate", "op")
          /\ cell[src[t]] = ret[t]
          /\ ref' = [ref EXCEPT ![idx[t]] = ret[t]]
          /\ src' = [src EXCEPT ![t] = NULL]
       \/ /\ goto(t, "validate", "load")
          /\ cell[src[t]] # ret[t]
          /\ UNCHANGED <<ref, src>>
    /\ ret' = [ret EXCEPT ![t] = NULL]
    /\ UNCHANGED <<records, reserved, retired, stamps, loWm, signals, idx, obj, emptying>>

insert(t, c) ==
    /\ goto(t, "op", "op")
    /\ link(c)
    /\ UNCHANGED <<reserved, retired, stamps, loWm, signals, reading, obj, emptying, ref>>

(* erase unlinks a record that its search has found and calls retire. *)
erase(t, c) ==
    /\ goto(t, "op", "retire")
    /\ cell[c] # NULL
    /\ \E s \in slotsOf(t) : ref[s] = cell[c]
    /\ announcedTS[t] + 2 <= MaxTS
    /\ unlink(c, cell[c])
    /\ obj' = [obj EXCEPT ![t] = cell[c]]
    /\ UNCHANGED <<reserved, retired, stamps, loWm, signals, reading, emptying, ref>>

-------------------------------------------------------------------------------
resetLoWmMetaData(t) ==
    /\ firstLoEntryFlag' = [firstLoEntryFlag EXCEPT ![t] = TRUE]
    /\ numRetiresSinceLoWatermark' = [numRetiresSinceLoWatermark EXCEPT ![t] = 0]
    /\ retire_bag_size_when_entered_loWm' =
          [retire_bag_size_when_entered_loWm EXCEPT ![t] = 0]
    /\ UNCHANGED <<savedTS, LoPathReclaimAttemptFreq>>

(* The end of retire: count the retires since the low watermark. *)
countRetire(t) ==
    /\ numRetiresSinceLoWatermark' =
          [numRetiresSinceLoWatermark EXCEPT ![t] = IF firstLoEntryFlag[t] THEN @ ELSE @ + 1]
    /\ UNCHANGED <<savedTS, firstLoEntryFlag, LoPathReclaimAttemptFreq,
                   retire_bag_size_when_entered_loWm>>

isOutOfPatience(size) == size >= EmptyFreq

isPastLoWatermark(t, size) ==
    /\ size > EmptyFreq \div 2
    /\ numRetiresSinceLoWatermark[t] % LoPathReclaimAttemptFreq[t] = 0

(* Whoever retires a record does not use it again. *)
retire_push(t) ==
    LET size == Len(retired[t]) + 1 IN
    /\ retired' = [retired EXCEPT ![t] = Append(@, obj[t])]
    /\ obj' = [obj EXCEPT ![t] = NULL]
    /\ ref' = [s \in Slot |-> IF s \in slotsOf(t) /\ ref[s] = obj[t] THEN NULL ELSE ref[s]]
    /\ \/ /\ isOutOfPatience(size)
          /\ goto(t, "retire", "announce")
          /\ resetLoWmMetaData(t)
       \/ /\ ~isOutOfPatience(size)
          /\ isPastLoWatermark(t, size)
          /\ IF firstLoEntryFlag[t]
             THEN goto(t, "retire", "save") ELSE goto(t, "retire", "check")
          /\ UNCHANGED loWm
       \/ /\ ~isOutOfPatience(size)
          /\ ~isPastLoWatermark(t, size)
          /\ goto(t, "retire", "op")
          /\ countRetire(t)
    /\ UNCHANGED <<records, reserved, stamps, signals, reading, emptying>>

(* The round of pings begins.  The copy of mypublishingTS takes one load   *)
(* per thread in the code; nothing is ever done with it.                   *)
hi_announce(t) ==
    /\ goto(t, "announce", "publish")
    /\ myscannedTS' = [myscannedTS EXCEPT ![t] = mypublishingTS]
    /\ announcedTS' = [announcedTS EXCEPT ![t] = @ + 1]
    /\ UNCHANGED <<records, reserved, retired, mypublishingTS, loWm, signals, reading,
                   obj, emptying, ref>>

(* requestAllThreadsToRestart: the thread publishes its own reservations,  *)
hi_publish(t) ==
    /\ IF i[t] < SlotsPerThread
       THEN /\ goto(t, "publish", "publish")
            /\ LET s == slotOf(t, i[t]) IN slots' = [slots EXCEPT ![s] = local_slots[s]]
            /\ i' = [i EXCEPT ![t] = @ + 1]
            /\ UNCHANGED mypublishingTS
       ELSE /\ goto(t, "publish", "ping")
            /\ mypublishingTS' = [mypublishingTS EXCEPT ![t] = @ + 1]
            /\ i' = [i EXCEPT ![t] = 0]
            /\ UNCHANGED slots
    /\ UNCHANGED <<records, local_slots, retired, announcedTS, myscannedTS, loWm,
                   signals, reading, obj, scanned, limit, ref>>

(* and sends every other thread the signal. *)
hi_ping(t) ==
    /\ IF i[t] + 1 < NumProcess
       THEN goto(t, "ping", "ping") /\ i' = [i EXCEPT ![t] = @ + 1]
       ELSE goto(t, "ping", "confirm") /\ i' = [i EXCEPT ![t] = 0]
    /\ pending' = [pending EXCEPT ![i[t]] = @ \/ i[t] # t]
    /\ UNCHANGED <<records, reserved, retired, stamps, loWm, handler, reading, obj,
                   scanned, limit, ref>>

(* The round ends.  The loop after "ensure all threads published" compares *)
(* the time stamps once; whatever it finds, the thread goes on.            *)
hi_confirm(t) ==
    /\ goto(t, "confirm", "scan")
    /\ PromptDelivery => \A u \in Tid \ {t} : ~pending[u] /\ handler[u] = 0
    /\ announcedTS' = [announcedTS EXCEPT ![t] = @ + 1]
    /\ UNCHANGED <<records, reserved, retired, mypublishingTS, myscannedTS, loWm,
                   signals, reading, obj, emptying, ref>>

(* setLoWmMetaData, one load of announcedTS a step. *)
lo_save(t) ==
    /\ IF i[t] + 1 < NumProcess
       THEN goto(t, "save", "save") /\ i' = [i EXCEPT ![t] = @ + 1]
       ELSE goto(t, "save", "check") /\ i' = [i EXCEPT ![t] = 0]
    /\ savedTS' = [savedTS EXCEPT ![t][i[t]] = announcedTS[i[t]]]
    /\ \E freq \in LoFreqs :
          LoPathReclaimAttemptFreq' = [LoPathReclaimAttemptFreq EXCEPT ![t] = freq]
    /\ firstLoEntryFlag' = [firstLoEntryFlag EXCEPT ![t] = FALSE]
    /\ retire_bag_size_when_entered_loWm' =
          [retire_bag_size_when_entered_loWm EXCEPT ![t] = Len(retired[t])]
    /\ UNCHANGED <<records, reserved, retired, stamps, numRetiresSinceLoWatermark,
                   signals, reading, obj, scanned, limit, ref>>

(* Has some thread pinged since?  Its time stamp grew by two. *)
pingedSince(t, u) == announcedTS[u] >= savedTS[t][u] + 2

lo_check(t) ==
    /\ \/ /\ goto(t, "check", "scan")
          /\ pingedSince(t, i[t])
          /\ i' = [i EXCEPT ![t] = 0]
          /\ UNCHANGED loWm
       \/ /\ goto(t, "check", "check")
          /\ ~pingedSince(t, i[t])
          /\ i[t] + 1 < NumProcess
          /\ i' = [i EXCEPT ![t] = @ + 1]
          /\ UNCHANGED loWm
       \/ /\ goto(t, "check", "op")
          /\ ~pingedSince(t, i[t])
          /\ i[t] + 1 = NumProcess
          /\ i' = [i EXCEPT ![t] = 0]
          /\ countRetire(t)
    /\ UNCHANGED <<records, reserved, retired, stamps, signals, reading, obj, scanned,
                   limit, ref>>

(* At the low watermark only what was in the list on entry may be freed. *)
sweepLimit(t) ==
    IF firstLoEntryFlag[t] THEN Len(retired[t]) ELSE retire_bag_size_when_entered_loWm[t]

(* empty, first loop: copy the published slots, one load a step. *)
empty_scan(t) ==
    /\ IF i[t] + 1 < NumSlots
       THEN /\ goto(t, "scan", "scan")
            /\ i' = [i EXCEPT ![t] = @ + 1]
            /\ UNCHANGED limit
       ELSE /\ goto(t, "scan", "sweep")
            /\ i' = [i EXCEPT ![t] = 0]
            /\ limit' = [limit EXCEPT ![t] = sweepLimit(t)]
    /\ scanned' = [scanned EXCEPT ![t] = @ \union ({slots[i[t]]} \ {NULL})]
    /\ UNCHANGED <<records, reserved, retired, stamps, loWm, signals, reading, obj, ref>>

(* empty, second loop: free what the copy does not name, from the front. *)
conflict(t, n) == n \in scanned[t]

reclaimable(t) == {k \in 1 .. limit[t] : ~conflict(t, retired[t][k])}

empty_free(t) ==
    /\ goto(t, "sweep", "sweep")
    /\ \E k \in reclaimable(t) :
          /\ \A j \in reclaimable(t) : k <= j
          /\ poolAdd(retired[t][k])
          /\ retired' = [retired EXCEPT ![t] = RemoveAt(@, k)]
    /\ limit' = [limit EXCEPT ![t] = @ - 1]
    /\ UNCHANGED <<reserved, stamps, loWm, signals, reading, obj, i, scanned, ref>>

empty_return(t) ==
    /\ goto(t, "sweep", "op")
    /\ reclaimable(t) = {}
    /\ limit' = [limit EXCEPT ![t] = 0]
    /\ scanned' = [scanned EXCEPT ![t] = {}]
    /\ resetLoWmMetaData(t)
    /\ UNCHANGED <<records, reserved, retired, stamps, signals, reading, obj, i, ref>>

-------------------------------------------------------------------------------
client(t) ==
    \/ endOp(t) \/ read_load(t) \/ reserve(t) \/ read_validate(t)
    \/ \E c \in Cell :
          \/ insert(t, c) \/ erase(t, c)
          \/ \E s \in slotsOf(t) : read_call(t, s, c)

retire(t) ==
    \/ retire_push(t)
    \/ hi_announce(t) \/ hi_publish(t) \/ hi_ping(t) \/ hi_confirm(t)
    \/ lo_save(t) \/ lo_check(t)
    \/ empty_scan(t) \/ empty_free(t) \/ empty_return(t)

signal(t) == handler_start(t) \/ handler_publish(t) \/ handler_return(t)

Next == \E t \in Tid : client(t) \/ retire(t) \/ signal(t)

Spec == Init /\ [][Next]_vars

-------------------------------------------------------------------------------
(* Every variable holds what the code can store in it. *)
TypeOK ==
    /\ RecordsTypeOK
    /\ local_slots \in [Slot -> Pointer] /\ slots \in [Slot -> Pointer]
    /\ retired \in [Tid -> Seq(Node)]
    /\ announcedTS \in [Tid -> Nat] /\ mypublishingTS \in [Tid -> Nat]
    /\ myscannedTS \in [Tid -> [Tid -> Nat]] /\ savedTS \in [Tid -> [Tid -> Nat]]
    /\ firstLoEntryFlag \in [Tid -> BOOLEAN]
    /\ numRetiresSinceLoWatermark \in [Tid -> 0 .. EmptyFreq - 1 - EmptyFreq \div 2]
    /\ LoPathReclaimAttemptFreq \in [Tid -> LoFreqs]
    /\ retire_bag_size_when_entered_loWm \in [Tid -> 0 .. EmptyFreq - 1]
    /\ pending \in [Tid -> BOOLEAN]
    /\ handler \in [Tid -> 0 .. SlotsPerThread + 1]
    /\ pc \in [Tid -> {"op", "load", "reserve", "validate", "retire", "announce", "publish",
                       "ping", "confirm", "save", "check", "scan", "sweep"}]
    /\ idx \in [Tid -> Slot] /\ i \in [Tid -> 0 .. NumSlots]
    /\ src \in [Tid -> Cell \union {NULL}]
    /\ ret \in [Tid -> Pointer] /\ obj \in [Tid -> Pointer]
    /\ scanned \in [Tid -> SUBSET Node]
    /\ limit \in [Tid -> Nat] /\ \A t \in Tid : limit[t] <= Len(retired[t])
    /\ ref \in [Slot -> Pointer]

(* pool->add frees no record that read has returned and that its caller    *)
(* still reserves with the slot it gave to read.                           *)
NoUseAfterFree == \A s \in Slot : ref[s] \notin pool

(* "ensure all threads published": a thread that pinged starts to empty    *)
(* its list only when every other thread has published since.              *)
AllPublished ==
    \A t, u \in Tid :
        t # u /\ pc[t] = "scan" /\ i[t] = 0 /\ firstLoEntryFlag[t]
            => mypublishingTS[u] > myscannedTS[t][u]

(* While a thread is past the low watermark, the prefix of its list that   *)
(* empty may free is what it had retired when it began to copy the time    *)
(* stamps: every retire since then is counted, and is behind the prefix.   *)
LimitAtEntry ==
    \A t \in Tid : pc[t] = "op" /\ ~firstLoEntryFlag[t] =>
        Len(retired[t]) + 1
            = retire_bag_size_when_entered_loWm[t] + numRetiresSinceLoWatermark[t]

(* However long a thread stays in an operation, no list outgrows a full    *)
(* one, or the slots and the record that found them all taken.             *)
BoundedGarbage == \A t \in Tid : Len(retired[t]) <= Max({EmptyFreq, NumSlots + 1})

(* The reclaimer keeps the contract of SafeReclamation. *)
status ==
    [n \in Node |->
        IF n \in pool THEN "free"
        ELSE IF n \in Linked THEN "linked"
        ELSE IF \E t \in Tid : Contains(retired[t], n) THEN "retired"
        ELSE "unlinked"]

held == [t \in Tid |-> {n \in Node : \E s \in slotsOf(t) : ref[s] = n}]

Contract == INSTANCE SafeReclamation WITH Thread <- Tid
Reclamation == Contract!Spec
===============================================================================
