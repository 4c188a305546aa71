------------------------------- MODULE NBRPlus -------------------------------
(***************************************************************************)
(* Neutralization based reclamation with watermarks, reclaimer_nbrplus.h.  *)
(* An operation begins with a read phase, in which its thread protects     *)
(* nothing; before it writes it saves the records it goes on to use.  A    *)
(* thread whose bag is full sends all others a signal, whose handler       *)
(* (recovery_manager.h) throws a thread in its read phase back to the      *)
(* start of the operation.  A thread whose bag is half full (low           *)
(* watermark) waits for another one to send signals.                       *)
(*                                                                         *)
(* Modelled as built by default, with NDEBUG and without                   *)
(* DEAMORTIZE_FREE_CALLS: a record that is freed goes to the pool.         *)
(***************************************************************************)
EXTENDS LinkedRecords, SequencesExt

CONSTANTS
    MaxSaved,           \* MAX_PER_THREAD_HAZARDPTR: 3 in the code
    Capacity,           \* bagCapacityThreshold: a full bag
    LoFreqs,            \* what rand() can make LoPathReclaimAttemptFreq
    MaxTS               \* BOUND: announcedTS does not exceed it

VARIABLES
    proposed,           \* per thread, proposedHzptrs: what it saved, in order
    retired,            \* per thread, retiredBag
    announcedTS,        \* per thread, odd while it sends signals
    savedTS,            \* per thread, the announcedTS it saw at the low watermark
    firstLoEntryFlag, numRetiresSinceLoWatermark, LoPathReclaimAttemptFreq,
    bookmark,           \* per thread, what of its bag savedRetireBagBlockInfo is
                        \* at or below
    restartable,        \* per thread, whether it is in a read phase
    pending,            \* per thread, whether a signal waits to be delivered
    pc,                 \* per thread, the step it takes next
    obj,                \* argument of retire
    i, sz, scanned,     \* loop index, the size of a list that is being read,
                        \* scannedHzptrs
    freeable,           \* per thread, the records it is about to free if nobody
                        \* has saved them
    waiting             \* per record that was unlinked, the threads that may
                        \* have a pointer to it

loWm == <<savedTS, firstLoEntryFlag, numRetiresSinceLoWatermark,
          LoPathReclaimAttemptFreq, bookmark>>
emptying == <<i, sz, scanned, freeable>>
vars == <<records, proposed, retired, announcedTS, loWm, restartable, pending, pc, obj,
          emptying, waiting>>

Init ==
    /\ RecordsInit
    /\ proposed = [t \in Tid |-> <<>>]
    /\ retired = [t \in Tid |-> {}]
    /\ announcedTS = [t \in Tid |-> 0]
    /\ savedTS = [t \in Tid |-> [u \in Tid |-> 0]]
    /\ firstLoEntryFlag = [t \in Tid |-> TRUE]
    /\ numRetiresSinceLoWatermark = [t \in Tid |-> 0]
    /\ LoPathReclaimAttemptFreq = [t \in Tid |-> Max(LoFreqs)]
    /\ bookmark = [t \in Tid |-> {}]
    /\ restartable = [t \in Tid |-> FALSE]
    /\ pending = [t \in Tid |-> FALSE]
    /\ pc = [t \in Tid |-> "idle"]
    /\ obj = [t \in Tid |-> NULL]
    /\ i = [t \in Tid |-> <<0, 0>>]
    /\ sz = [t \in Tid |-> 0]
    /\ scanned = [t \in Tid |-> {}]
    /\ freeable = [t \in Tid |-> {}]
    /\ waiting = [n \in Node |-> {}]

goto(t, from, to) == pc[t] = from /\ pc' = [pc EXCEPT ![t] = to]

saved(t) == ToSet(proposed[t])

(* Thread t has no pointers any more but those to the records of S. *)
dropAllBut(t, S) ==
    waiting' = [n \in Node |-> IF n \in S THEN waiting[n] ELSE waiting[n] \ {t}]

(* The records a thread in its read phase may have come upon. *)
found(t) == Linked \union {n \in Node : t \in waiting[n]}

-------------------------------------------------------------------------------
(* Wrong versions of steps below, which the properties must tell from the  *)
(* right ones.                                                             *)

(* sends the signals to the threads before its own only *)
hi_signalEarlier(t) ==
    /\ IF i[t][1] + 1 < NumProcess
       THEN goto(t, "signal", "signal") /\ i' = [i EXCEPT ![t][1] = @ + 1]
       ELSE goto(t, "signal", "signalled") /\ i' = [i EXCEPT ![t] = <<0, 0>>]
    /\ pending' = [pending EXCEPT ![i[t][1]] = @ \/ i[t][1] < t]
    /\ UNCHANGED <<records, proposed, retired, announcedTS, loWm, restartable, obj, sz,
                   scanned, freeable, waiting>>

-------------------------------------------------------------------------------
(* The handler: a thread in its write phase, or between operations, goes   *)
(* on; one in its read phase goes back to CHECKPOINT_TR.                   *)
handler(t) ==
    /\ pending[t]
    /\ pending' = [pending EXCEPT ![t] = FALSE]
    /\ IF restartable[t]
       THEN /\ restartable' = [restartable EXCEPT ![t] = FALSE]
            /\ pc' = [pc EXCEPT ![t] = "idle"]
            /\ dropAllBut(t, {})
       ELSE UNCHANGED <<restartable, pc, waiting>>
    /\ UNCHANGED <<records, proposed, retired, announcedTS, loWm, obj, emptying>>

startOp(t) ==
    /\ goto(t, "idle", "read")
    /\ proposed' = [proposed EXCEPT ![t] = <<>>]
    /\ restartable' = [restartable EXCEPT ![t] = TRUE]
    /\ UNCHANGED <<records, retired, announcedTS, loWm, pending, obj, emptying, waiting>>

(* The record is stored behind the others, and then counted. *)
saveForWritePhase(t, n) ==
    /\ goto(t, "read", "read")
    /\ Len(proposed[t]) < MaxSaved
    /\ n \in found(t) \ saved(t)
    /\ proposed' = [proposed EXCEPT ![t] = Append(@, n)]
    /\ UNCHANGED <<records, retired, announcedTS, loWm, restartable, pending, obj,
                   emptying, waiting>>

upgradeToWritePhase(t) ==
    /\ goto(t, "read", "write")
    /\ restartable' = [restartable EXCEPT ![t] = FALSE]
    /\ dropAllBut(t, saved(t))
    /\ UNCHANGED <<records, proposed, retired, announcedTS, loWm, pending, obj, emptying>>

(* The list keeps what was saved until the next startOp. *)
endOp(t) ==
    /\ goto(t, "read", "idle") \/ goto(t, "write", "idle")
    /\ restartable' = [restartable EXCEPT ![t] = FALSE]
    /\ dropAllBut(t, {})
    /\ UNCHANGED <<records, proposed, retired, announcedTS, loWm, pending, obj, emptying>>

insert(t, c) ==
    /\ goto(t, "write", "write")
    /\ link(c)
    /\ UNCHANGED <<proposed, retired, announcedTS, loWm, restartable, pending, obj,
                   emptying, waiting>>

(* A record is unlinked by a thread that has saved it.  Whoever is in its  *)
(* read phase or has saved it, too, may have a pointer to it.              *)
erase(t, c) ==
    /\ goto(t, "write", "retire")
    /\ cell[c] \in saved(t)
    /\ announcedTS[t] + 2 <= MaxTS
    /\ unlink(c, cell[c])
    /\ obj' = [obj EXCEPT ![t] = cell[c]]
    /\ waiting' = [waiting EXCEPT ![cell[c]] =
          {u \in Tid : restartable[u] \/ (pc[u] # "idle" /\ cell[c] \in saved(u))}]
    /\ UNCHANGED <<proposed, retired, announcedTS, loWm, restartable, pending, emptying>>

-------------------------------------------------------------------------------
isOutOfPatience(t) == Cardinality(retired[t]) > Capacity

isPastLoWatermark(t) ==
    /\ Cardinality(retired[t]) > Capacity \div 2
    /\ numRetiresSinceLoWatermark[t] % LoPathReclaimAttemptFreq[t] = 0

resetLoWmMetaData(t) ==
    /\ firstLoEntryFlag' = [firstLoEntryFlag EXCEPT ![t] = TRUE]
    /\ savedTS' = [savedTS EXCEPT ![t] = [u \in Tid |-> 0]]
    /\ numRetiresSinceLoWatermark' = [numRetiresSinceLoWatermark EXCEPT ![t] = 0]
    /\ bookmark' = [bookmark EXCEPT ![t] = {}]
    /\ UNCHANGED LoPathReclaimAttemptFreq

(* The first thing retire does is to look at the bag, without the record.  *)
retire_check(t) ==
    /\ goto(t, "retire", CASE isOutOfPatience(t) -> "announce"
                           [] ~isOutOfPatience(t) /\ ~isPastLoWatermark(t) -> "add"
                           [] OTHER -> IF firstLoEntryFlag[t] THEN "save" ELSE "check")
    /\ UNCHANGED <<records, proposed, retired, announcedTS, loWm, restartable, pending,
                   obj, emptying, waiting>>

hi_announce(t) ==
    /\ goto(t, "announce", "signal")
    /\ announcedTS' = [announcedTS EXCEPT ![t] = @ + 1]
    /\ UNCHANGED <<records, proposed, retired, loWm, restartable, pending, obj, emptying,
                   waiting>>

(* requestAllThreadsToRestart, one pthread_kill a step. *)
hi_signal(t) ==
    /\ IF i[t][1] + 1 < NumProcess
       THEN goto(t, "signal", "signal") /\ i' = [i EXCEPT ![t][1] = @ + 1]
       ELSE goto(t, "signal", "signalled") /\ i' = [i EXCEPT ![t] = <<0, 0>>]
    /\ pending' = [pending EXCEPT ![i[t][1]] = @ \/ i[t][1] # t]
    /\ UNCHANGED <<records, proposed, retired, announcedTS, loWm, restartable, obj, sz,
                   scanned, freeable, waiting>>

(* The code goes on at once.  That the handlers have run by then is what   *)
(* NBR takes from the machine; POSIX does not promise it.                  *)
hi_announceEnd(t) ==
    /\ goto(t, "signalled", "size")
    /\ \A u \in Tid \ {t} : ~pending[u]
    /\ announcedTS' = [announcedTS EXCEPT ![t] = @ + 1]
    /\ freeable' = [freeable EXCEPT ![t] = retired[t]]
    /\ UNCHANGED <<records, proposed, retired, loWm, restartable, pending, obj, i, sz,
                   scanned, waiting>>

(* setLoWmMetaData: the bookmark first, then one load of announcedTS a     *)
(* step.                                                                   *)
lo_save(t) ==
    /\ IF i[t][1] + 1 < NumProcess
       THEN goto(t, "save", "save") /\ i' = [i EXCEPT ![t][1] = @ + 1]
       ELSE goto(t, "save", "check") /\ i' = [i EXCEPT ![t] = <<0, 0>>]
    /\ savedTS' = [savedTS EXCEPT ![t][i[t][1]] = announcedTS[i[t][1]]]
    /\ firstLoEntryFlag' = [firstLoEntryFlag EXCEPT ![t] = FALSE]
    /\ bookmark' = [bookmark EXCEPT ![t] = retired[t]]
    /\ \E freq \in LoFreqs :
          LoPathReclaimAttemptFreq' = [LoPathReclaimAttemptFreq EXCEPT ![t] = freq]
    /\ UNCHANGED <<records, proposed, retired, announcedTS, numRetiresSinceLoWatermark,
                   restartable, pending, obj, sz, scanned, freeable, waiting>>

(* What LoWmreclaimFreeable does not take off the bag first: nothing that   *)
(* was retired since the bookmark.                                         *)
reclaimableLow(t) == bookmark[t]

(* Has some thread started and finished sending signals since? *)
signalledSince(t, u) == announcedTS[u] >= savedTS[t][u] + 2

lo_check(t) ==
    /\ IF signalledSince(t, i[t][1])
       THEN /\ goto(t, "check", "size")
            /\ i' = [i EXCEPT ![t] = <<0, 0>>]
            /\ freeable' = [freeable EXCEPT ![t] = reclaimableLow(t)]
       ELSE /\ IF i[t][1] + 1 < NumProcess
               THEN goto(t, "check", "check") /\ i' = [i EXCEPT ![t][1] = @ + 1]
               ELSE goto(t, "check", "add") /\ i' = [i EXCEPT ![t] = <<0, 0>>]
            /\ UNCHANGED freeable
    /\ UNCHANGED <<records, proposed, retired, announcedTS, loWm, restartable, pending,
                   obj, sz, scanned, waiting>>

(* collectAllSavedRecords: the size of a thread's list, then its entries. *)
nextThread(t) ==
    IF i[t][1] + 1 < NumProcess
    THEN goto(t, pc[t], "size") /\ i' = [i EXCEPT ![t] = <<i[t][1] + 1, 0>>]
    ELSE goto(t, pc[t], "sweep") /\ i' = [i EXCEPT ![t] = <<0, 0>>]

collect_size(t) ==
    /\ pc[t] = "size"
    /\ LET size == Len(proposed[i[t][1]]) IN
          IF size = 0
          THEN nextThread(t) /\ UNCHANGED sz
          ELSE goto(t, "size", "collect") /\ sz' = [sz EXCEPT ![t] = size] /\ UNCHANGED i
    /\ UNCHANGED <<records, proposed, retired, announcedTS, loWm, restartable, pending,
                   obj, scanned, freeable, waiting>>

(* An entry its owner has not stored anew since then still has its old     *)
(* value in the code: the copy may then hold a record more than this one.  *)
collect_get(t) ==
    /\ pc[t] = "collect"
    /\ LET list == proposed[i[t][1]]
           k == i[t][2] + 1
       IN  scanned' = [scanned EXCEPT ![t] = IF k <= Len(list) THEN @ \union {list[k]} ELSE @]
    /\ IF i[t][2] + 1 < sz[t]
       THEN goto(t, "collect", "collect") /\ i' = [i EXCEPT ![t][2] = @ + 1] /\ UNCHANGED sz
       ELSE nextThread(t) /\ sz' = [sz EXCEPT ![t] = 0]
    /\ UNCHANGED <<records, proposed, retired, announcedTS, loWm, restartable, pending,
                   obj, freeable, waiting>>

(* sendFreeableRecordsToPool: what somebody has saved goes back to the bag. *)
sendFreeableRecordsToPool(t) ==
    /\ goto(t, "sweep", "sweep")
    /\ \E n \in freeable[t] \ scanned[t] :
          /\ poolAdd(n)
          /\ retired' = [retired EXCEPT ![t] = @ \ {n}]
          /\ freeable' = [freeable EXCEPT ![t] = @ \ {n}]
    /\ UNCHANGED <<proposed, announcedTS, loWm, restartable, pending, obj, i, sz, scanned,
                   waiting>>

reclaim_end(t) ==
    /\ goto(t, "sweep", "add")
    /\ freeable[t] \subseteq scanned[t]
    /\ scanned' = [scanned EXCEPT ![t] = {}]
    /\ freeable' = [freeable EXCEPT ![t] = {}]
    /\ resetLoWmMetaData(t)
    /\ UNCHANGED <<records, proposed, retired, announcedTS, restartable, pending, obj, i,
                   sz, waiting>>

retire_add(t) ==
    /\ goto(t, "add", "write")
    /\ retired' = [retired EXCEPT ![t] = @ \union {obj[t]}]
    /\ obj' = [obj EXCEPT ![t] = NULL]
    /\ numRetiresSinceLoWatermark' =
          [numRetiresSinceLoWatermark EXCEPT ![t] = IF firstLoEntryFlag[t] THEN @ ELSE @ + 1]
    /\ UNCHANGED <<records, proposed, announcedTS, savedTS, firstLoEntryFlag, bookmark,
                   LoPathReclaimAttemptFreq, restartable, pending, emptying, waiting>>

-------------------------------------------------------------------------------
client(t) ==
    \/ startOp(t) \/ upgradeToWritePhase(t) \/ endOp(t)
    \/ \E n \in Node : saveForWritePhase(t, n)
    \/ \E c \in Cell : insert(t, c) \/ erase(t, c)

retire(t) ==
    \/ retire_check(t) \/ retire_add(t)
    \/ hi_announce(t) \/ hi_signal(t) \/ hi_announceEnd(t)
    \/ lo_save(t) \/ lo_check(t)
    \/ collect_size(t) \/ collect_get(t)
    \/ sendFreeableRecordsToPool(t) \/ reclaim_end(t)

Next == \E t \in Tid : client(t) \/ retire(t) \/ handler(t)

Spec == Init /\ [][Next]_vars

-------------------------------------------------------------------------------
(* Every variable holds what the code can store in it. *)
TypeOK ==
    /\ RecordsTypeOK
    /\ \A t \in Tid : proposed[t] \in Seq(Node) /\ Len(proposed[t]) <= MaxSaved
    /\ retired \in [Tid -> SUBSET Node]
    /\ announcedTS \in [Tid -> 0 .. MaxTS]
    /\ savedTS \in [Tid -> [Tid -> 0 .. MaxTS]]
    /\ firstLoEntryFlag \in [Tid -> BOOLEAN]
    /\ numRetiresSinceLoWatermark \in [Tid -> 0 .. Capacity + 1]
    /\ LoPathReclaimAttemptFreq \in [Tid -> LoFreqs]
    /\ \A t \in Tid : bookmark[t] \subseteq Node /\ (firstLoEntryFlag[t] <=> bookmark[t] = {})
    /\ restartable \in [Tid -> BOOLEAN]
    /\ pending \in [Tid -> BOOLEAN]
    /\ pc \in [Tid -> {"idle", "read", "write", "retire", "announce", "signal", "signalled",
                       "save", "check", "size", "collect", "sweep", "add"}]
    /\ \A t \in Tid : restartable[t] <=> pc[t] = "read"
    /\ obj \in [Tid -> Node \union {NULL}]
    /\ i \in [Tid -> (0 .. NumProcess - 1) \X (0 .. MaxSaved - 1)]
    /\ sz \in [Tid -> 0 .. MaxSaved]
    /\ scanned \in [Tid -> SUBSET Node]
    /\ freeable \in [Tid -> SUBSET Node]
    /\ waiting \in [Node -> SUBSET Tid]

(* pool->add frees no record to which a thread in its read phase may have  *)
(* a pointer, or which a thread has saved and uses in its write phase.     *)
NoUseAfterFree == \A n \in pool : waiting[n] = {}

(* What the signals are for: when a thread begins to collect what others   *)
(* have saved, no thread is left in a read phase that began before what    *)
(* may be freed was unlinked.                                              *)
Neutralized ==
    \A t \in Tid : pc[t] \in {"size", "collect", "sweep"} =>
        \A n \in freeable[t] : \A u \in waiting[n] :
            ~restartable[u] /\ n \in saved(u)
===============================================================================
