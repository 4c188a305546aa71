----------------------------- MODULE HazardEraPOP -----------------------------
(***************************************************************************)
(* HazardEraPOP, reclaimer_nbr_popplushe.h: hazard eras published on ping. *)
(* read and endOp are those of hazard eras, with reservations only their   *)
(* own thread looks at (local_reserved_epoch in the code).  A thread whose *)
(* list is full publishes its own, pings all others, whose handlers do the *)
(* same, and counts the round in publishing_epoch.  A thread past the low  *)
(* watermark empties its list once that count has changed.                 *)
(*                                                                         *)
(* Modelled with NDEBUG: of the loop after "ensure all threads published"  *)
(* nothing is left, so that the time stamps it compares are left out.      *)
(***************************************************************************)
EXTENDS HazardEras, FiniteSetsExt

CONSTANTS
    Threshold,          \* bagCapacityThreshold: a full list
    HiFreq,             \* 512: full lists between two rounds of pings
    LoFreqs,            \* what rand() can make LoPathReclaimAttemptFreq
    PromptDelivery,     \* TRUE: the handlers have run when the pinging loop ends.
                        \* Not promised by POSIX, which lets a signal be pending.
    MaxRounds           \* BOUND: publishing_epoch does not exceed it

VARIABLES
    published,          \* the shared reservations, per slot
    publishing_epoch,   \* how many rounds of pings there have been
    saved_publishing_epoch, \* per thread, the count it saw last
    retires_since_HiWm, firstLoEntryFlag, numRetiresSinceLoWatermark,
    LoPathReclaimAttemptFreq,
    entered,            \* per thread, the first retire_bag_size_when_entered_loWm
                        \* records of its list
    pending,            \* per thread, whether a ping waits to be delivered
    handler,            \* per thread, 0, or the next step of its signal handler
    i                   \* loop index of publishReservations and the pings

rounds == <<publishing_epoch, saved_publishing_epoch, retires_since_HiWm>>
loWm == <<firstLoEntryFlag, numRetiresSinceLoWatermark, LoPathReclaimAttemptFreq, entered>>
popVars == <<published, rounds, loWm, pending, handler, i>>
allVars == <<eraVars, popVars>>

PopInit ==
    /\ Init
    /\ published = [s \in Slot |-> NONE_RESERVED]
    /\ publishing_epoch = 0
    /\ saved_publishing_epoch = [t \in Tid |-> 0]
    /\ retires_since_HiWm = [t \in Tid |-> 0]
    /\ firstLoEntryFlag = [t \in Tid |-> TRUE]
    /\ numRetiresSinceLoWatermark = [t \in Tid |-> 0]
    /\ LoPathReclaimAttemptFreq = [t \in Tid |-> Max(LoFreqs)]
    /\ entered = [t \in Tid |-> {}]
    /\ pending = [t \in Tid |-> FALSE]
    /\ handler = [t \in Tid |-> 0]
    /\ i = [t \in Tid |-> 0]

-------------------------------------------------------------------------------
(* publishReservations, one store a step.  Signals are blocked while the   *)
(* handler runs, and pings that are pending together are one.              *)
publish(t, k) == published' = [published EXCEPT ![<<t, k>>] = reservations[<<t, k>>]]

handler_start(t) ==
    /\ pending[t] /\ handler[t] = 0
    /\ pending' = [pending EXCEPT ![t] = FALSE]
    /\ handler' = [handler EXCEPT ![t] = 1]
    /\ UNCHANGED <<eraVars, published, rounds, loWm, i>>

handler_publish(t) ==
    /\ handler[t] \in 1 .. SlotsPerThread
    /\ publish(t, handler[t])
    /\ handler' = [handler EXCEPT ![t] = (@ + 1) % (SlotsPerThread + 1)]
    /\ UNCHANGED <<eraVars, rounds, loWm, pending, i>>

-------------------------------------------------------------------------------
(* Leaving the low watermark. *)
resetLoWmMetaData(t) ==
    /\ firstLoEntryFlag' = [firstLoEntryFlag EXCEPT ![t] = TRUE]
    /\ numRetiresSinceLoWatermark' = [numRetiresSinceLoWatermark EXCEPT ![t] = 0]
    /\ entered' = [entered EXCEPT ![t] = {}]
    /\ UNCHANGED LoPathReclaimAttemptFreq

(* The end of retire: count the retires since the low watermark. *)
countRetire(t) ==
    /\ numRetiresSinceLoWatermark' =
          [numRetiresSinceLoWatermark EXCEPT ![t] = IF firstLoEntryFlag[t] THEN @ ELSE @ + 1]
    /\ UNCHANGED <<firstLoEntryFlag, LoPathReclaimAttemptFreq, entered>>

isOutOfPatience(t, size) == size >= Threshold /\ retires_since_HiWm[t] % HiFreq = 0

isPastLoWatermark(t, size) ==
    /\ size > Threshold \div 4
    /\ numRetiresSinceLoWatermark[t] % LoPathReclaimAttemptFreq[t] = 0

(* Whoever retires a record does not use it again. *)
retire_pushLocal(t) ==
    LET info == [obj |-> obj[t], birth |-> birth[obj[t]], retire |-> e[t]]
        size == Cardinality(retired[t]) + 1
    IN
    /\ \/ /\ isOutOfPatience(t, size)
          /\ goto(t, "push", "publish")
          /\ resetLoWmMetaData(t)
       \/ /\ ~isOutOfPatience(t, size)
          /\ isPastLoWatermark(t, size)
          /\ goto(t, "push", IF firstLoEntryFlag[t] THEN "low" ELSE "low check")
          /\ UNCHANGED loWm
       \/ /\ ~isOutOfPatience(t, size)
          /\ ~isPastLoWatermark(t, size)
          /\ goto(t, "push", "op")
          /\ countRetire(t)
    /\ retired' = [retired EXCEPT ![t] = @ \union {info}]
    /\ obj' = [obj EXCEPT ![t] = NULL]
    /\ e' = [e EXCEPT ![t] = 0]
    /\ ref' = [s \in Slot |-> IF s \in slotsOf(t) THEN ref[s] \ {obj[t]} ELSE ref[s]]
    /\ UNCHANGED <<records, epoch, birth, reservations, retire_counters, alloc_counters,
                   newNode, reading, emptying, published, rounds, pending, handler, i>>

-------------------------------------------------------------------------------
(* requestAllThreadsToRestart: the thread publishes its own reservations,  *)
hi_publish(t) ==
    /\ goto(t, "publish", IF i[t] + 1 < SlotsPerThread THEN "publish" ELSE "ping")
    /\ publish(t, i[t] + 1)
    /\ i' = [i EXCEPT ![t] = (@ + 1) % SlotsPerThread]
    /\ UNCHANGED <<records, reclaimer, newNode, reading, retiring, emptying, ref,
                   rounds, loWm, pending, handler>>

(* sends every other thread the signal, *)
hi_ping(t) ==
    /\ goto(t, "ping", IF i[t] + 1 < NumProcess THEN "ping" ELSE "count")
    /\ pending' = [pending EXCEPT ![i[t]] = @ \/ i[t] # t]
    /\ i' = [i EXCEPT ![t] = (@ + 1) % NumProcess]
    /\ UNCHANGED <<records, reclaimer, newNode, reading, retiring, emptying, ref,
                   published, rounds, loWm, handler>>

(* counts the round *)
hi_count(t) ==
    /\ goto(t, "count", "save")
    /\ PromptDelivery => \A u \in Tid \ {t} : ~pending[u] /\ handler[u] = 0
    /\ publishing_epoch < MaxRounds
    /\ publishing_epoch' = publishing_epoch + 1
    /\ UNCHANGED <<records, reclaimer, newNode, reading, retiring, emptying, ref,
                   published, saved_publishing_epoch, retires_since_HiWm, loWm,
                   pending, handler, i>>

(* and goes on to empty its list. *)
hi_save(t) ==
    /\ goto(t, "save", "scan")
    /\ saved_publishing_epoch' = [saved_publishing_epoch EXCEPT ![t] = publishing_epoch]
    /\ toScan' = [toScan EXCEPT ![t] = Slot]
    /\ UNCHANGED <<records, reclaimer, newNode, reading, retiring, scanned, ref,
                   published, publishing_epoch, retires_since_HiWm, loWm, pending,
                   handler, i>>

-------------------------------------------------------------------------------
(* The first retire past the low watermark remembers the list it found. *)
lo_enter(t) ==
    /\ goto(t, "low", "low check")
    /\ firstLoEntryFlag' = [firstLoEntryFlag EXCEPT ![t] = FALSE]
    /\ \E freq \in LoFreqs :
          LoPathReclaimAttemptFreq' = [LoPathReclaimAttemptFreq EXCEPT ![t] = freq]
    /\ entered' = [entered EXCEPT ![t] = {res.obj : res \in retired[t]}]
    /\ saved_publishing_epoch' = [saved_publishing_epoch EXCEPT ![t] = publishing_epoch]
    /\ UNCHANGED <<records, reclaimer, newNode, reading, retiring, emptying, ref,
                   published, publishing_epoch, retires_since_HiWm,
                   numRetiresSinceLoWatermark, pending, handler, i>>

(* Has there been a round of pings since? *)
lo_check(t) ==
    /\ \/ /\ goto(t, "low check", "scan")
          /\ publishing_epoch # saved_publishing_epoch[t]
          /\ saved_publishing_epoch' = [saved_publishing_epoch EXCEPT ![t] = publishing_epoch]
          /\ toScan' = [toScan EXCEPT ![t] = Slot]
          /\ UNCHANGED loWm
       \/ /\ goto(t, "low check", "op")
          /\ publishing_epoch = saved_publishing_epoch[t]
          /\ countRetire(t)
          /\ UNCHANGED <<saved_publishing_epoch, toScan>>
    /\ UNCHANGED <<records, reclaimer, newNode, reading, retiring, scanned, ref,
                   published, publishing_epoch, retires_since_HiWm, pending, handler, i>>

-------------------------------------------------------------------------------
(* empty, first loop: the published slots are copied one by one, in order. *)
empty_copy(t) ==
    /\ pc[t] = "scan"
    /\ \E s \in toScan[t] :
          /\ \A r \in toScan[t] \ {s} : before(s, r)
          /\ scanned' = [scanned EXCEPT ![t] = @ \union {published[s]}]
          /\ toScan' = [toScan EXCEPT ![t] = @ \ {s}]
          /\ goto(t, "scan", IF toScan[t] = {s} THEN "sweep" ELSE "scan")
    /\ UNCHANGED <<records, reclaimer, newNode, reading, retiring, ref, popVars>>

(* Past the low watermark only what was in the list on entry may be freed. *)
freeable(t) ==
    {res \in retired[t] :
        /\ ~conflict(t, res)
        /\ firstLoEntryFlag[t] \/ res.obj \in entered[t]}

(* Behind a round of pings, a list that is still full counts as an attempt *)
(* that failed; the low watermark is left.                                 *)
empty_end(t) ==
    /\ freeable(t) = {}
    /\ empty_return(t)
    /\ \/ /\ firstLoEntryFlag[t]
          /\ retires_since_HiWm' = [retires_since_HiWm EXCEPT
                ![t] = IF Cardinality(retired[t]) < Threshold THEN 0 ELSE @ + 1]
          /\ UNCHANGED loWm
       \/ /\ ~firstLoEntryFlag[t]
          /\ resetLoWmMetaData(t)
          /\ UNCHANGED retires_since_HiWm
    /\ UNCHANGED <<published, publishing_epoch, saved_publishing_epoch, pending,
                   handler, i>>

-------------------------------------------------------------------------------
(* A thread takes its own steps while it is not in the signal handler. *)
ownStep(t) ==
    /\ handler[t] = 0
    /\ \/ (shared(t) \/ client(t)) /\ UNCHANGED popVars
       \/ retire_pushLocal(t)
       \/ hi_publish(t) \/ hi_ping(t) \/ hi_count(t) \/ hi_save(t)
       \/ lo_enter(t) \/ lo_check(t)
       \/ empty_copy(t) \/ empty_end(t)
       \/ (\E res \in freeable(t) : empty_free(t, res)) /\ UNCHANGED popVars

PopNext == \E t \in Tid : ownStep(t) \/ handler_start(t) \/ handler_publish(t)

PopSpec == PopInit /\ [][PopNext]_allVars

-------------------------------------------------------------------------------
(* Every variable holds what the code can store in it. *)
PopTypeOK ==
    /\ RecordsTypeOK
    /\ epoch \in Epoch \ {0}
    /\ birth \in [Node -> Epoch]
    /\ reservations \in [Slot -> Epoch] /\ published \in [Slot -> Epoch]
    /\ retired \in [Tid -> SUBSET Info]
    /\ alloc_counters \in [Tid -> 0 .. AllocPeriod - 1]
    /\ pc \in [Tid -> {"op", "load", "check", "announce", "created", "link", "retire",
                       "push", "publish", "ping", "count", "save", "low", "low check",
                       "scan", "sweep"}]
    /\ retires_since_HiWm \in [Tid -> 0 .. 1]
    /\ \A t \in Tid : saved_publishing_epoch[t] <= publishing_epoch
    /\ handler \in [Tid -> 0 .. SlotsPerThread]
    /\ toScan \in [Tid -> SUBSET Slot]
    /\ scanned \in [Tid -> SUBSET Epoch]
    /\ ref \in [Slot -> SUBSET Node]

(* The prefix of the list that the low watermark may free is still there,  *)
(* and the rest of the list is what was retired since: nothing but its own *)
(* empty takes a record out, and that ends the period.                     *)
LimitAtEntry ==
    \A t \in Tid : pc[t] = "op" /\ ~firstLoEntryFlag[t] =>
        /\ entered[t] \subseteq {res.obj : res \in retired[t]}
        /\ Cardinality(retired[t]) + 1
              = Cardinality(entered[t]) + numRetiresSinceLoWatermark[t]
===============================================================================
