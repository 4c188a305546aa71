------------------------------- MODULE MCSignals -------------------------------
(* The four schemes that ask for what others protect with a signal: the    *)
(* scheme is chosen when the program is built.  HazardPtrPOP is the one    *)
(* this module extends, and has another instance for its low watermark;    *)
(* the others have one instance each, with records, lists and uses of      *)
(* their own.  The variables that a scheme does not have are NONE.         *)
EXTENDS HazardPtrPOP

CONSTANT NONE

VARIABLES
    scheme,
    ocell, opool, oretired, oref,                               \* of all but HazardPtrPOP
    epoch, reservations, alloc_counters, e,                     \* of POPs with epochs
    retireEpoch, minEpoch, kept,                                \* of EpochPOP
    birth, retire_counters, newNode, toScan, published, publishing_epoch,
    saved_publishing_epoch, retires_since_HiWm, entered,        \* of HazardEraPOP
    proposed, bookmark, restartable, sz, freeable, waiting        \* of NBRPlus

(* A list long enough for a low watermark. *)
Low == INSTANCE HazardPtrPOP
    WITH SlotsPerThread <- 2, EmptyFreq <- 3,
         cell <- ocell, pool <- opool, retired <- oretired, ref <- oref

EPOP == INSTANCE EpochPOP
    WITH MaxTS <- 2, Patience <- 1, EpochFreq <- 1, MaxEpoch <- 1,
         cell <- ocell, pool <- opool, retired <- oretired, ref <- oref

HEPOP == INSTANCE HazardEraPOP
    WITH EmptyFreq <- 1, Threshold <- 2, HiFreq <- 2, MaxRounds <- 2, EpochFreq <- 1,
         MaxEpoch <- 2,
         cell <- ocell, pool <- opool, retired <- oretired, ref <- oref

NBR == INSTANCE NBRPlus
    WITH MaxSaved <- 2, Capacity <- 1,
         cell <- ocell, pool <- opool, retired <- oretired

own == <<cell, pool, retired, ref>>
others == <<ocell, opool, oretired, oref>>
stampsOnly == <<announcedTS, savedTS>>
popOnly == <<handler, idx, src, ret, oref>>
pointersOnly == <<local_slots, slots, mypublishingTS, myscannedTS,
                  retire_bag_size_when_entered_loWm, limit>>
epochsOnly == <<epoch, reservations, alloc_counters, e>>
epochPOPOnly == <<retireEpoch, minEpoch, kept>>
erasOnly == <<birth, retire_counters, newNode, toScan, published, publishing_epoch,
              saved_publishing_epoch, retires_since_HiWm, entered>>
nbrOnly == <<proposed, bookmark, restartable, sz, freeable, waiting>>
MCvars == <<scheme, vars, others, epochsOnly, epochPOPOnly, erasOnly, nbrOnly>>

(***************************************************************************)
(* The workload for the low watermark: every thread is in one long         *)
(* operation and looks for a record only with a slot that protects none;   *)
(* thread 0 updates, and thread 1 uses one slot and retires no more than   *)
(* takes it past the low watermark.  Each behaviour is one of Low!Spec.    *)
(***************************************************************************)
update(t) ==
    \/ Low!read_load(t) \/ Low!reserve(t) \/ Low!read_validate(t) \/ Low!retire(t)
    \/ \E c \in Cell :
          \/ Low!insert(t, c) \/ Low!erase(t, c)
          \/ /\ ocell[c] # NULL
             /\ \E s \in Low!slotsOf(t) : oref[s] = NULL /\ Low!read_call(t, s, c)

updateLow(t) ==
    /\ pc[t] = "op" => Len(oretired[t]) < 2
    /\ update(t)
    /\ idx'[t] \in {0, Low!slotOf(t, 0)}

LowNext == update(0) \/ updateLow(1) \/ \E t \in Tid : Low!signal(t)

(* The workload for EpochPOP: thread 1 is the first to start an operation  *)
(* and stays in it, so that no epoch it announces comes to help thread 0,  *)
(* and sweeps its own list at the low watermark only; both look for a      *)
(* record only with a slot that protects none.  Each behaviour is one of   *)
(* EPOP!EpochSpec.                                                         *)
oneStays ==
    /\ pc'[1] \notin {"idle", "scan"}
    /\ \A t \in Tid :
          pc[t] = "op" /\ pc'[t] = "load" => \A s \in EPOP!slotsOf(t) : oref[s] = NULL

(* The workload for HazardEraPOP: both threads look for records, erase     *)
(* them and do all that retire leads to, and thread 0 is the one that      *)
(* inserts.  Each behaviour is one of HEPOP!PopSpec.                       *)
oneInserts == pc'[1] # "created"

MCInit ==
    /\ \/ scheme = "HazardPtrPOP" /\ Init
       \/ scheme = "low watermark" /\ Low!Init
       \/ scheme = "EpochPOP" /\ EPOP!EpochInit
       \/ scheme = "HazardEraPOP" /\ HEPOP!PopInit
       \/ scheme = "NBR+" /\ NBR!Init
    /\ IF scheme = "HazardPtrPOP"
       THEN ocell = NONE /\ opool = NONE /\ oretired = NONE /\ oref = NONE
       ELSE RecordsInit /\ retired = [t \in Tid |-> <<>>] /\ ref = [s \in Slot |-> NULL]
    /\ scheme = "HazardEraPOP" => announcedTS = NONE /\ savedTS = NONE
    /\ scheme = "NBR+" =>
          handler = NONE /\ idx = NONE /\ src = NONE /\ ret = NONE /\ oref = NONE
    /\ scheme \in {"NBR+", "HazardEraPOP"} =>
          /\ local_slots = NONE /\ slots = NONE /\ mypublishingTS = NONE
          /\ myscannedTS = NONE /\ retire_bag_size_when_entered_loWm = NONE
          /\ limit = NONE
    /\ scheme \notin {"EpochPOP", "HazardEraPOP"} =>
          epoch = NONE /\ reservations = NONE /\ alloc_counters = NONE /\ e = NONE
    /\ scheme # "EpochPOP" => retireEpoch = NONE /\ minEpoch = NONE /\ kept = NONE
    /\ scheme # "HazardEraPOP" =>
          /\ birth = NONE /\ retire_counters = NONE /\ newNode = NONE /\ toScan = NONE
          /\ published = NONE /\ publishing_epoch = NONE /\ saved_publishing_epoch = NONE
          /\ retires_since_HiWm = NONE /\ entered = NONE
    /\ scheme # "NBR+" =>
          /\ proposed = NONE /\ bookmark = NONE /\ restartable = NONE
          /\ sz = NONE /\ freeable = NONE /\ waiting = NONE

(* BOUND: the last conjunct leaves all schemes but one a record less.      *)
MCNext ==
    /\ UNCHANGED scheme
    /\ \/ /\ scheme = "HazardPtrPOP" /\ Next
          /\ UNCHANGED <<others, epochsOnly, epochPOPOnly, erasOnly, nbrOnly>>
       \/ /\ scheme = "low watermark" /\ LowNext
          /\ UNCHANGED <<own, epochsOnly, epochPOPOnly, erasOnly, nbrOnly>>
       \/ /\ scheme = "EpochPOP" /\ EPOP!EpochNext /\ oneStays
          /\ UNCHANGED <<own, erasOnly, nbrOnly>>
       \/ /\ scheme = "HazardEraPOP" /\ HEPOP!PopNext /\ oneInserts
          /\ UNCHANGED <<own, stampsOnly, pointersOnly, epochPOPOnly, nbrOnly>>
       \/ /\ scheme = "NBR+" /\ NBR!Next
          /\ UNCHANGED <<own, popOnly, pointersOnly, epochsOnly, epochPOPOnly, erasOnly>>
    /\ scheme # "HazardPtrPOP" => opool' # {}

MCSpec == MCInit /\ [][MCNext]_MCvars

which(pop, low, epop, hepop, nbr) ==
    CASE scheme = "HazardPtrPOP" -> pop
      [] scheme = "low watermark" -> low
      [] scheme = "EpochPOP" -> epop
      [] scheme = "HazardEraPOP" -> hepop
      [] scheme = "NBR+" -> nbr

(* Every variable holds what the scheme can store in it. *)
MCTypeOK == which(TypeOK, Low!TypeOK, EPOP!EpochTypeOK, HEPOP!PopTypeOK, NBR!TypeOK)

(* pool->add frees nothing that another thread protects, or would have     *)
(* protected had the signal reached it a moment later.                     *)
MCNoUseAfterFree ==
    which(NoUseAfterFree, Low!NoUseAfterFree, EPOP!NoUseAfterFree,
          HEPOP!NoUseAfterFree, NBR!NoUseAfterFree)

(* The round of signals has done to the other threads what it is for:      *)
(* they have published, or have let go of what they did not save.          *)
Answered ==
    which(AllPublished, Low!AllPublished, EPOP!PublishedBeforeSweep, TRUE,
          NBR!Neutralized)

(* The book that the three POPs keep of their lists past the low watermark.*)
MCLimitAtEntry ==
    which(TRUE, Low!LimitAtEntry, EPOP!LimitAtEntry, HEPOP!LimitAtEntry, TRUE)

(* Records are interchangeable: no definition names one.                   *)
Symmetry == Permutations(Node)
===============================================================================
