------------------------ MODULE EpochReclaimer_proofs ------------------------
(***************************************************************************)
(* EpochReclaimer frees no record an operation may have a pointer to, for  *)
(* any number of threads, records and cells and any frequencies.           *)
(*                                                                         *)
(* NoUseAfterFree is not inductive: it rests on a scan that took many      *)
(* steps.  IInv adds what is true in between: the epoch a reader announced *)
(* is no later than the one its retired record carries (ReadersReserved),  *)
(* also while retire still holds that epoch in a local (RetiringCovered),  *)
(* and the part of the scan that is behind has seen the reader's epoch     *)
(* (ScanCovered).                                                          *)
(*                                                                         *)
(* QuiescentReclaimer, whose theorems begin with Quiescent, comes last.    *)
(***************************************************************************)
EXTENDS QuiescentReclaimer, TLAPS

(* The locals are alive exactly where the code uses them, and only         *)
(* operations that run are waited for.                                     *)
Control ==
    \A t \in Tid :
        /\ pc[t] \in {"retire", "push"} <=> obj[t] # NULL
        /\ pc[t] # "scan" => i[t] = 0
        /\ e[t] <= epoch
        /\ \A n \in Node : t \in waiting[n] => t \in active

(* An operation runs under an announced epoch. *)
Announced == \A t \in active : reservations[t] <= epoch

(* Between the load of the epoch and the push, retire's local bounds the   *)
(* announcements of the record's readers.                                  *)
RetiringCovered ==
    \A u \in Tid : pc[u] = "push" =>
        \A t \in waiting[obj[u]] : reservations[t] <= e[u]

(* A thread the scan has passed, and for which a record of the scanned     *)
(* list waits, has pulled the minimum down to its own announcement.        *)
Passed(u, t) == pc[u] = "sweep" \/ (pc[u] = "scan" /\ t < i[u])

ScanCovered ==
    \A u \in Tid : \A res \in retired[u] : \A t \in waiting[res.obj] :
        Passed(u, t) => minEpoch[u] <= reservations[t]

(* Only unlinked records wait. *)
LinkedDoNotWait == \A c \in Cell : cell[c] # NULL => waiting[cell[c]] = {}

IInv ==
    /\ TypeOK
    /\ Control
    /\ Announced
    /\ OnePlace
    /\ NoUseAfterFree
    /\ ReadersReserved
    /\ RetiringCovered
    /\ ScanCovered
    /\ LinkedDoNotWait

-------------------------------------------------------------------------------
(* The counters stay below their periods. *)
LEMMA ModRange == ASSUME NEW a \in Nat, NEW b \in Nat \ {0}
                  PROVE  a % b \in 0 .. b - 1
  OBVIOUS

(* The period of the allocation counter is at least 1. *)
LEMMA PeriodPositive == AllocPeriod \in Nat \ {0}
  BY EpochReclaimerAssumption, LinkedRecordsAssumption DEF AllocPeriod

(* The invariant holds at first: no operation runs and nothing is retired. *)
THEOREM InitIInv == Init => IInv
<1> SUFFICES ASSUME Init PROVE IInv
  OBVIOUS
<1> USE EpochReclaimerAssumption, LinkedRecordsAssumption DEF Init, RecordsInit
<1>1. TypeOK
  BY PeriodPositive DEF TypeOK, RecordsTypeOK, Tid, Epoch, UINT64_MAX
<1>2. Control /\ Announced
  BY DEF Control, Announced, active, Epoch
<1>3. OnePlace
  BY DEF OnePlace, LinksDisjoint, RetiringDisjoint, RetiredDisjoint
<1>4. NoUseAfterFree /\ ReadersReserved /\ RetiringCovered /\ ScanCovered /\ LinkedDoNotWait
  BY DEF NoUseAfterFree, ReadersReserved, RetiringCovered, ScanCovered, LinkedDoNotWait
<1>5. QED BY <1>1, <1>2, <1>3, <1>4 DEF IInv

(* Each action keeps the types. *)
LEMMA NextTypeOK ==
  ASSUME TypeOK, Control, Next
  PROVE  TypeOK'
<1> USE DEF goto, records, reclaimer, locals, TypeOK, RecordsTypeOK
<1>1. ASSUME NEW t \in Tid, startOp_load(t) PROVE TypeOK'
  BY <1>1 DEF startOp_load
<1>2. ASSUME NEW t \in Tid, startOp_store(t) PROVE TypeOK'
  <2>1. 0 \in Epoch
    BY EpochReclaimerAssumption DEF Epoch
  <2>2. QED BY <1>2, <2>1 DEF startOp_store
<1>3. ASSUME NEW t \in Tid, endOp(t) PROVE TypeOK'
  BY <1>3 DEF endOp
<1>4. ASSUME NEW t \in Tid, updateAllocCounterAndEpoch(t) PROVE TypeOK'
  <2>1. (alloc_counters[t] + 1) % AllocPeriod \in 0 .. AllocPeriod - 1
    BY PeriodPositive, ModRange
  <2>2. epoch' \in Epoch
    BY <1>4, EpochReclaimerAssumption DEF updateAllocCounterAndEpoch, Epoch
  <2>3. QED BY <1>4, <2>1, <2>2 DEF updateAllocCounterAndEpoch
<1>5. ASSUME NEW t \in Tid, NEW c \in Cell, insert(t, c) PROVE TypeOK'
  BY <1>5 DEF insert, link
<1>6. ASSUME NEW t \in Tid, NEW c \in Cell, erase(t, c) PROVE TypeOK'
  BY <1>6 DEF erase, unlink, active
<1>7. ASSUME NEW t \in Tid, retire_load(t) PROVE TypeOK'
  BY <1>7 DEF retire_load
<1>8. ASSUME NEW t \in Tid, retire_push(t) PROVE TypeOK'
  <2>1. (retire_counters[t] + 1) % EmptyFreq \in 0 .. EmptyFreq - 1
    BY EpochReclaimerAssumption, ModRange
  <2>2. [obj |-> obj[t], epoch |-> e[t]] \in RCUInfo
    BY <1>8 DEF retire_push, Control, RCUInfo
  <2>3. e' \in [Tid -> Epoch]
    BY <1>8, EpochReclaimerAssumption DEF retire_push, Epoch
  <2>4. QED BY <1>8, <2>1, <2>2, <2>3 DEF retire_push
<1>9. ASSUME NEW t \in Tid, empty_scan(t) PROVE TypeOK'
  <2>1. i' \in [Tid -> 0 .. NumProcess - 1]
    <3>1. i[t] + 1 < NumProcess => i[t] + 1 \in 0 .. NumProcess - 1
      BY LinkedRecordsAssumption
    <3>2. 0 \in 0 .. NumProcess - 1
      BY LinkedRecordsAssumption
    <3>3. QED BY <1>9, <3>1, <3>2 DEF empty_scan
  <2>2. minEpoch' \in [Tid -> Epoch \union {UINT64_MAX}]
    BY <1>9 DEF empty_scan, Tid
  <2>3. QED BY <1>9, <2>1, <2>2 DEF empty_scan
<1>10. ASSUME NEW t \in Tid, empty_free(t) PROVE TypeOK'
  BY <1>10 DEF empty_free, poolAdd, RCUInfo
<1>11. ASSUME NEW t \in Tid, empty_return(t) PROVE TypeOK'
  BY <1>11 DEF empty_return
<1>12. QED
  BY <1>1, <1>2, <1>3, <1>4, <1>5, <1>6, <1>7, <1>8, <1>9, <1>10, <1>11
  DEF Next, client, retire

(* ... the use of the locals ... *)
LEMMA NextControl ==
  ASSUME TypeOK, Control, Next
  PROVE  Control'
<1> USE DEF goto, records, reclaimer, locals, active, TypeOK, Control
<1>1. ASSUME NEW t \in Tid, startOp_load(t) PROVE Control'
  BY <1>1 DEF startOp_load, Epoch
<1>2. ASSUME NEW t \in Tid, startOp_store(t) PROVE Control'
  BY <1>2 DEF startOp_store, Epoch
<1>3. ASSUME NEW t \in Tid, endOp(t) PROVE Control'
  BY <1>3 DEF endOp
<1>4. ASSUME NEW t \in Tid, updateAllocCounterAndEpoch(t) PROVE Control'
  <2>1. epoch \in Nat /\ epoch' \in Nat /\ epoch <= epoch'
    BY <1>4, EpochReclaimerAssumption DEF updateAllocCounterAndEpoch, Epoch
  <2>2. \A u \in Tid : e[u] \in Nat /\ reservations[u] \in Nat
    BY EpochReclaimerAssumption DEF Epoch, UINT64_MAX
  <2>3. QED BY <1>4, <2>1, <2>2 DEF updateAllocCounterAndEpoch
<1>5. ASSUME NEW t \in Tid, NEW c \in Cell, insert(t, c) PROVE Control'
  BY <1>5 DEF insert
<1>6. ASSUME NEW t \in Tid, NEW c \in Cell, erase(t, c) PROVE Control'
  BY <1>6, LinkedRecordsAssumption DEF erase
<1>7. ASSUME NEW t \in Tid, retire_load(t) PROVE Control'
  BY <1>7 DEF retire_load, Epoch
<1>8. ASSUME NEW t \in Tid, retire_push(t) PROVE Control'
  BY <1>8 DEF retire_push, Epoch
<1>9. ASSUME NEW t \in Tid, empty_scan(t) PROVE Control'
  BY <1>9 DEF empty_scan
<1>10. ASSUME NEW t \in Tid, empty_free(t) PROVE Control'
  BY <1>10 DEF empty_free
<1>11. ASSUME NEW t \in Tid, empty_return(t) PROVE Control'
  BY <1>11 DEF empty_return
<1>12. QED
  BY <1>1, <1>2, <1>3, <1>4, <1>5, <1>6, <1>7, <1>8, <1>9, <1>10, <1>11
  DEF Next, client, retire

(* ... the announcements of operations ... *)
LEMMA NextAnnounced ==
  ASSUME TypeOK, Control, Announced, Next
  PROVE  Announced'
<1> USE DEF goto, records, reclaimer, locals, active, TypeOK, Announced
<1>0. /\ epoch \in Nat
      /\ \A t \in Tid : e[t] \in Nat /\ reservations[t] \in Nat
  BY EpochReclaimerAssumption DEF Epoch, UINT64_MAX
<1>1. ASSUME NEW t \in Tid, startOp_load(t) PROVE Announced'
  BY <1>1 DEF startOp_load
<1>2. ASSUME NEW t \in Tid, startOp_store(t) PROVE Announced'
  BY <1>2 DEF startOp_store, Control
<1>3. ASSUME NEW t \in Tid, endOp(t) PROVE Announced'
  BY <1>3 DEF endOp
<1>4. ASSUME NEW t \in Tid, updateAllocCounterAndEpoch(t) PROVE Announced'
  <2>1. epoch' \in Nat /\ epoch <= epoch'
    BY <1>0, <1>4 DEF updateAllocCounterAndEpoch
  <2>2. QED BY <1>0, <1>4, <2>1 DEF updateAllocCounterAndEpoch
<1>5. ASSUME NEW t \in Tid, NEW c \in Cell, insert(t, c) \/ erase(t, c) PROVE Announced'
  BY <1>5 DEF insert, erase
<1>6. ASSUME NEW t \in Tid, retire(t) PROVE Announced'
  BY <1>6 DEF retire, retire_load, retire_push, empty_scan, empty_free, empty_return
<1>7. QED BY <1>1, <1>2, <1>3, <1>4, <1>5, <1>6 DEF Next, client

(* ... every record in one place ... *)
LEMMA NextOnePlace ==
  ASSUME TypeOK, Control, OnePlace, Next
  PROVE  OnePlace'
<1> USE DEF goto, records, reclaimer, locals, OnePlace, LinksDisjoint,
            RetiringDisjoint, RetiredDisjoint
<1>1. ASSUME NEW t \in Tid, startOp_load(t) PROVE OnePlace'
  BY <1>1 DEF startOp_load
<1>2. ASSUME NEW t \in Tid, startOp_store(t) PROVE OnePlace'
  BY <1>2 DEF startOp_store
<1>3. ASSUME NEW t \in Tid, endOp(t) PROVE OnePlace'
  BY <1>3 DEF endOp
<1>4. ASSUME NEW t \in Tid, updateAllocCounterAndEpoch(t) PROVE OnePlace'
  BY <1>4 DEF updateAllocCounterAndEpoch
<1>5. ASSUME NEW t \in Tid, NEW c \in Cell, insert(t, c) PROVE OnePlace'
  BY <1>5, LinkedRecordsAssumption DEF insert, link, TypeOK, RecordsTypeOK
<1>6. ASSUME NEW t \in Tid, NEW c \in Cell, erase(t, c) PROVE OnePlace'
  BY <1>6, LinkedRecordsAssumption DEF erase, unlink, TypeOK, RecordsTypeOK, RCUInfo
<1>7. ASSUME NEW t \in Tid, retire_load(t) PROVE OnePlace'
  BY <1>7 DEF retire_load
<1>8. ASSUME NEW t \in Tid, retire_push(t) PROVE OnePlace'
  BY <1>8, LinkedRecordsAssumption DEF retire_push, Control, TypeOK, RCUInfo
<1>9. ASSUME NEW t \in Tid, empty_scan(t) PROVE OnePlace'
  BY <1>9 DEF empty_scan
<1>10. ASSUME NEW t \in Tid, empty_free(t) PROVE OnePlace'
  BY <1>10 DEF empty_free, poolAdd, TypeOK, RCUInfo
<1>11. ASSUME NEW t \in Tid, empty_return(t) PROVE OnePlace'
  BY <1>11 DEF empty_return
<1>12. QED
  BY <1>1, <1>2, <1>3, <1>4, <1>5, <1>6, <1>7, <1>8, <1>9, <1>10, <1>11
  DEF Next, client, retire

(* Epochs, UINT64_MAX included, compare as numbers; a scan stays in range. *)
LEMMA EpochsAreNat ==
  ASSUME TypeOK
  PROVE  \A t \in Tid : reservations[t] \in Nat /\ minEpoch[t] \in Nat
BY EpochReclaimerAssumption DEF TypeOK, Epoch, UINT64_MAX

(* What a list holds: a record, the epoch it was retired in. *)
LEMMA RetiredTypes ==
  ASSUME TypeOK, NEW u \in Tid, NEW res \in retired[u]
  PROVE  res.obj \in Node /\ res.epoch \in Nat /\ waiting[res.obj] \subseteq Tid
BY EpochReclaimerAssumption DEF TypeOK, RCUInfo, Epoch

(* The scan's index is always a thread. *)
LEMMA IndexIsTid == ASSUME TypeOK PROVE \A t \in Tid : i[t] \in Tid
BY DEF TypeOK, Tid

(* A step of the scan keeps what it has passed covered. *)
LEMMA ScanKeepsCovered ==
  ASSUME TypeOK, ScanCovered, NEW t \in Tid, empty_scan(t)
  PROVE  ScanCovered'
<1> USE DEF goto, records, reclaimer, locals, ScanCovered, Passed
<1>1. ASSUME NEW u \in Tid, NEW res \in retired'[u], NEW v \in waiting'[res.obj],
             Passed(u, v)'
      PROVE  minEpoch'[u] <= reservations'[v]
  <2>1. /\ retired' = retired /\ waiting' = waiting /\ reservations' = reservations
        /\ res \in retired[u] /\ v \in waiting[res.obj] /\ v \in Tid
    BY RetiredTypes DEF empty_scan
  <2>2. CASE u # t
    <3>1. Passed(u, v) /\ minEpoch'[u] = minEpoch[u]
      BY <1>1, <2>2 DEF empty_scan, TypeOK
    <3>2. QED BY <1>1, <2>1, <3>1
  <2>3. CASE u = t
    <3>1. /\ minEpoch'[t] <= minEpoch[t]
          /\ minEpoch'[t] <= reservations[i[t]]
      BY EpochsAreNat, IndexIsTid DEF empty_scan, TypeOK
    <3>2. CASE v = i[t]
      BY <2>1, <2>3, <3>1, <3>2
    <3>3. CASE v # i[t]
      <4>1. Passed(t, v)
        <5>1. v \in 0 .. NumProcess - 1 /\ i[t] \in 0 .. NumProcess - 1 /\ NumProcess \in Nat
          BY <2>1, LinkedRecordsAssumption DEF TypeOK, Tid
        <5>2. CASE i[t] + 1 < NumProcess
          <6>1. pc[t] = "scan" /\ pc'[t] = "scan" /\ i'[t] = i[t] + 1
            BY <5>2 DEF empty_scan, TypeOK
          <6>2. QED BY <1>1, <2>3, <3>3, <5>1, <6>1
        <5>3. CASE ~(i[t] + 1 < NumProcess)
          BY <3>3, <5>1, <5>3 DEF empty_scan
        <5>4. QED BY <5>2, <5>3
      <4>2. minEpoch[t] <= reservations[v]
        BY <1>1, <2>1, <2>3, <4>1
      <4>3. minEpoch'[t] \in Nat /\ minEpoch[t] \in Nat /\ reservations[v] \in Nat
        BY <2>1, EpochsAreNat, IndexIsTid DEF empty_scan, TypeOK
      <4>4. QED BY <2>1, <2>3, <3>1, <4>2, <4>3
    <3>4. QED BY <3>2, <3>3
  <2>4. QED BY <2>2, <2>3
<1>2. QED BY <1>1

Covered ==
    NoUseAfterFree /\ ReadersReserved /\ RetiringCovered /\ ScanCovered /\ LinkedDoNotWait

(* ... and the readers of retired records covered. *)
LEMMA NextCovered ==
  ASSUME TypeOK, Control, Announced, OnePlace, Covered, Next
  PROVE  Covered'
<1> USE DEF goto, records, reclaimer, locals, Covered, NoUseAfterFree, ReadersReserved,
            RetiringCovered, ScanCovered, LinkedDoNotWait, Passed
<1>1. ASSUME NEW t \in Tid, startOp_load(t) PROVE Covered'
  BY <1>1 DEF startOp_load, TypeOK
<1>2. ASSUME NEW t \in Tid, startOp_store(t) PROVE Covered'
  <2>1. \A n \in Node : t \notin waiting[n]
    BY <1>2 DEF startOp_store, Control, active
  <2>2. \A u \in Tid : u # t => reservations'[u] = reservations[u]
    BY <1>2 DEF startOp_store, TypeOK
  <2>3. \A u \in Tid : pc'[u] # "idle" /\ pc'[u] # "op" => pc'[u] = pc[u]
    BY <1>2 DEF startOp_store, TypeOK
  <2>4. \A u \in Tid : pc[u] = "push" => e'[u] = e[u] /\ obj[u] \in Node
    BY <1>2 DEF startOp_store, TypeOK, Control
  <2>5. UNCHANGED <<cell, pool, retired, obj, i, minEpoch, waiting>>
    BY <1>2 DEF startOp_store
  <2>6. NoUseAfterFree' /\ LinkedDoNotWait'
    BY <2>5
  <2>7. ReadersReserved' /\ ScanCovered'
    BY <2>1, <2>2, <2>3, <2>5, RetiredTypes
  <2>8. RetiringCovered'
    BY <2>1, <2>2, <2>3, <2>4, <2>5 DEF TypeOK
  <2>9. QED BY <2>6, <2>7, <2>8
<1>3. ASSUME NEW t \in Tid, endOp(t) PROVE Covered'
  <2>1. \A n \in Node : waiting'[n] = waiting[n] \ {t}
    BY <1>3 DEF endOp
  <2>2. \A u \in Tid : u # t => reservations'[u] = reservations[u]
    BY <1>3 DEF endOp, TypeOK
  <2>3. \A u \in Tid : pc'[u] # "idle" => pc'[u] = pc[u]
    BY <1>3 DEF endOp, TypeOK
  <2>4. \A u \in Tid : pc[u] = "push" => obj[u] \in Node
    BY DEF TypeOK, Control
  <2>5. UNCHANGED <<cell, pool, retired, e, obj, i, minEpoch>>
    BY <1>3 DEF endOp
  <2>6. NoUseAfterFree' /\ LinkedDoNotWait'
    BY <2>1, <2>5, LinkedRecordsAssumption DEF TypeOK, RecordsTypeOK
  <2>7. ReadersReserved' /\ ScanCovered'
    BY <2>1, <2>2, <2>3, <2>5, RetiredTypes
  <2>8. RetiringCovered'
    <3>1. \A u \in Tid : pc[u] = "push" => waiting[obj[u]] \subseteq Tid
      BY <2>4 DEF TypeOK
    <3>2. QED BY <2>1, <2>2, <2>3, <2>4, <2>5, <3>1
  <2>9. QED BY <2>6, <2>7, <2>8
<1>4. ASSUME NEW t \in Tid, updateAllocCounterAndEpoch(t) PROVE Covered'
  BY <1>4 DEF updateAllocCounterAndEpoch, TypeOK
<1>5. ASSUME NEW t \in Tid, NEW c \in Cell, insert(t, c) PROVE Covered'
  <2>1. NoUseAfterFree' /\ LinkedDoNotWait'
    BY <1>5 DEF insert, link, TypeOK, RecordsTypeOK
  <2>2. ReadersReserved' /\ RetiringCovered' /\ ScanCovered'
    BY <1>5 DEF insert, TypeOK
  <2>3. QED BY <2>1, <2>2
<1>6. ASSUME NEW t \in Tid, NEW c \in Cell, erase(t, c) PROVE Covered'
  <2> DEFINE n == cell[c]
  <2>1. /\ n \in Node /\ n \notin pool /\ \A d \in Cell : cell[d] = n => d = c
        /\ \A u \in Tid : obj[u] # n /\ \A res \in retired[u] : res.obj # n
    BY <1>6 DEF erase, TypeOK, RecordsTypeOK, OnePlace, LinksDisjoint, RetiringDisjoint,
                RetiredDisjoint
  <2>2. /\ cell' = [cell EXCEPT ![c] = NULL]
        /\ \A m \in Node : m # n => waiting'[m] = waiting[m]
        /\ UNCHANGED <<pool, retired, reservations, e, i, minEpoch>>
    BY <1>6 DEF erase, unlink, TypeOK
  <2>3. \A u \in Tid : pc'[u] # "retire" => pc'[u] = pc[u] /\ obj'[u] = obj[u]
    BY <1>6 DEF erase, TypeOK
  <2>4. \A u \in Tid : pc[u] = "push" => obj[u] \in Node
    BY DEF TypeOK, Control
  <2>5. NoUseAfterFree' /\ LinkedDoNotWait'
    BY <2>1, <2>2, LinkedRecordsAssumption DEF TypeOK, RecordsTypeOK
  <2>6. ReadersReserved' /\ ScanCovered'
    BY <2>1, <2>2, <2>3, RetiredTypes
  <2>7. RetiringCovered'
    BY <2>1, <2>2, <2>3, <2>4
  <2>8. QED BY <2>5, <2>6, <2>7
<1>7. ASSUME NEW t \in Tid, retire_load(t) PROVE Covered'
  BY <1>7 DEF retire_load, TypeOK, Control, Announced
<1>8. ASSUME NEW t \in Tid, retire_push(t) PROVE Covered'
  <2> DEFINE new == [obj |-> obj[t], epoch |-> e[t]]
  <2>1. \A u \in Tid : retired'[u] = IF u = t THEN retired[u] \union {new} ELSE retired[u]
    BY <1>8 DEF retire_push, TypeOK
  <2>2. new.obj = obj[t] /\ new.epoch = e[t]
    OBVIOUS
  <2> HIDE DEF new
  <2>3. /\ \A u \in Tid : u # t => pc'[u] = pc[u] /\ e'[u] = e[u] /\ obj'[u] = obj[u]
        /\ pc[t] = "push" /\ pc'[t] \in {"scan", "op"}
        /\ UNCHANGED <<cell, pool, reservations, i, minEpoch, waiting>>
    BY <1>8 DEF retire_push, TypeOK
  <2>4. NoUseAfterFree' /\ LinkedDoNotWait' /\ RetiringCovered'
    BY <2>3
  <2>5. ReadersReserved'
    <3>1. \A v \in waiting[new.obj] : reservations[v] <= new.epoch
      BY <2>2, <2>3
    <3>2. SUFFICES ASSUME NEW u \in Tid, NEW res \in retired'[u], NEW v \in waiting[res.obj]
                   PROVE  reservations[v] <= res.epoch
      BY <2>3
    <3>3. CASE u = t
      <4>1. retired'[t] = retired[t] \union {new}
        BY <2>1
      <4>2. CASE res = new
        BY <3>1, <4>2
      <4>3. CASE res \in retired[t]
        BY <4>3
      <4>4. QED BY <3>3, <4>1, <4>2, <4>3
    <3>4. CASE u # t
      <4>1. res \in retired[u]
        BY <2>1, <3>4
      <4>2. QED BY <4>1
    <3>5. QED BY <3>3, <3>4
  <2>6. ScanCovered'
    <3>1. i[t] = 0 /\ \A u \in Tid : u \in Nat
      BY <2>3 DEF Control, Tid
    <3>2. \A v \in Tid : ~Passed(t, v)'
      BY <2>3, <3>1
    <3>3. \A u \in Tid : \A res \in retired'[u] : waiting[res.obj] \subseteq Tid
      <4>1. waiting[new.obj] \subseteq Tid
        BY <2>2, <2>3 DEF TypeOK, Control
      <4>2. \A u \in Tid : \A res \in retired'[u] : res = new \/ res \in retired[u]
        BY <2>1
      <4>3. QED BY <4>1, <4>2, RetiredTypes
    <3>4. QED BY <2>1, <2>3, <3>2, <3>3, ZenonT(30)
  <2>7. QED BY <2>4, <2>5, <2>6
<1>9. ASSUME NEW t \in Tid, empty_scan(t) PROVE Covered'
  <2>1. NoUseAfterFree' /\ ReadersReserved' /\ RetiringCovered' /\ LinkedDoNotWait'
    BY <1>9 DEF empty_scan, TypeOK
  <2>2. ScanCovered'
    BY <1>9, ScanKeepsCovered
  <2>3. QED BY <2>1, <2>2
<1>10. ASSUME NEW t \in Tid, empty_free(t) PROVE Covered'
  <2>1. PICK res \in retired[t] :
           /\ res.epoch < minEpoch[t]
           /\ retired' = [retired EXCEPT ![t] = @ \ {res}]
           /\ pool' = pool \union {res.obj}
    BY <1>10 DEF empty_free, poolAdd, freeable
  <2>2. \A u \in Tid : retired'[u] \subseteq retired[u]
    BY <2>1 DEF TypeOK
  <2>3. UNCHANGED <<waiting, reservations, pc, e, obj, i, minEpoch>>
    BY <1>10 DEF empty_free
  <2>4. ReadersReserved' /\ RetiringCovered' /\ ScanCovered'
    BY <2>2, <2>3
  <2>5. UNCHANGED cell
    BY <1>10 DEF empty_free, poolAdd
  <2>6. waiting[res.obj] = {}
    <3>1. SUFFICES ASSUME NEW v \in waiting[res.obj] PROVE FALSE
      OBVIOUS
    <3>2. v \in Tid /\ res.epoch \in Nat
      BY RetiredTypes
    <3>3. reservations[v] <= res.epoch
      OBVIOUS
    <3>4. minEpoch[t] <= reservations[v]
      BY <1>10 DEF empty_free
    <3>5. minEpoch[t] \in Nat /\ reservations[v] \in Nat
      BY <3>2, EpochsAreNat
    <3>6. QED BY <2>1, <3>2, <3>3, <3>4, <3>5
  <2>7. NoUseAfterFree' /\ LinkedDoNotWait'
    BY <2>1, <2>3, <2>5, <2>6
  <2>8. QED BY <2>4, <2>7
<1>11. ASSUME NEW t \in Tid, empty_return(t) PROVE Covered'
  BY <1>11 DEF empty_return, TypeOK
<1>12. QED
  BY <1>1, <1>2, <1>3, <1>4, <1>5, <1>6, <1>7, <1>8, <1>9, <1>10, <1>11
  DEF Next, client, retire

(* IInv holds in every reachable state. *)
THEOREM Invariance == Spec => []IInv
<1>1. ASSUME IInv, [Next]_vars PROVE IInv'
  <2>1. CASE Next
    BY <1>1, <2>1, NextTypeOK, NextControl, NextAnnounced, NextOnePlace, NextCovered
    DEF IInv, Covered
  <2>2. CASE UNCHANGED vars
    BY <1>1, <2>2
    DEF IInv, vars, TypeOK, RecordsTypeOK, Control, Announced, OnePlace, LinksDisjoint,
        RetiringDisjoint, RetiredDisjoint, NoUseAfterFree, ReadersReserved, active,
        RetiringCovered, ScanCovered, LinkedDoNotWait, Passed
  <2>3. QED BY <1>1, <2>1, <2>2
<1>2. QED BY InitIInv, <1>1, PTL DEF Spec

(* The variables keep their types. *)
THEOREM TypeCorrect == Spec => []TypeOK
BY Invariance, PTL DEF IInv

(* No operation ever has a pointer to a record that pool->add has freed. *)
THEOREM Safety == Spec => []NoUseAfterFree
BY Invariance, PTL DEF IInv

(* No record gets into two lists, or twice into one. *)
THEOREM SinglePlace == Spec => []OnePlace
BY Invariance, PTL DEF IInv

(* Whoever has a pointer to a retired record announced an epoch no later   *)
(* than the one it was retired in.                                         *)
THEOREM ReadersAnnounced == Spec => []ReadersReserved
BY Invariance, PTL DEF IInv

-------------------------------------------------------------------------------
(* EpochReclaimer implements GracePeriod.  Every step is a step of the     *)
(* contract or leaves its variables as they are.                           *)
Linkage == <<pool, cell, retired, active, waiting>>

(* A step that leaves links, lists and waits alone stutters in the contract. *)
LEMMA StutterStep ==
  ASSUME UNCHANGED Linkage
  PROVE  UNCHANGED Contract!vars
BY DEF Linkage, Contract!vars, status, Linked

(* Each step of the code is a step of the contract or stutters there. *)
LEMMA RefinementStep ==
  ASSUME IInv, [Next]_vars
  PROVE  [Contract!Next]_(Contract!vars)
<1> USE DEF IInv, goto, records, reclaimer, locals
<1>0. status = [m \in Node |-> status[m]] /\ waiting = [m \in Node |-> waiting[m]]
  BY DEF status, TypeOK
<1>1. ASSUME NEW t \in Tid,
             \/ startOp_load(t) \/ updateAllocCounterAndEpoch(t)
             \/ retire_load(t) \/ empty_scan(t) \/ empty_return(t)
      PROVE  UNCHANGED Linkage
  <2>1. UNCHANGED <<pool, cell, retired, waiting>>
    BY <1>1 DEF startOp_load, updateAllocCounterAndEpoch, retire_load, empty_scan, empty_return
  <2>2. UNCHANGED active
    BY <1>1 DEF active, TypeOK, startOp_load, updateAllocCounterAndEpoch, retire_load,
                empty_scan, empty_return
  <2>3. QED BY <2>1, <2>2 DEF Linkage
<1>2. ASSUME NEW t \in Tid, startOp_store(t) PROVE Contract!Next
  <2>1. UNCHANGED <<status, waiting>>
    BY <1>2 DEF startOp_store, status, Linked
  <2>2. t \notin active /\ active' = active \union {t}
    BY <1>2 DEF startOp_store, active, TypeOK
  <2>3. Contract!StartOp(t)
    BY <2>1, <2>2 DEF Contract!StartOp
  <2>4. QED BY <2>3 DEF Contract!Next
<1>3. ASSUME NEW t \in Tid, endOp(t) PROVE Contract!Next
  <2>1. UNCHANGED status
    BY <1>3 DEF endOp, status, Linked
  <2>2. active' = active \ {t}
    BY <1>3 DEF endOp, active, TypeOK
  <2>3. Contract!EndOp(t)
    BY <1>3, <2>1, <2>2 DEF endOp, Contract!EndOp
  <2>4. QED BY <2>3 DEF Contract!Next
<1>4. ASSUME NEW t \in Tid, NEW c \in Cell, insert(t, c)
      PROVE  Contract!Next \/ UNCHANGED Linkage
  <2>1. CASE link(c)
    <3>1. PICK n \in pool : cell' = [cell EXCEPT ![c] = n] /\ pool' = pool \ {n}
      BY <2>1 DEF link
    <3>2. n \in Node /\ cell[c] = NULL /\ UNCHANGED <<retired, waiting, active>>
      BY <1>4, <2>1 DEF insert, link, active, TypeOK, RecordsTypeOK
    <3>3. status[n] = "free"
      BY <3>1, <3>2 DEF status
    <3>4. status' = [status EXCEPT ![n] = "linked"]
      <4>1. \A m \in Node : m \in pool' <=> m \in pool /\ m # n
        BY <3>1
      <4>2. \A m \in Node : m \in Linked' <=> m \in Linked \/ m = n
        BY <3>1, <3>2, LinkedRecordsAssumption DEF Linked, TypeOK, RecordsTypeOK
      <4>3. QED BY <3>1, <3>2, <4>1, <4>2 DEF status
    <3>5. Contract!Link({n})
      BY <1>0, <3>2, <3>3, <3>4 DEF Contract!Link, Contract!move
    <3>6. QED BY <3>2, <3>5 DEF Contract!Next
  <2>2. CASE UNCHANGED records
    BY <1>4, <2>2 DEF insert, Linkage, active, TypeOK
  <2>3. QED BY <1>4, <2>1, <2>2 DEF insert
<1>5. ASSUME NEW t \in Tid, NEW c \in Cell, erase(t, c) PROVE Contract!Next
  <2> DEFINE n == cell[c]
  <2>1. n \in Node /\ n \notin pool
    BY <1>5 DEF erase, TypeOK, RecordsTypeOK, OnePlace, LinksDisjoint
  <2>2. /\ cell' = [cell EXCEPT ![c] = NULL] /\ UNCHANGED <<pool, retired, active>>
        /\ waiting' = [waiting EXCEPT ![n] = active]
    BY <1>5 DEF erase, unlink, active, TypeOK
  <2>3. status[n] = "linked"
    BY <2>1 DEF status, Linked
  <2>4. status' = [status EXCEPT ![n] = "unlinked"]
    <3>1. \A m \in Node : m \in Linked' <=> m \in Linked /\ m # n
      BY <2>1, <2>2, LinkedRecordsAssumption
      DEF Linked, TypeOK, RecordsTypeOK, OnePlace, LinksDisjoint
    <3>2. \A u \in Tid : \A res \in retired[u] : res.obj # n
      BY DEF OnePlace, RetiredDisjoint
    <3>3. QED BY <2>1, <2>2, <3>1, <3>2 DEF status
  <2>5. Contract!Unlink({n})
    BY <1>0, <2>2, <2>3, <2>4 DEF Contract!Unlink, Contract!move
  <2>6. QED BY <2>1, <2>5 DEF Contract!Next
<1>6. ASSUME NEW t \in Tid, retire_push(t) PROVE Contract!Next
  <2> DEFINE n == obj[t]
  <2>1. n \in Node /\ n \notin pool /\ n \notin Linked
    BY <1>6 DEF retire_push, Control, TypeOK, OnePlace, RetiringDisjoint, Linked
  <2>2. /\ retired' = [retired EXCEPT ![t] = @ \union {[obj |-> n, epoch |-> e[t]]}]
        /\ UNCHANGED <<pool, cell, waiting, active>>
    BY <1>6 DEF retire_push, active, TypeOK
  <2>3. \A u \in Tid : \A res \in retired[u] : res.obj # n
    BY <2>1 DEF OnePlace, RetiredDisjoint
  <2>4. status[n] = "unlinked"
    BY <2>1, <2>3 DEF status
  <2>5. status' = [status EXCEPT ![n] = "retired"]
    <3>1. \A m \in Node : (\E u \in Tid : \E res \in retired'[u] : res.obj = m)
                         <=> m = n \/ \E u \in Tid : \E res \in retired[u] : res.obj = m
      <4> DEFINE new == [obj |-> n, epoch |-> e[t]]
      <4>1. new.obj = n
        OBVIOUS
      <4>2. \A u \in Tid : retired'[u] = IF u = t THEN retired[u] \union {new} ELSE retired[u]
        BY <2>2 DEF TypeOK
      <4> HIDE DEF new
      <4>3. QED BY <4>1, <4>2
    <3>2. QED BY <2>1, <2>2, <3>1, ZenonT(60) DEF status, Linked
  <2>6. Contract!Retire(n)
    BY <1>0, <2>2, <2>4, <2>5 DEF Contract!Retire, Contract!move
  <2>7. QED BY <2>1, <2>6 DEF Contract!Next
<1>7. ASSUME NEW t \in Tid, empty_free(t) PROVE Contract!Next
  <2>1. PICK res \in retired[t] :
           /\ retired' = [retired EXCEPT ![t] = @ \ {res}]
           /\ pool' = pool \union {res.obj}
    BY <1>7 DEF empty_free, poolAdd
  <2>2. res.obj \in Node /\ UNCHANGED <<cell, waiting, active>>
    BY <1>7 DEF empty_free, poolAdd, active, TypeOK, RCUInfo
  <2>3. res.obj \notin pool /\ res.obj \notin Linked
    BY <2>1 DEF OnePlace, RetiredDisjoint, Linked
  <2>4. status[res.obj] = "retired"
    BY <2>1, <2>2, <2>3 DEF status
  <2>5. status' = [status EXCEPT ![res.obj] = "free"]
    <3>1. \A m \in Node : m # res.obj =>
             ((\E u \in Tid : \E r \in retired'[u] : r.obj = m)
              <=> \E u \in Tid : \E r \in retired[u] : r.obj = m)
      BY <2>1 DEF TypeOK
    <3>2. QED BY <2>1, <2>2, <3>1 DEF status, Linked
  <2>6. waiting[res.obj] = {}
    <3>1. NoUseAfterFree'
      BY <1>7, NextCovered DEF Next, retire, Covered
    <3>2. QED BY <2>1, <2>2, <3>1 DEF NoUseAfterFree
  <2>7. Contract!Free(res.obj)
    BY <1>0, <2>2, <2>4, <2>5, <2>6 DEF Contract!Free, Contract!move
  <2>8. QED BY <2>2, <2>7 DEF Contract!Next
<1>8. CASE UNCHANGED vars
  BY <1>8, StutterStep DEF vars, Linkage, active
<1>9. QED
  BY <1>1, <1>2, <1>3, <1>4, <1>5, <1>6, <1>7, <1>8, StutterStep DEF Next, client, retire

(* Epoch based reclamation keeps the promise every data structure relies on. *)
THEOREM Refinement == Spec => Reclamation
<1>1. Init => Contract!Init
  BY DEF Init, RecordsInit, Contract!Init, status, active
<1>2. QED BY <1>1, RefinementStep, Invariance, PTL DEF Spec, Reclamation, Contract!Spec

-------------------------------------------------------------------------------
(***************************************************************************)
(* QuiescentReclaimer frees no record to which an operation may have a     *)
(* pointer, if the thread has once been quiescent, for any number of       *)
(* threads, records and cells and any frequencies.                         *)
(*                                                                         *)
(* The steps that QuiescentReclaimer takes over from EpochReclaimer keep   *)
(* types, locals and places, as shown above.  What differs is the          *)
(* argument: a thread announces an epoch when no record waits for it, and  *)
(* everything it comes upon later is retired with that epoch or a later    *)
(* one.                                                                    *)
(***************************************************************************)

BeenQuiescent(t) == reservations[t] # UINT64_MAX

(* What has been announced is not ahead of the epoch. *)
NotAhead == \A t \in Tid : BeenQuiescent(t) => reservations[t] <= epoch

(* QuiescentBefore, while retire still holds the epoch in a local. *)
RetiringBefore ==
    \A u \in Tid : pc[u] = "push" =>
        \A t \in waiting[obj[u]] : BeenQuiescent(t) => reservations[t] <= e[u]

(* Only threads that have never been quiescent can be late for a record    *)
(* that was freed and linked again.                                        *)
LinkedOnceQuiescent ==
    \A c \in Cell : cell[c] # NULL => \A t \in waiting[cell[c]] : ~BeenQuiescent(t)

QuiescentCovered ==
    /\ SafeOnceQuiescent
    /\ QuiescentBefore
    /\ RetiringBefore
    /\ ScanCovered
    /\ LinkedOnceQuiescent

QuiescentIInv ==
    /\ TypeOK
    /\ Control
    /\ OnePlace
    /\ NotAhead
    /\ QuiescentCovered

-------------------------------------------------------------------------------
(* The invariant holds at first: nobody has been quiescent. *)
THEOREM InitQuiescentIInv == Init => QuiescentIInv
<1> SUFFICES ASSUME Init PROVE QuiescentIInv
  OBVIOUS
<1>1. TypeOK /\ Control /\ OnePlace /\ ScanCovered
  BY InitIInv DEF IInv
<1>2. NotAhead /\ SafeOnceQuiescent /\ QuiescentBefore /\ RetiringBefore /\ LinkedOnceQuiescent
  BY DEF Init, RecordsInit, NotAhead, BeenQuiescent, SafeOnceQuiescent, QuiescentBefore,
         RetiringBefore, LinkedOnceQuiescent
<1>3. QED BY <1>1, <1>2 DEF QuiescentIInv, QuiescentCovered

(* A step is one of EpochReclaimer, or one of the three of its own. *)
LEMMA QuiescentSteps ==
  ASSUME QuiescentNext
  PROVE  \E t \in Tid :
            \/ quiescentStart(t) \/ quiescentEnd_load(t) \/ quiescentEnd_store(t)
            \/ updateAllocCounterAndEpoch(t)
            \/ (\E c \in Cell : insert(t, c) \/ erase(t, c))
            \/ retire(t)
BY DEF QuiescentNext, quiescentClient

(* Those of EpochReclaimer are steps of its own next-state relation. *)
LEMMA TakenOver ==
  ASSUME NEW t \in Tid,
         updateAllocCounterAndEpoch(t) \/ (\E c \in Cell : insert(t, c) \/ erase(t, c)) \/ retire(t)
  PROVE  Next
BY DEF Next, client

(* Types, locals and places. *)
LEMMA QuiescentNextBasics ==
  ASSUME TypeOK, Control, OnePlace, QuiescentNext
  PROVE  TypeOK' /\ Control' /\ OnePlace'
<1> USE DEF goto, records, reclaimer, locals
<1>1. ASSUME NEW t \in Tid, quiescentStart(t) PROVE TypeOK' /\ Control' /\ OnePlace'
  BY <1>1
  DEF quiescentStart, TypeOK, RecordsTypeOK, Control, active, OnePlace, LinksDisjoint,
      RetiringDisjoint, RetiredDisjoint
<1>2. ASSUME NEW t \in Tid, quiescentEnd_load(t) PROVE TypeOK' /\ Control' /\ OnePlace'
  <2>1. TypeOK'
    BY <1>2 DEF quiescentEnd_load, TypeOK, RecordsTypeOK
  <2>2. Control'
    <3>1. epoch <= epoch
      BY EpochReclaimerAssumption DEF TypeOK, Epoch
    <3>2. QED BY <1>2, <3>1 DEF quiescentEnd_load, TypeOK, Control, active
  <2>3. OnePlace'
    BY <1>2 DEF quiescentEnd_load, OnePlace, LinksDisjoint, RetiringDisjoint, RetiredDisjoint
  <2>4. QED BY <2>1, <2>2, <2>3
<1>3. ASSUME NEW t \in Tid, quiescentEnd_store(t) PROVE TypeOK' /\ Control' /\ OnePlace'
  <2>1. 0 \in Epoch /\ 0 <= epoch
    BY EpochReclaimerAssumption DEF TypeOK, Epoch
  <2>2. TypeOK'
    BY <1>3, <2>1 DEF quiescentEnd_store, TypeOK, RecordsTypeOK
  <2>3. Control'
    BY <1>3, <2>1 DEF quiescentEnd_store, TypeOK, Control, active
  <2>4. OnePlace'
    BY <1>3 DEF quiescentEnd_store, OnePlace, LinksDisjoint, RetiringDisjoint, RetiredDisjoint
  <2>5. QED BY <2>2, <2>3, <2>4
<1>4. CASE Next
  BY <1>4, NextTypeOK, NextControl, NextOnePlace
<1>5. QED BY <1>1, <1>2, <1>3, <1>4, QuiescentSteps, TakenOver

(* What has been announced. *)
LEMMA QuiescentNextNotAhead ==
  ASSUME TypeOK, Control, NotAhead, QuiescentNext
  PROVE  NotAhead'
<1> USE DEF goto, records, reclaimer, locals, NotAhead, BeenQuiescent
<1>0. epoch \in Nat /\ \A t \in Tid : reservations[t] \in Nat
  BY EpochReclaimerAssumption DEF TypeOK, Epoch, UINT64_MAX
<1>1. ASSUME NEW t \in Tid, quiescentStart(t) \/ quiescentEnd_load(t) PROVE NotAhead'
  BY <1>1 DEF quiescentStart, quiescentEnd_load
<1>2. ASSUME NEW t \in Tid, quiescentEnd_store(t) PROVE NotAhead'
  BY <1>2 DEF quiescentEnd_store, Control, TypeOK
<1>3. ASSUME NEW t \in Tid, updateAllocCounterAndEpoch(t) PROVE NotAhead'
  <2>1. epoch' \in Nat /\ epoch <= epoch'
    BY <1>0, <1>3 DEF updateAllocCounterAndEpoch
  <2>2. QED BY <1>0, <1>3, <2>1 DEF updateAllocCounterAndEpoch
<1>4. ASSUME NEW t \in Tid, NEW c \in Cell, insert(t, c) \/ erase(t, c) PROVE NotAhead'
  BY <1>4 DEF insert, erase
<1>5. ASSUME NEW t \in Tid, retire(t) PROVE NotAhead'
  BY <1>5 DEF retire, retire_load, retire_push, empty_scan, empty_free, empty_return
<1>6. QED BY <1>1, <1>2, <1>3, <1>4, <1>5, QuiescentSteps

(* A step keeps the argument if nobody new is waited for, nobody who is    *)
(* waited for announces anything, and nothing moves but from the pool to a *)
(* link.                                                                   *)
LEMMA QuiescentQuietStep ==
  ASSUME TypeOK, Control, QuiescentCovered,
         \A n \in Node : waiting'[n] \subseteq waiting[n],
         \A n \in Node : \A t \in waiting'[n] : reservations'[t] = reservations[t],
         pool' \subseteq pool,
         \A c \in Cell : cell'[c] = cell[c] \/ cell'[c] \in pool \union {NULL},
         \A u \in Tid : pc'[u] = "push" => pc[u] = "push" /\ e'[u] = e[u] /\ obj'[u] = obj[u],
         \A u, t \in Tid : Passed(u, t)' => Passed(u, t) /\ minEpoch'[u] = minEpoch[u],
         UNCHANGED retired
  PROVE  QuiescentCovered'
<1> USE DEF QuiescentCovered, BeenQuiescent
<1>1. SafeOnceQuiescent'
  BY DEF SafeOnceQuiescent, TypeOK, RecordsTypeOK
<1>2. QuiescentBefore'
  BY RetiredTypes DEF QuiescentBefore
<1>3. RetiringBefore'
  BY DEF RetiringBefore, Control, TypeOK
<1>4. ScanCovered'
  BY RetiredTypes DEF ScanCovered
<1>5. LinkedOnceQuiescent'
  BY DEF LinkedOnceQuiescent, SafeOnceQuiescent, TypeOK, RecordsTypeOK
<1>6. QED BY <1>1, <1>2, <1>3, <1>4, <1>5

(* Each step keeps the argument. *)
LEMMA QuiescentNextCovered ==
  ASSUME TypeOK, Control, OnePlace, NotAhead, QuiescentCovered, QuiescentNext
  PROVE  QuiescentCovered'
<1> USE DEF goto, records, reclaimer, locals
<1>0. \A u \in Tid : pc[u] = "push" => obj[u] \in Node
  BY DEF TypeOK, Control
<1>1. ASSUME NEW t \in Tid, quiescentStart(t) PROVE QuiescentCovered'
  BY <1>1, QuiescentQuietStep DEF quiescentStart, TypeOK, Passed
<1>2. ASSUME NEW t \in Tid, quiescentEnd_load(t) PROVE QuiescentCovered'
  BY <1>2, QuiescentQuietStep DEF quiescentEnd_load, TypeOK, Passed
<1>3. ASSUME NEW t \in Tid, quiescentEnd_store(t) PROVE QuiescentCovered'
  <2>1. \A n \in Node : t \notin waiting[n]
    BY <1>3 DEF quiescentEnd_store, Control, active
  <2>2. \A n \in Node : \A u \in waiting'[n] : reservations'[u] = reservations[u]
    BY <1>3, <2>1 DEF quiescentEnd_store, TypeOK
  <2>3. QED BY <1>3, <2>2, QuiescentQuietStep DEF quiescentEnd_store, TypeOK, Passed
<1>4. ASSUME NEW t \in Tid, updateAllocCounterAndEpoch(t) PROVE QuiescentCovered'
  BY <1>4, QuiescentQuietStep DEF updateAllocCounterAndEpoch, TypeOK, Passed
<1>5. ASSUME NEW t \in Tid, NEW c \in Cell, insert(t, c) PROVE QuiescentCovered'
  <2>1. pool' \subseteq pool /\ \A d \in Cell : cell'[d] = cell[d] \/ cell'[d] \in pool
    BY <1>5 DEF insert, link, TypeOK, RecordsTypeOK
  <2>2. QED BY <1>5, <2>1, QuiescentQuietStep DEF insert, TypeOK, Passed
<1>6. ASSUME NEW t \in Tid, NEW c \in Cell, erase(t, c) PROVE QuiescentCovered'
  <2> DEFINE n == cell[c]
  <2>1. /\ n \in Node /\ n \notin pool /\ \A d \in Cell : cell[d] = n => d = c
        /\ \A u \in Tid : obj[u] # n /\ \A res \in retired[u] : res.obj # n
    BY <1>6 DEF erase, TypeOK, RecordsTypeOK, OnePlace, LinksDisjoint, RetiringDisjoint,
                RetiredDisjoint
  <2>2. /\ cell' = [cell EXCEPT ![c] = NULL]
        /\ \A m \in Node : m # n => waiting'[m] = waiting[m]
        /\ UNCHANGED <<pool, retired, reservations, e, i, minEpoch>>
    BY <1>6 DEF erase, unlink, TypeOK
  <2>3. \A u \in Tid : pc'[u] # "retire" => pc'[u] = pc[u] /\ obj'[u] = obj[u]
    BY <1>6 DEF erase, TypeOK
  <2> USE DEF QuiescentCovered, BeenQuiescent
  <2>4. SafeOnceQuiescent'
    BY <2>1, <2>2 DEF SafeOnceQuiescent, TypeOK, RecordsTypeOK
  <2>5. LinkedOnceQuiescent'
    BY <2>1, <2>2, LinkedRecordsAssumption DEF LinkedOnceQuiescent, TypeOK, RecordsTypeOK
  <2>6. QuiescentBefore'
    BY <2>1, <2>2, RetiredTypes DEF QuiescentBefore
  <2>7. ScanCovered'
    BY <2>1, <2>2, <2>3, RetiredTypes DEF ScanCovered, Passed
  <2>8. RetiringBefore'
    BY <1>0, <2>1, <2>2, <2>3 DEF RetiringBefore
  <2>9. QED BY <2>4, <2>5, <2>6, <2>7, <2>8
<1>7. ASSUME NEW t \in Tid, retire_load(t) PROVE QuiescentCovered'
  <2>1. /\ UNCHANGED <<cell, pool, retired, reservations, obj, i, minEpoch, waiting>>
        /\ e' = [e EXCEPT ![t] = epoch]
        /\ pc[t] = "retire" /\ pc' = [pc EXCEPT ![t] = "push"]
    BY <1>7 DEF retire_load
  <2> USE DEF QuiescentCovered, BeenQuiescent
  <2>2. SafeOnceQuiescent' /\ LinkedOnceQuiescent' /\ QuiescentBefore'
    BY <2>1 DEF SafeOnceQuiescent, LinkedOnceQuiescent, QuiescentBefore
  <2>3. ScanCovered'
    BY <2>1 DEF ScanCovered, Passed, TypeOK
  <2>4. RetiringBefore'
    <3>1. obj[t] \in Node /\ waiting[obj[t]] \subseteq Tid
      BY <2>1 DEF TypeOK, Control
    <3>2. \A v \in waiting[obj[t]] : BeenQuiescent(v) => reservations[v] <= epoch
      BY <3>1 DEF NotAhead
    <3>3. QED BY <2>1, <3>2 DEF RetiringBefore, TypeOK
  <2>5. QED BY <2>2, <2>3, <2>4
<1>8. ASSUME NEW t \in Tid, retire_push(t) PROVE QuiescentCovered'
  <2> DEFINE new == [obj |-> obj[t], epoch |-> e[t]]
  <2>1. \A u \in Tid : retired'[u] = IF u = t THEN retired[u] \union {new} ELSE retired[u]
    BY <1>8 DEF retire_push, TypeOK
  <2>2. new.obj = obj[t] /\ new.epoch = e[t]
    OBVIOUS
  <2> HIDE DEF new
  <2>3. /\ \A u \in Tid : u # t => pc'[u] = pc[u] /\ e'[u] = e[u] /\ obj'[u] = obj[u]
        /\ pc[t] = "push" /\ pc'[t] \in {"scan", "op"}
        /\ UNCHANGED <<cell, pool, reservations, i, minEpoch, waiting>>
    BY <1>8 DEF retire_push, TypeOK
  <2>4. \A u \in Tid : \A res \in retired'[u] : res = new \/ res \in retired[u]
    BY <2>1
  <2> USE DEF QuiescentCovered, BeenQuiescent
  <2>5. SafeOnceQuiescent' /\ LinkedOnceQuiescent' /\ RetiringBefore'
    BY <2>3 DEF SafeOnceQuiescent, LinkedOnceQuiescent, RetiringBefore
  <2>6. QuiescentBefore'
    <3>1. \A v \in waiting[new.obj] :
             reservations[v] # UINT64_MAX => reservations[v] <= new.epoch
      BY <2>2, <2>3 DEF RetiringBefore
    <3>2. QED BY <2>3, <2>4, <3>1 DEF QuiescentBefore
  <2>7. ScanCovered'
    <3>1. \A v \in Tid : ~Passed(t, v)'
      BY <2>3 DEF Control, Tid, Passed
    <3>2. waiting[new.obj] \subseteq Tid
      BY <1>0, <2>2, <2>3 DEF TypeOK
    <3>3. \A u \in Tid : \A res \in retired'[u] : waiting[res.obj] \subseteq Tid
      BY <2>4, <3>2, RetiredTypes
    <3>4. \A u \in Tid : u # t => retired'[u] = retired[u]
      BY <2>1
    <3>5. QED BY <2>3, <3>1, <3>3, <3>4 DEF ScanCovered, Passed
  <2>8. QED BY <2>5, <2>6, <2>7
<1>9. ASSUME NEW t \in Tid, empty_scan(t) PROVE QuiescentCovered'
  <2>1. /\ UNCHANGED <<cell, pool, retired, reservations, e, obj, waiting>>
        /\ \A u \in Tid : pc'[u] = "push" <=> pc[u] = "push"
    BY <1>9 DEF empty_scan, TypeOK
  <2>2. SafeOnceQuiescent' /\ LinkedOnceQuiescent' /\ QuiescentBefore' /\ RetiringBefore'
    BY <2>1 DEF QuiescentCovered, BeenQuiescent, SafeOnceQuiescent, LinkedOnceQuiescent,
                QuiescentBefore, RetiringBefore
  <2>3. ScanCovered'
    BY <1>9, ScanKeepsCovered DEF QuiescentCovered
  <2>4. QED BY <2>2, <2>3 DEF QuiescentCovered
<1>10. ASSUME NEW t \in Tid, empty_free(t) PROVE QuiescentCovered'
  <2>1. PICK res \in retired[t] :
           /\ res.epoch < minEpoch[t]
           /\ retired' = [retired EXCEPT ![t] = @ \ {res}]
           /\ pool' = pool \union {res.obj}
    BY <1>10 DEF empty_free, poolAdd, freeable
  <2>2. \A u \in Tid : retired'[u] \subseteq retired[u]
    BY <2>1 DEF TypeOK
  <2>3. UNCHANGED <<cell, waiting, reservations, pc, e, obj, i, minEpoch>>
    BY <1>10 DEF empty_free, poolAdd
  <2> USE DEF QuiescentCovered, BeenQuiescent
  <2>4. LinkedOnceQuiescent' /\ QuiescentBefore' /\ RetiringBefore' /\ ScanCovered'
    BY <2>2, <2>3
    DEF LinkedOnceQuiescent, QuiescentBefore, RetiringBefore, ScanCovered, Passed
  <2>5. ASSUME NEW v \in waiting[res.obj] PROVE reservations[v] = UINT64_MAX
    <3>1. SUFFICES ASSUME BeenQuiescent(v) PROVE FALSE
      OBVIOUS
    <3>2. v \in Tid /\ res.epoch \in Nat
      BY RetiredTypes
    <3>3. reservations[v] <= res.epoch
      BY <3>1 DEF QuiescentBefore
    <3>4. minEpoch[t] <= reservations[v]
      BY <1>10 DEF empty_free, ScanCovered, Passed
    <3>5. minEpoch[t] \in Nat /\ reservations[v] \in Nat
      BY <3>2, EpochsAreNat
    <3>6. QED BY <2>1, <3>2, <3>3, <3>4, <3>5
  <2>6. SafeOnceQuiescent'
    BY <2>1, <2>3, <2>5 DEF SafeOnceQuiescent
  <2>7. QED BY <2>4, <2>6
<1>11. ASSUME NEW t \in Tid, empty_return(t) PROVE QuiescentCovered'
  BY <1>11, QuiescentQuietStep DEF empty_return, TypeOK, Passed
<1>12. QED
  BY <1>1, <1>2, <1>3, <1>4, <1>5, <1>6, <1>7, <1>8, <1>9, <1>10, <1>11, QuiescentSteps
  DEF retire

(* QuiescentIInv holds in every reachable state. *)
THEOREM QuiescentInvariance == QuiescentSpec => []QuiescentIInv
<1>1. ASSUME QuiescentIInv, [QuiescentNext]_vars PROVE QuiescentIInv'
  <2>1. CASE QuiescentNext
    BY <1>1, <2>1, QuiescentNextBasics, QuiescentNextNotAhead, QuiescentNextCovered
    DEF QuiescentIInv
  <2>2. CASE UNCHANGED vars
    BY <1>1, <2>2
    DEF QuiescentIInv, QuiescentCovered, vars, TypeOK, RecordsTypeOK, Control, OnePlace,
        LinksDisjoint, RetiringDisjoint, RetiredDisjoint, NotAhead, BeenQuiescent,
        SafeOnceQuiescent, QuiescentBefore, RetiringBefore, ScanCovered, Passed,
        LinkedOnceQuiescent, active
  <2>3. QED BY <1>1, <2>1, <2>2
<1>2. QED BY InitQuiescentIInv, <1>1, PTL DEF QuiescentSpec

(* The variables keep their types. *)
THEOREM QuiescentTypeCorrect == QuiescentSpec => []TypeOK
BY QuiescentInvariance, PTL DEF QuiescentIInv

(* No record gets into two lists, or twice into one, here either. *)
THEOREM QuiescentSinglePlace == QuiescentSpec => []OnePlace
BY QuiescentInvariance, PTL DEF QuiescentIInv

(* Whoever may have a pointer to a retired record and has once been        *)
(* quiescent announced an epoch no later than the one it was retired in.   *)
THEOREM QuiescentAnnounced == QuiescentSpec => []QuiescentBefore
BY QuiescentInvariance, PTL DEF QuiescentIInv, QuiescentCovered

(* pool->add frees no record to which an operation of a thread that has    *)
(* once finished one may have a pointer.                                   *)
THEOREM QuiescentSafety == QuiescentSpec => []SafeOnceQuiescent
BY QuiescentInvariance, PTL DEF QuiescentIInv, QuiescentCovered
=============================================================================
