-------------------------- MODULE EraReclaimer_proofs --------------------------
(***************************************************************************)
(* HazardEras and IntervalReclaimer free no record that a thread protects, *)
(* for any number of threads, slots, records and cells and any             *)
(* frequencies.                                                            *)
(*                                                                         *)
(* The steps the two schemes share keep every record in one place, and are *)
(* steps of SafeReclamation.  What differs is the argument by which empty  *)
(* frees only records that nobody uses; each scheme has its own, and its   *)
(* own part below.                                                         *)
(***************************************************************************)
EXTENDS HazardEras, IntervalReclaimer, TLAPS

(* The types that do not depend on the scheme. *)
EraTypes ==
    /\ RecordsTypeOK
    /\ epoch \in Epoch
    /\ birth \in [Node -> Epoch]
    /\ retired \in [Tid -> SUBSET Info]
    /\ pc = [t \in Tid |-> pc[t]] /\ reservations = [s \in Slot |-> reservations[s]]
    /\ newNode \in [Tid -> Pointer] /\ ret \in [Tid -> Pointer] /\ obj \in [Tid -> Pointer]
    /\ idx \in [Tid -> Slot] /\ \A t \in Tid : idx[t] \in slotsOf(t)
    /\ src \in [Tid -> Cell \union {NULL}]
    /\ e \in [Tid -> Epoch]
    /\ ref \in [Slot -> SUBSET Node]

(* Where the locals are in use; and an announced epoch is one the global   *)
(* counter has reached, or one it never will.                              *)
EraControl ==
    /\ \A t \in Tid :
          /\ pc[t] \in {"load", "check", "announce"} => src[t] \in Cell
          /\ pc[t] \in {"created", "link"} <=> newNode[t] # NULL
          /\ pc[t] \in {"retire", "push"} <=> obj[t] # NULL
    /\ \A s \in Slot :
          reservations[s] \in Nat /\ (reservations[s] <= epoch \/ MaxEpoch < reservations[s])

(* The list repeats the birth epoch of its records. *)
Stamped == \A t \in Tid : \A res \in retired[t] : res.birth = birth[res.obj]

-------------------------------------------------------------------------------
(* The counters stay below their periods. *)
LEMMA ModRange == ASSUME NEW a \in Nat, NEW b \in Nat \ {0}
                  PROVE  a % b \in 0 .. b - 1
  OBVIOUS

(* The period of the allocation counter is at least 1. *)
LEMMA PeriodPositive == AllocPeriod \in Nat \ {0}
  BY EraReclaimerAssumption, LinkedRecordsAssumption DEF AllocPeriod

(* Each slot has one owner. *)
LEMMA SlotOwner ==
  /\ \A t \in Tid : slotsOf(t) \subseteq Slot /\ <<t, 1>> \in slotsOf(t)
  /\ \A s \in Slot : \E t \in Tid : s \in slotsOf(t)
  /\ \A t, u \in Tid : \A s \in slotsOf(t) : s \in slotsOf(u) => t = u
<1>1. 1 \in 1 .. SlotsPerThread
  BY EraReclaimerAssumption
<1>2. QED BY <1>1 DEF slotsOf, Slot

(* Epochs are numbers. *)
LEMMA EpochsAreNat ==
  /\ \A x \in Epoch : x \in Nat
  /\ 0 \in Epoch
BY EraReclaimerAssumption DEF Epoch

(* What a list holds. *)
LEMMA EraRetiredTypes ==
  ASSUME EraTypes, NEW u \in Tid, NEW res \in retired[u]
  PROVE  res.obj \in Node /\ res.birth \in Nat /\ res.retire \in Nat
BY EpochsAreNat DEF EraTypes, Info

-------------------------------------------------------------------------------
(* Most steps move no record from one place to another. *)
LEMMA NothingMoves ==
  ASSUME OnePlace, UNCHANGED <<cell, pool, newNode, obj, retired>>
  PROVE  OnePlace'
BY DEF OnePlace, LinksDisjoint, CreatedDisjoint, RetiringDisjoint, RetiredDisjoint

(* The shared steps keep every record in one place, *)
LEMMA SharedOnePlace ==
  ASSUME EraTypes, EraControl, OnePlace, NEW t \in Tid, shared(t)
  PROVE  OnePlace'
<1> USE DEF goto, records, reclaimer, reading, retiring, emptying
<1>1. CASE read_load(t) \/ read_check(t) \/ read_announce(t) \/ updateAllocCounterAndEpoch(t)
           \/ retire_load(t)
  BY <1>1, NothingMoves
  DEF read_load, read_check, read_announce, updateAllocCounterAndEpoch, retire_load
<1> USE DEF OnePlace, LinksDisjoint, CreatedDisjoint, RetiringDisjoint, RetiredDisjoint
<1>2. CASE new_node(t)
  BY <1>2, LinkedRecordsAssumption DEF new_node, EraTypes, RecordsTypeOK, Pointer
<1>3. ASSUME NEW c \in Cell, insert(t, c) PROVE OnePlace'
  BY <1>3, LinkedRecordsAssumption, SMTT(30)
  DEF insert, poolAdd, EraControl, EraTypes, RecordsTypeOK, Pointer, Info
<1>4. ASSUME NEW c \in Cell, erase(t, c) PROVE OnePlace'
  BY <1>4, LinkedRecordsAssumption DEF erase, unlink, EraTypes, RecordsTypeOK, Pointer, Info
<1>5. QED BY <1>1, <1>2, <1>3, <1>4 DEF shared

(* and so do the end of retire and the sweep. *)
LEMMA RetireOnePlace ==
  ASSUME EraTypes, EraControl, OnePlace, NEW t \in Tid, NEW all,
         retire_push(t, all) \/ \E res \in retired[t] : empty_free(t, res)
  PROVE  OnePlace'
<1> USE DEF goto, records, reclaimer, reading, retiring, emptying,
            OnePlace, LinksDisjoint, CreatedDisjoint, RetiringDisjoint, RetiredDisjoint
<1>1. CASE retire_push(t, all)
  BY <1>1, LinkedRecordsAssumption
  DEF retire_push, EraControl, EraTypes, RecordsTypeOK, Pointer, Info
<1>2. ASSUME NEW res \in retired[t], empty_free(t, res) PROVE OnePlace'
  BY <1>2, LinkedRecordsAssumption
  DEF empty_free, poolAdd, EraTypes, RecordsTypeOK, Pointer, Info
<1>3. QED BY <1>1, <1>2

(* The birth epoch is written only to a record from the pool. *)
LEMMA NewNodeStamped ==
  ASSUME EraTypes, OnePlace, Stamped, NEW t \in Tid, new_node(t)
  PROVE  Stamped'
BY DEF new_node, goto, Stamped, OnePlace, RetiredDisjoint, EraTypes, RecordsTypeOK, Info

(* retire copies it, *)
LEMMA PushStamped ==
  ASSUME EraTypes, Stamped, NEW t \in Tid, NEW all, retire_push(t, all)
  PROVE  Stamped'
<1> DEFINE new == [obj |-> obj[t], birth |-> birth[obj[t]], retire |-> e[t]]
<1>1. \A u \in Tid : \A res \in retired'[u] : res \in retired[u] \/ res = new
  BY DEF retire_push, EraTypes
<1>2. new.birth = birth[new.obj]
  OBVIOUS
<1>3. QED BY <1>1, <1>2 DEF retire_push, Stamped

(* and every other step leaves it alone. *)
LEMMA NextStampedEra ==
  ASSUME EraTypes, OnePlace, Stamped, NEW t \in Tid, NEW all,
         \/ shared(t) \/ retire_push(t, all) \/ (\E res \in retired[t] : empty_free(t, res))
  PROVE  Stamped'
<1> USE DEF goto, records, reclaimer, reading, retiring, emptying
<1>1. CASE new_node(t)
  BY <1>1, NewNodeStamped
<1>2. CASE retire_push(t, all)
  BY <1>2, PushStamped
<1>3. ASSUME NEW res \in retired[t], empty_free(t, res) PROVE Stamped'
  BY <1>3 DEF empty_free, EraTypes, Stamped
<1>4. CASE UNCHANGED <<retired, birth>>
  BY <1>4 DEF Stamped
<1>5. QED
  BY <1>1, <1>2, <1>3, <1>4
  DEF shared, read_load, read_check, read_announce, updateAllocCounterAndEpoch, insert, erase,
      retire_load

-------------------------------------------------------------------------------
(* A thread holds a record from the load of the link on, if the slot names *)
(* the current epoch then.                                                 *)
LEMMA SameStatus ==
  ASSUME UNCHANGED <<pool, cell, newNode, retired>>
  PROVE  UNCHANGED status
BY DEF status, Linked

(* What a thread holds depends on its slots and on what it is reading. *)
LEMMA SameHeld ==
  ASSUME UNCHANGED ref, \A u \in Tid : current(u)' = current(u)
  PROVE  UNCHANGED held
BY DEF held

(* A step that leaves the links and all threads' reads alone stutters. *)
LEMMA SameReads ==
  ASSUME UNCHANGED <<epoch, reservations, idx, ret>>,
         \A u \in Tid : pc'[u] = "check" <=> pc[u] = "check"
  PROVE  \A u \in Tid : current(u)' = current(u)
BY DEF current

(* What a contract's step does to the status of one record. *)
LEMMA StatusIsFunction == status = [m \in Node |-> status[m]]
BY DEF status

(* Threads may drop what they hold at any time. *)
LEMMA DropStep ==
  ASSUME EraTypes', UNCHANGED status, \A u \in Tid : held'[u] \subseteq held[u]
  PROVE  Contract!Next
<1>1. \A t \in Tid : held'[t] \subseteq Node
  <2>1. \A t \in Tid : current(t)' \subseteq Node
    BY DEF current, EraTypes, Pointer
  <2>2. \A t \in Tid : \A s \in slotsOf(t) : ref'[s] \subseteq Node
    BY SlotOwner DEF EraTypes
  <2>3. QED BY <2>1, <2>2 DEF held
<1>2. held' \in [Tid -> SUBSET Node]
  BY <1>1 DEF held
<1>3. QED BY <1>2 DEF Contract!Next, Contract!Drop

(* read: the load of the link is when the thread takes hold of the record, *)
LEMMA ReadLoadStep ==
  ASSUME EraTypes, EraControl, OnePlace, NEW t \in Tid, read_load(t)
  PROVE  Contract!Next \/ UNCHANGED Contract!vars
<1> USE DEF goto, records, reclaimer, reading, retiring, emptying
<1> DEFINE n == cell[src[t]]
<1>1. UNCHANGED status
  BY SameStatus DEF read_load
<1>2. \A u \in Tid : u # t => held'[u] = held[u]
  BY DEF read_load, held, current, EraTypes
<1>3. current(t) = {} /\ UNCHANGED ref
  BY DEF read_load, current
<1>4. current(t)' = IF reservations[idx[t]] = epoch THEN {n} \ {NULL} ELSE {}
  BY DEF read_load, current, EraTypes
<1>5. CASE reservations[idx[t]] = epoch /\ n # NULL
  <2>1. src[t] \in Cell /\ n \in Node
    BY <1>5 DEF read_load, EraControl, EraTypes, RecordsTypeOK
  <2>2. status[n] = "linked"
    BY <1>5, <2>1 DEF status, Linked, OnePlace, LinksDisjoint, CreatedDisjoint
  <2>3. held'[t] = held[t] \union {n}
    BY <1>3, <1>4, <1>5 DEF held
  <2>4. held' = [held EXCEPT ![t] = @ \union {n}]
    BY <1>2, <2>3 DEF held
  <2>5. Contract!Hold(t, n)
    BY <1>1, <2>2, <2>4 DEF Contract!Hold
  <2>6. QED BY <2>1, <2>5 DEF Contract!Next
<1>6. CASE ~(reservations[idx[t]] = epoch /\ n # NULL)
  <2>1. held'[t] = held[t]
    BY <1>3, <1>4, <1>6 DEF held
  <2>2. held' = held
    BY <1>2, <2>1 DEF held
  <2>3. QED BY <1>1, <2>2 DEF Contract!vars
<1>7. QED BY <1>5, <1>6

(* and the check of the epoch only confirms it. *)
LEMMA ReadCheckStep ==
  ASSUME EraTypes, EraControl, OnePlace, NEW t \in Tid, read_check(t)
  PROVE  UNCHANGED Contract!vars
<1> USE DEF goto, records, reclaimer, reading, retiring, emptying
<1>1. UNCHANGED status
  BY SameStatus DEF read_check
<1>2. \A u \in Tid : u # t => held'[u] = held[u]
  <2>1. ASSUME NEW u \in Tid, u # t PROVE held'[u] = held[u]
    <3>1. current(u)' = current(u)
      BY <2>1 DEF read_check, current, EraTypes
    <3>2. \A s \in slotsOf(u) : s \in Slot /\ s # idx[t]
      <4>1. idx[t] \in slotsOf(t)
        BY DEF EraTypes
      <4>2. QED BY <2>1, <4>1, SlotOwner
    <3>3. \A s \in Slot : s # idx[t] => ref'[s] = ref[s]
      BY DEF read_check, EraTypes
    <3>4. \A s \in slotsOf(u) : ref'[s] = ref[s]
      BY <3>2, <3>3
    <3>5. QED BY <3>1, <3>4 DEF held
  <2>2. QED BY <2>1
<1>3. held'[t] = held[t]
  <2>1. idx[t] \in slotsOf(t) /\ idx[t] \in Slot /\ current(t)' = {}
    BY SlotOwner DEF read_check, current, EraTypes
  <2>2. CASE epoch = reservations[idx[t]]
    <3>1. ref' = [ref EXCEPT ![idx[t]] = @ \union current(t)]
      BY <2>2 DEF read_check, current
    <3>2. \A s \in slotsOf(t) : ref'[s] = IF s = idx[t] THEN ref[s] \union current(t) ELSE ref[s]
      BY <3>1, SlotOwner DEF EraTypes
    <3>3. UNION {ref'[s] : s \in slotsOf(t)} = current(t) \union UNION {ref[s] : s \in slotsOf(t)}
      <4> DEFINE before_ == {ref[s] : s \in slotsOf(t)}
                 after_ == {ref'[s] : s \in slotsOf(t)}
      <4>1. ASSUME NEW x \in UNION after_ PROVE x \in current(t) \union UNION before_
        <5>1. PICK s \in slotsOf(t) : x \in ref'[s]
          BY <4>1
        <5>2. x \in current(t) \/ x \in ref[s]
          BY <3>2, <5>1
        <5>3. QED BY <5>2
      <4>2. ASSUME NEW x \in current(t) \union UNION before_ PROVE x \in UNION after_
        <5>1. CASE x \in current(t)
          BY <2>1, <3>2, <5>1
        <5>2. CASE x \in UNION before_
          <6>1. PICK s \in slotsOf(t) : x \in ref[s]
            BY <5>2
          <6>2. x \in ref'[s]
            BY <3>2, <6>1
          <6>3. QED BY <6>2
        <5>3. QED BY <4>2, <5>1, <5>2
      <4>3. QED BY <4>1, <4>2
    <3>4. QED BY <2>1, <3>3 DEF held
  <2>3. CASE epoch # reservations[idx[t]]
    BY <2>1, <2>3 DEF read_check, held, current
  <2>4. QED BY <2>2, <2>3
<1>4. QED BY <1>1, <1>2, <1>3 DEF Contract!vars, held

(* An announcement is made when the thread is reading nothing. *)
LEMMA ReadAnnounceStep ==
  ASSUME EraTypes, EraControl, OnePlace, NEW t \in Tid, read_announce(t)
  PROVE  UNCHANGED Contract!vars
<1> USE DEF goto, records, reclaimer, reading, retiring, emptying
<1>1. UNCHANGED status
  BY SameStatus DEF read_announce
<1>2. \A u \in Tid : current(u)' = current(u)
  <2>1. \A u \in Tid : pc[u] = "check" => idx[u] # idx[t]
    BY SlotOwner DEF read_announce, EraTypes
  <2>2. QED BY <2>1 DEF read_announce, current, EraTypes
<1>3. QED BY <1>1, <1>2, SameHeld DEF read_announce, Contract!vars

(* A record that has been created is still its creator's alone. *)
LEMMA NewNodeStep ==
  ASSUME EraTypes, EraControl, OnePlace, NEW t \in Tid, new_node(t)
  PROVE  UNCHANGED Contract!vars
<1> USE DEF goto, records, reclaimer, reading, retiring, emptying
<1>1. PICK n \in pool : newNode' = [newNode EXCEPT ![t] = n] /\ pool' = pool \ {n}
  BY DEF new_node
<1>2. UNCHANGED <<cell, retired, epoch, reservations, idx, ret, ref>> /\ newNode[t] = NULL
  BY DEF new_node, EraControl
<1>3. \A m \in Node : (m \in pool' \/ \E u \in Tid : newNode'[u] = m)
                    <=> (m \in pool \/ \E u \in Tid : newNode[u] = m)
  BY <1>1, <1>2, LinkedRecordsAssumption DEF EraTypes, RecordsTypeOK
<1>4. UNCHANGED status
  BY <1>2, <1>3 DEF status, Linked
<1>5. \A u \in Tid : pc'[u] = "check" <=> pc[u] = "check"
  BY DEF new_node, EraTypes
<1>6. QED BY <1>2, <1>4, <1>5, SameReads, SameHeld DEF Contract!vars

(* When the epoch advances, what has been loaded under the old one is no   *)
(* longer going to be returned.                                            *)
LEMMA AdvanceStep ==
  ASSUME EraTypes, EraControl, OnePlace, EraTypes', NEW t \in Tid,
         updateAllocCounterAndEpoch(t)
  PROVE  Contract!Next
<1> USE DEF goto, records, reclaimer, reading, retiring, emptying
<1>1. UNCHANGED status
  BY SameStatus DEF updateAllocCounterAndEpoch
<1>2. \A u \in Tid : current(u)' \subseteq current(u)
  <2>1. epoch \in Nat /\ epoch' \in Nat /\ epoch <= epoch'
    BY EpochsAreNat DEF updateAllocCounterAndEpoch, EraTypes
  <2>2. epoch # epoch' => \A s \in Slot : reservations[s] # epoch'
    <3>1. epoch' <= MaxEpoch
      BY EraReclaimerAssumption DEF updateAllocCounterAndEpoch, EraTypes, Epoch
    <3>2. MaxEpoch \in Nat
      BY EraReclaimerAssumption
    <3>3. QED BY <2>1, <3>1, <3>2 DEF EraControl
  <2>3. QED BY <2>1, <2>2 DEF updateAllocCounterAndEpoch, current, EraTypes
<1>3. \A u \in Tid : held'[u] \subseteq held[u]
  BY <1>2 DEF updateAllocCounterAndEpoch, held
<1>4. QED BY <1>1, <1>3, DropStep

(* A record is linked, or deallocated by the thread that created it. *)
LEMMA InsertStep ==
  ASSUME EraTypes, EraControl, OnePlace, NEW t \in Tid, NEW c \in Cell, insert(t, c)
  PROVE  Contract!Next \/ UNCHANGED Contract!vars
<1> USE DEF goto, records, reclaimer, reading, retiring, emptying
<1> DEFINE n == newNode[t]
<1>1. n \in Node /\ n \notin pool /\ pc[t] = "link"
  BY DEF insert, EraControl, EraTypes, Pointer, CreatedDisjoint, OnePlace
<1>2. UNCHANGED held
  <2>1. \A u \in Tid : pc'[u] = "check" <=> pc[u] = "check"
    BY DEF insert, EraTypes
  <2>2. QED BY <2>1, SameReads, SameHeld DEF insert, poolAdd
<1>3. CASE cell[c] = NULL
  <2>1. /\ cell' = [cell EXCEPT ![c] = n] /\ newNode' = [newNode EXCEPT ![t] = NULL]
        /\ UNCHANGED <<pool, retired>>
    BY <1>3 DEF insert
  <2>2. status[n] = "free"
    BY <1>1 DEF status
  <2>3. status' = [status EXCEPT ![n] = "linked"]
    <3>1. \A m \in Node : (\E u \in Tid : newNode'[u] = m)
                          <=> (\E u \in Tid : newNode[u] = m) /\ m # n
      BY <1>1, <2>1, LinkedRecordsAssumption DEF EraTypes, Pointer, OnePlace, CreatedDisjoint
    <3>2. \A m \in Node : m \in Linked' <=> m \in Linked \/ m = n
      BY <1>1, <1>3, <2>1, LinkedRecordsAssumption DEF Linked, EraTypes, RecordsTypeOK
    <3>3. QED BY <1>1, <2>1, <3>1, <3>2 DEF status
  <2>4. Contract!Link(n)
    BY StatusIsFunction, <1>2, <2>2, <2>3 DEF Contract!Link, Contract!move
  <2>5. QED BY <1>1, <2>4 DEF Contract!Next
<1>4. CASE cell[c] # NULL /\ UNCHANGED <<pool, newNode>>
  BY <1>2, <1>4, SameStatus DEF insert, poolAdd, Contract!vars
<1>5. CASE cell[c] # NULL /\ poolAdd(n) /\ newNode' = [newNode EXCEPT ![t] = NULL]
  <2>1. UNCHANGED <<cell, retired>> /\ pool' = pool \union {n}
    BY <1>5 DEF insert, poolAdd
  <2>2. \A m \in Node : (m \in pool' \/ \E u \in Tid : newNode'[u] = m)
                      <=> (m \in pool \/ \E u \in Tid : newNode[u] = m)
    BY <1>5, <2>1, LinkedRecordsAssumption DEF EraTypes
  <2>3. UNCHANGED status
    BY <2>1, <2>2 DEF status, Linked
  <2>4. QED BY <1>2, <2>3 DEF Contract!vars
<1>6. QED BY <1>3, <1>4, <1>5 DEF insert

(* A record is unlinked by a thread that holds it. *)
LEMMA EraseStep ==
  ASSUME EraTypes, EraControl, OnePlace, NEW t \in Tid, NEW c \in Cell, erase(t, c)
  PROVE  Contract!Next
<1> USE DEF goto, records, reclaimer, reading, retiring, emptying
<1> DEFINE n == cell[c]
<1>1. n \in Node /\ n \notin pool /\ \A u \in Tid : newNode[u] # n
  BY DEF erase, EraTypes, RecordsTypeOK, OnePlace, LinksDisjoint, CreatedDisjoint
<1>2. /\ cell' = [cell EXCEPT ![c] = NULL] /\ UNCHANGED <<pool, newNode, retired>>
      /\ n \in held[t]
  BY DEF erase, unlink, held
<1>3. UNCHANGED held
  <2>1. \A u \in Tid : pc'[u] = "check" <=> pc[u] = "check"
    BY DEF erase, EraTypes
  <2>2. QED BY <2>1, SameReads, SameHeld DEF erase
<1>4. status[n] = "linked"
  BY <1>1 DEF status, Linked
<1>5. status' = [status EXCEPT ![n] = "unlinked"]
  <2>1. \A m \in Node : m \in Linked' <=> m \in Linked /\ m # n
    BY <1>1, <1>2, LinkedRecordsAssumption
    DEF Linked, EraTypes, RecordsTypeOK, OnePlace, LinksDisjoint
  <2>2. \A u \in Tid : \A res \in retired[u] : res.obj # n
    BY DEF OnePlace, RetiredDisjoint
  <2>3. QED BY <1>1, <1>2, <2>1, <2>2 DEF status
<1>6. Contract!Unlink(t, n)
  BY StatusIsFunction, <1>2, <1>3, <1>4, <1>5 DEF Contract!Unlink, Contract!move
<1>7. QED BY <1>1, <1>6 DEF Contract!Next

(* The push is when a record counts as retired. *)
LEMMA PushStep ==
  ASSUME EraTypes, EraControl, OnePlace, NEW t \in Tid, NEW all, retire_push(t, all)
  PROVE  Contract!Next
<1> USE DEF goto, records, reclaimer, reading, retiring, emptying
<1> DEFINE n == obj[t]
           new == [obj |-> n, birth |-> birth[n], retire |-> e[t]]
<1>1. /\ n \in Node /\ n \notin pool /\ n \notin Linked
      /\ \A u \in Tid : newNode[u] # n /\ \A res \in retired[u] : res.obj # n
  BY DEF retire_push, EraControl, EraTypes, Pointer, OnePlace, RetiringDisjoint,
               RetiredDisjoint, Linked
<1>2. /\ \A u \in Tid : retired'[u] = IF u = t THEN retired[u] \union {new} ELSE retired[u]
      /\ UNCHANGED <<pool, cell, newNode>>
  BY DEF retire_push, EraTypes
<1>3. new.obj = n
  OBVIOUS
<1>4. UNCHANGED held
  <2>1. \A u \in Tid : pc'[u] = "check" <=> pc[u] = "check"
    BY DEF retire_push, EraTypes
  <2>2. QED BY <2>1, SameReads, SameHeld DEF retire_push
<1> HIDE DEF new
<1>5. status[n] = "unlinked"
  BY <1>1 DEF status
<1>6. status' = [status EXCEPT ![n] = "retired"]
  <2>1. \A m \in Node : (\E u \in Tid : \E res \in retired'[u] : res.obj = m)
                       <=> m = n \/ \E u \in Tid : \E res \in retired[u] : res.obj = m
    BY <1>2, <1>3
  <2>2. \A m \in Node :
           /\ m \in Linked' <=> m \in Linked
           /\ m \in pool' <=> m \in pool
           /\ (\E u \in Tid : newNode'[u] = m) <=> (\E u \in Tid : newNode[u] = m)
    BY <1>2 DEF Linked
  <2>3. \A m \in Node : status'[m] = IF m = n THEN "retired" ELSE status[m]
    <3>1. status'[n] = "retired"
      BY <1>1, <2>1, <2>2 DEF status
    <3>2. ASSUME NEW m \in Node, m # n PROVE status'[m] = status[m]
      BY <2>1, <2>2, <3>2 DEF status
    <3>3. QED BY <3>1, <3>2
  <2>4. status' = [m \in Node |-> status'[m]]
    BY DEF status
  <2>5. QED BY StatusIsFunction, <2>3, <2>4
<1>7. Contract!Retire(t, n)
  BY StatusIsFunction, <1>4, <1>5, <1>6 DEF Contract!Retire, Contract!move
<1>8. QED BY <1>1, <1>7 DEF Contract!Next

(* A record may be freed when nobody holds it. *)
LEMMA FreeStep ==
  ASSUME EraTypes, EraControl, OnePlace, NEW t \in Tid, NEW res \in retired[t], empty_free(t, res),
         \A u \in Tid : res.obj \notin held[u]
  PROVE  Contract!Next
<1> USE DEF goto, records, reclaimer, reading, retiring, emptying
<1> DEFINE n == res.obj
<1>1. /\ pool' = pool \union {n} /\ retired' = [retired EXCEPT ![t] = @ \ {res}]
      /\ UNCHANGED <<cell, newNode>>
  BY DEF empty_free, poolAdd
<1>2. /\ n \in Node /\ n \notin pool /\ n \notin Linked /\ \A u \in Tid : newNode[u] # n
      /\ \A u \in Tid : \A r \in retired[u] : r.obj = n => u = t /\ r = res
  BY EraRetiredTypes DEF OnePlace, RetiredDisjoint, Linked
<1>3. UNCHANGED held
  <2>1. UNCHANGED pc
    BY DEF empty_free, EraTypes
  <2>2. QED BY <2>1, SameReads, SameHeld DEF empty_free
<1>4. status[n] = "retired"
  BY <1>2 DEF status
<1>5. status' = [status EXCEPT ![n] = "free"]
  <2>1. \A m \in Node : m # n =>
           ((\E u \in Tid : \E r \in retired'[u] : r.obj = m)
            <=> \E u \in Tid : \E r \in retired[u] : r.obj = m)
    BY <1>1 DEF EraTypes
  <2>2. QED BY <1>1, <1>2, <2>1 DEF status, Linked
<1>6. Contract!Free(n)
  BY StatusIsFunction, <1>3, <1>4, <1>5 DEF Contract!Free, Contract!move
<1>7. QED BY <1>2, <1>6 DEF Contract!Next

(* The shared steps are steps of the contract or stutter there. *)
LEMMA SharedStep ==
  ASSUME EraTypes, EraTypes', EraControl, OnePlace, NEW t \in Tid, shared(t)
  PROVE  Contract!Next \/ UNCHANGED Contract!vars
<1>1. ASSUME retire_load(t) PROVE UNCHANGED Contract!vars
  <2>1. UNCHANGED <<pool, cell, newNode, retired, epoch, reservations, idx, ret, ref>>
    BY <1>1 DEF retire_load, records, reclaimer, reading
  <2>2. \A u \in Tid : pc'[u] = "check" <=> pc[u] = "check"
    BY <1>1 DEF retire_load, goto, EraTypes
  <2>3. QED BY <2>1, <2>2, SameStatus, SameReads, SameHeld DEF Contract!vars
<1>2. QED
  BY <1>1, ReadLoadStep, ReadCheckStep, ReadAnnounceStep, NewNodeStep, AdvanceStep, InsertStep,
     EraseStep
  DEF shared

-------------------------------------------------------------------------------
(***************************************************************************)
(* Hazard eras.  NoUseAfterFree is not inductive.  It rests on the era     *)
(* argument, which has to hold from the moment a link is loaded            *)
(* (Protected), and on what a copy of the slots, taken one by one, still   *)
(* says of them when it is used (ScanCovered).                             *)
(***************************************************************************)
(* The locals are alive exactly where the code uses them, and no epoch     *)
(* anywhere is ahead of the global one.                                    *)
Control ==
    /\ \A t \in Tid :
          /\ pc[t] \in {"load", "check", "announce"} => src[t] \in Cell /\ ref[idx[t]] = {}
          /\ pc[t] \in {"created", "link"} <=> newNode[t] # NULL
          /\ pc[t] \in {"retire", "push"} <=> obj[t] # NULL
          /\ e[t] <= epoch
    /\ \A s \in Slot : reservations[s] <= epoch
    /\ \A n \in Node : birth[n] <= epoch

(* A record is used under slot s: read has returned it, or will if the     *)
(* epoch stays what it is.                                                 *)
Returning(t, s) == pc[t] = "check" /\ idx[t] = s /\ reservations[s] = epoch
Uses(s, n) == n \in ref[s] \/ \E t \in Tid : Returning(t, s) /\ ret[t] = n

(* Then the slot names an epoch of the record's life as far as it has got, *)
(* and the record is not free.                                             *)
Protected ==
    \A s \in Slot, n \in Node : Uses(s, n) =>
        /\ n \notin pool
        /\ 0 < reservations[s] /\ birth[n] <= reservations[s]
        /\ \A u \in Tid :
              /\ newNode[u] # n
              /\ pc[u] = "push" /\ obj[u] = n => reservations[s] <= e[u]
              /\ \A res \in retired[u] : res.obj = n => reservations[s] <= res.retire

(* A copy of the slots has the epoch of each slot it is past, if a record  *)
(* of the list is used under it.                                           *)
Passed(u, s) == pc[u] = "sweep" \/ (pc[u] = "scan" /\ s \notin toScan[u])

ScanCovered ==
    \A u \in Tid : \A res \in retired[u] : \A s \in Slot :
        Uses(s, res.obj) /\ Passed(u, s) => reservations[s] \in scanned[u]

IInv ==
    /\ TypeOK
    /\ Control
    /\ OnePlace
    /\ Stamped
    /\ Protected
    /\ ScanCovered

-------------------------------------------------------------------------------
(* In particular the types and locals are as the shared steps need them. *)
LEMMA SchemeTypes ==
  /\ TypeOK => EraTypes
  /\ TypeOK /\ Control => EraControl
BY EpochsAreNat DEF TypeOK, Control, EraTypes, EraControl

(* The invariant holds at first: nothing is used and nothing is retired. *)
THEOREM InitIInv == Init => IInv
<1> SUFFICES ASSUME Init PROVE IInv
  OBVIOUS
<1> USE EraReclaimerAssumption, LinkedRecordsAssumption
    DEF Init, EraInit, RecordsInit, NONE_RESERVED
<1>1. TypeOK
  <2>1. 0 \in 0 .. EmptyFreq - 1 /\ 0 \in 0 .. AllocPeriod - 1 /\ 0 \in Epoch /\ 1 \in Epoch
    BY PeriodPositive DEF Epoch
  <2>2. QED BY <2>1, SlotOwner DEF TypeOK, RecordsTypeOK, Pointer
<1>2. Control /\ Stamped
  BY DEF Control, Stamped
<1>3. OnePlace
  BY DEF OnePlace, LinksDisjoint, CreatedDisjoint, RetiringDisjoint, RetiredDisjoint
<1>4. Protected /\ ScanCovered
  BY DEF Protected, ScanCovered, Uses, Returning
<1>5. QED BY <1>1, <1>2, <1>3, <1>4 DEF IInv

-------------------------------------------------------------------------------
(* Each action keeps the types. *)
LEMMA NextTypeOK ==
  ASSUME TypeOK, Control, Next
  PROVE  TypeOK'
<1> USE DEF goto, records, reclaimer, reading, retiring, emptying, TypeOK, RecordsTypeOK, Pointer
<1>1. ASSUME NEW t \in Tid, read_load(t) PROVE TypeOK'
  BY <1>1 DEF read_load, Control
<1>2. ASSUME NEW t \in Tid, read_check(t) PROVE TypeOK'
  BY <1>2, LinkedRecordsAssumption, SMTT(30) DEF read_check
<1>3. ASSUME NEW t \in Tid, read_announce(t) PROVE TypeOK'
  BY <1>3, EpochsAreNat DEF read_announce
<1>4. ASSUME NEW t \in Tid, new_node(t) PROVE TypeOK'
  BY <1>4 DEF new_node
<1>5. ASSUME NEW t \in Tid, updateAllocCounterAndEpoch(t) PROVE TypeOK'
  <2>1. (alloc_counters[t] + 1) % AllocPeriod \in 0 .. AllocPeriod - 1
    <3>1. alloc_counters[t] + 1 \in Nat
      BY PeriodPositive
    <3>2. QED BY <3>1, PeriodPositive, ModRange
  <2>2. epoch' \in Epoch \ {0}
    BY <1>5, EraReclaimerAssumption DEF updateAllocCounterAndEpoch, Epoch
  <2>3. QED BY <1>5, <2>1, <2>2 DEF updateAllocCounterAndEpoch
<1>6. ASSUME NEW t \in Tid, NEW c \in Cell, insert(t, c) PROVE TypeOK'
  BY <1>6, SMTT(30) DEF insert, poolAdd, Control
<1>7. ASSUME NEW t \in Tid, NEW c \in Cell, erase(t, c) PROVE TypeOK'
  BY <1>7 DEF erase, unlink
<1>8. ASSUME NEW t \in Tid, retire_load(t) PROVE TypeOK'
  BY <1>8 DEF retire_load
<1>9. ASSUME NEW t \in Tid, endOp(t) PROVE TypeOK'
  BY <1>9, EpochsAreNat DEF endOp, NONE_RESERVED
<1>10. ASSUME NEW t \in Tid, NEW s \in slotsOf(t), NEW c \in Cell, read_call(t, s, c, {})
       PROVE  TypeOK'
  BY <1>10, SlotOwner, ZenonT(30) DEF read_call
<1>11. ASSUME NEW t \in Tid, retire_push(t, Slot) PROVE TypeOK'
  <2>1. (retire_counters[t] + 1) % EmptyFreq \in 0 .. EmptyFreq - 1
    BY EraReclaimerAssumption, ModRange
  <2>2. [obj |-> obj[t], birth |-> birth[obj[t]], retire |-> e[t]] \in Info
    BY <1>11 DEF retire_push, Control, Info
  <2>3. retired' \in [Tid -> SUBSET Info]
    BY <1>11, <2>2 DEF retire_push
  <2>4. e' \in [Tid -> Epoch]
    BY <1>11, EpochsAreNat DEF retire_push
  <2>5. QED BY <1>11, <2>1, <2>3, <2>4 DEF retire_push
<1>12. ASSUME NEW t \in Tid, empty_scan(t) PROVE TypeOK'
  BY <1>12 DEF empty_scan
<1>13. ASSUME NEW t \in Tid, NEW res \in retired[t], empty_free(t, res) PROVE TypeOK'
  BY <1>13 DEF empty_free, poolAdd, Info
<1>14. ASSUME NEW t \in Tid, empty_return(t) PROVE TypeOK'
  BY <1>14 DEF empty_return
<1>15. QED
  BY <1>1, <1>2, <1>3, <1>4, <1>5, <1>6, <1>7, <1>8, <1>9, <1>10, <1>11, <1>12, <1>13, <1>14
  DEF Next, shared, client, retire

(* ... the use of the locals ... *)
LEMMA NextControl ==
  ASSUME TypeOK, Control, Next
  PROVE  Control'
<1> USE DEF goto, records, reclaimer, reading, retiring, emptying, TypeOK, Control, Pointer
<1>1. ASSUME NEW t \in Tid, read_load(t) PROVE Control'
  BY <1>1 DEF read_load
<1>2. ASSUME NEW t \in Tid, read_check(t) PROVE Control'
  <2>1. \A u \in Tid : u # t => idx[u] # idx[t]
    BY SlotOwner
  <2>2. epoch \in Nat
    BY EpochsAreNat
  <2>3. QED BY <1>2, <2>1, <2>2 DEF read_check
<1>3. ASSUME NEW t \in Tid, read_announce(t) PROVE Control'
  <2>1. 0 <= epoch
    BY EpochsAreNat
  <2>2. QED BY <1>3, <2>1 DEF read_announce
<1>4. ASSUME NEW t \in Tid, new_node(t) PROVE Control'
  <2>1. epoch <= epoch
    BY EpochsAreNat
  <2>2. QED BY <1>4, <2>1, LinkedRecordsAssumption DEF new_node, RecordsTypeOK
<1>5. ASSUME NEW t \in Tid, updateAllocCounterAndEpoch(t) PROVE Control'
  <2>1. epoch \in Nat /\ epoch' \in Nat /\ epoch <= epoch'
    BY <1>5, EpochsAreNat DEF updateAllocCounterAndEpoch
  <2>2. /\ \A u \in Tid : e[u] \in Nat
        /\ \A s \in Slot : reservations[s] \in Nat
        /\ \A n \in Node : birth[n] \in Nat
    BY EpochsAreNat
  <2>3. QED BY <1>5, <2>1, <2>2 DEF updateAllocCounterAndEpoch
<1>6. ASSUME NEW t \in Tid, NEW c \in Cell, insert(t, c) PROVE Control'
  BY <1>6 DEF insert, poolAdd
<1>7. ASSUME NEW t \in Tid, NEW c \in Cell, erase(t, c) PROVE Control'
  BY <1>7 DEF erase, unlink
<1>8. ASSUME NEW t \in Tid, retire_load(t) PROVE Control'
  <2>1. epoch <= epoch
    BY EpochsAreNat
  <2>2. QED BY <1>8, <2>1 DEF retire_load
<1>9. ASSUME NEW t \in Tid, endOp(t) PROVE Control'
  <2>1. 0 <= epoch
    BY EpochsAreNat
  <2>2. \A u \in Tid : u # t => idx[u] \notin slotsOf(t)
    BY SlotOwner
  <2>3. QED BY <1>9, <2>1, <2>2, SlotOwner DEF endOp, NONE_RESERVED
<1>10. ASSUME NEW t \in Tid, NEW s \in slotsOf(t), NEW c \in Cell, read_call(t, s, c, {})
       PROVE  Control'
  BY <1>10, SlotOwner, ZenonT(30) DEF read_call
<1>11. ASSUME NEW t \in Tid, retire_push(t, Slot) PROVE Control'
  <2>1. 0 <= epoch
    BY EpochsAreNat
  <2>2. QED BY <1>11, <2>1 DEF retire_push
<1>12. ASSUME NEW t \in Tid, empty_scan(t) PROVE Control'
  BY <1>12 DEF empty_scan
<1>13. ASSUME NEW t \in Tid, NEW res \in retired[t], empty_free(t, res) PROVE Control'
  BY <1>13 DEF empty_free, poolAdd
<1>14. ASSUME NEW t \in Tid, empty_return(t) PROVE Control'
  BY <1>14 DEF empty_return
<1>15. QED
  BY <1>1, <1>2, <1>3, <1>4, <1>5, <1>6, <1>7, <1>8, <1>9, <1>10, <1>11, <1>12, <1>13, <1>14
  DEF Next, shared, client, retire

(* ... every record in one place ... *)
LEMMA NextOnePlace ==
  ASSUME TypeOK, Control, OnePlace, Next
  PROVE  OnePlace'
<1>1. ASSUME NEW t \in Tid, shared(t) PROVE OnePlace'
  BY <1>1, SchemeTypes, SharedOnePlace
<1>2. ASSUME NEW t \in Tid, retire_push(t, Slot) \/ \E res \in retired[t] : empty_free(t, res)
      PROVE  OnePlace'
  BY <1>2, SchemeTypes, RetireOnePlace
<1>3. CASE UNCHANGED <<cell, pool, newNode, obj, retired>>
  BY <1>3, NothingMoves
<1>4. QED
  BY <1>1, <1>2, <1>3
  DEF Next, client, retire, endOp, read_call, empty_scan, empty_return, records, reclaimer,
      retiring

(* ... the birth epochs that the lists repeat ... *)
LEMMA NextStamped ==
  ASSUME TypeOK, OnePlace, Stamped, Next
  PROVE  Stamped'
<1>1. ASSUME NEW t \in Tid,
             \/ shared(t) \/ retire_push(t, Slot)
             \/ \E res \in retired[t] : empty_free(t, res)
      PROVE  Stamped'
  BY <1>1, SchemeTypes, NextStampedEra
<1>2. CASE UNCHANGED <<retired, birth>>
  BY <1>2 DEF Stamped
<1>3. QED
  BY <1>1, <1>2
  DEF Next, client, retire, endOp, read_call, empty_scan, empty_return, records, reclaimer

-------------------------------------------------------------------------------
Safe == Protected /\ ScanCovered

(* What a list holds. *)
LEMMA RetiredTypes ==
  ASSUME TypeOK, NEW u \in Tid, NEW res \in retired[u]
  PROVE  res.obj \in Node /\ res.birth \in Nat /\ res.retire \in Nat
BY EpochsAreNat DEF TypeOK, Info

(* The era argument goes on when nothing is newly used and nothing retired, *)
(* no slot with a record in use changes, and no such record is freed.      *)
LEMMA QuietStep ==
  ASSUME TypeOK, Safe,
         \A s \in Slot, n \in Node : Uses(s, n)' =>
             /\ Uses(s, n)
             /\ reservations'[s] = reservations[s] /\ birth'[n] = birth[n]
             /\ n \notin pool' /\ \A u \in Tid : newNode'[u] # n,
         \A u \in Tid : pc'[u] = "push" =>
             pc[u] = "push" /\ obj'[u] = obj[u] /\ e'[u] = e[u],
         \A u \in Tid, s \in Slot : Passed(u, s)' => Passed(u, s) /\ scanned'[u] = scanned[u],
         \A u \in Tid : retired'[u] \subseteq retired[u]
  PROVE  Safe'
<1>1. Protected'
  BY DEF Safe, Protected
<1>2. ScanCovered'
  <2>1. SUFFICES ASSUME NEW u \in Tid, NEW res \in retired'[u], NEW s \in Slot,
                        Uses(s, res.obj)', Passed(u, s)'
                 PROVE  reservations'[s] \in scanned'[u]
    BY DEF ScanCovered
  <2>2. res \in retired[u] /\ res.obj \in Node
    BY <2>1, RetiredTypes
  <2>3. Uses(s, res.obj) /\ reservations'[s] = reservations[s]
    BY <2>1, <2>2
  <2>4. Passed(u, s) /\ scanned'[u] = scanned[u]
    BY <2>1
  <2>5. QED BY <2>2, <2>3, <2>4 DEF Safe, ScanCovered
<1>3. QED BY <1>1, <1>2 DEF Safe

(* A step that leaves slots, readers and the epoch alone changes no use. *)
LEMMA SameUses ==
  ASSUME TypeOK, UNCHANGED <<epoch, reservations, idx, ret, ref>>,
         \A u \in Tid : pc'[u] = "check" => pc[u] = "check"
  PROVE  \A s \in Slot, n \in Node : Uses(s, n)' => Uses(s, n)
BY DEF Uses, Returning

(* What no copied epoch meets, no slot protects. *)
LEMMA NoConflictNoUse ==
  ASSUME TypeOK, Stamped, Safe, NEW t \in Tid, pc[t] = "sweep",
         NEW res \in retired[t], ~conflict(t, res)
  PROVE  \A s \in Slot : ~Uses(s, res.obj)
<1>1. SUFFICES ASSUME NEW s \in Slot, Uses(s, res.obj) PROVE FALSE
  OBVIOUS
<1>2. reservations[s] \in scanned[t]
  BY <1>1 DEF Safe, ScanCovered, Passed
<1>3. res.obj \in Node /\ res.birth = birth[res.obj] /\ res.retire \in Nat
  BY RetiredTypes DEF Stamped
<1>4. /\ 0 < reservations[s] /\ birth[res.obj] <= reservations[s]
      /\ reservations[s] <= res.retire
  BY <1>1, <1>3 DEF Safe, Protected
<1>5. reservations[s] \in Nat /\ birth[res.obj] \in Nat
  BY <1>3, EpochsAreNat DEF TypeOK
<1>6. QED BY <1>2, <1>3, <1>4, <1>5 DEF conflict, NONE_RESERVED

(* ... and the era argument. *)
LEMMA NextSafe ==
  ASSUME TypeOK, Control, OnePlace, Stamped, Safe, Next
  PROVE  Safe'
<1> USE DEF goto, records, reclaimer, reading, retiring, emptying
<1>1. ASSUME NEW t \in Tid, read_load(t) PROVE Safe'
  <2> DEFINE m == cell[src[t]]
  <2>1. /\ pc[t] = "load" /\ pc' = [pc EXCEPT ![t] = "check"] /\ ret' = [ret EXCEPT ![t] = m]
        /\ UNCHANGED <<cell, pool, epoch, birth, reservations, retired, newNode, idx, obj, e,
                       toScan, scanned, ref>>
    BY <1>1 DEF read_load
  <2>2. \A s \in Slot, n \in Node : Uses(s, n)' =>
           Uses(s, n) \/ (n = m /\ reservations[s] = epoch)
    BY <2>1 DEF Uses, Returning, TypeOK
  <2>3. m \in Node =>
           /\ m \notin pool
           /\ \A u \in Tid : newNode[u] # m /\ obj[u] # m /\ \A res \in retired[u] : res.obj # m
    BY <2>1, LinkedRecordsAssumption
    DEF OnePlace, LinksDisjoint, CreatedDisjoint, RetiringDisjoint, RetiredDisjoint, Control
  <2>4. 0 < epoch /\ \A n \in Node : birth[n] <= epoch
    BY EpochsAreNat DEF TypeOK, Control
  <2>5. \A u \in Tid : pc'[u] = "push" => pc[u] = "push"
    BY <2>1 DEF TypeOK
  <2>6. Protected'
    BY <2>1, <2>2, <2>3, <2>4, <2>5 DEF Safe, Protected
  <2>7. ScanCovered'
    <3>1. \A u \in Tid, s \in Slot : Passed(u, s)' => Passed(u, s)
      BY <2>1 DEF Passed, TypeOK
    <3>2. \A u \in Tid : \A res \in retired[u] : \A s \in Slot :
             Uses(s, res.obj)' => Uses(s, res.obj)
      BY <2>2, <2>3, RetiredTypes
    <3>3. QED BY <2>1, <3>1, <3>2 DEF Safe, ScanCovered
  <2>8. QED BY <2>6, <2>7 DEF Safe
<1>2. ASSUME NEW t \in Tid, read_check(t) PROVE Safe'
  <2>1. \A s \in Slot, n \in Node : Uses(s, n)' => Uses(s, n)
    BY <1>2 DEF read_check, Uses, Returning, TypeOK
  <2>2. UNCHANGED <<pool, birth, reservations, newNode, retired, obj, toScan, scanned>>
    BY <1>2 DEF read_check
  <2>3. \A u \in Tid : pc'[u] \in {"push", "scan", "sweep"} => pc'[u] = pc[u] /\ e'[u] = e[u]
    BY <1>2 DEF read_check, TypeOK
  <2>4. QED BY <2>1, <2>2, <2>3, QuietStep DEF Passed, Safe, Protected
<1>3. ASSUME NEW t \in Tid, read_announce(t) PROVE Safe'
  <2>1. \A s \in Slot, n \in Node : Uses(s, n)' => Uses(s, n) /\ reservations'[s] = reservations[s]
    <3>1. ref[idx[t]] = {} /\ \A u \in Tid : idx[u] = idx[t] => u = t
      BY <1>3, SlotOwner DEF read_announce, Control, TypeOK
    <3>2. QED BY <1>3, <3>1 DEF read_announce, Uses, Returning, TypeOK
  <2>2. UNCHANGED <<pool, birth, newNode, retired, obj, toScan, scanned>>
    BY <1>3 DEF read_announce
  <2>3. \A u \in Tid : pc'[u] \in {"push", "scan", "sweep"} => pc'[u] = pc[u] /\ e'[u] = e[u]
    BY <1>3 DEF read_announce, TypeOK
  <2>4. QED BY <2>1, <2>2, <2>3, QuietStep DEF Passed, Safe, Protected
<1>4. ASSUME NEW t \in Tid, new_node(t) PROVE Safe'
  <2>1. PICK n \in pool : /\ newNode' = [newNode EXCEPT ![t] = n] /\ pool' = pool \ {n}
                          /\ birth' = [birth EXCEPT ![n] = epoch]
    BY <1>4 DEF new_node
  <2>2. UNCHANGED <<epoch, reservations, idx, ret, ref, retired, obj, e, toScan, scanned>>
    BY <1>4 DEF new_node
  <2>3. \A u \in Tid : pc'[u] \in {"check", "push", "scan", "sweep"} => pc'[u] = pc[u]
    BY <1>4 DEF new_node, TypeOK
  <2>4. \A s \in Slot, k \in Node : Uses(s, k)' => Uses(s, k)
    BY <2>2, <2>3, SameUses
  <2>5. \A k \in Node : k \notin pool => birth'[k] = birth[k] /\ k \notin pool'
    BY <2>1 DEF TypeOK
  <2>6. \A u \in Tid : newNode'[u] = newNode[u] \/ newNode'[u] = n
    BY <2>1 DEF TypeOK
  <2>7. QED BY <2>2, <2>3, <2>4, <2>5, <2>6, QuietStep DEF Passed, Safe, Protected
<1>5. ASSUME NEW t \in Tid, updateAllocCounterAndEpoch(t) PROVE Safe'
  <2>1. epoch \in Nat /\ epoch' \in Nat /\ epoch <= epoch'
    BY <1>5, EpochsAreNat DEF updateAllocCounterAndEpoch, TypeOK
  <2>2. UNCHANGED <<pool, birth, reservations, newNode, idx, ret, ref, retired, obj, e, toScan,
                    scanned>>
    BY <1>5 DEF updateAllocCounterAndEpoch
  <2>3. \A u \in Tid : pc'[u] \in {"check", "push", "scan", "sweep"} => pc'[u] = pc[u]
    BY <1>5 DEF updateAllocCounterAndEpoch, TypeOK
  <2>4. \A s \in Slot : reservations[s] \in Nat /\ reservations[s] <= epoch
    BY EpochsAreNat DEF TypeOK, Control
  <2>5. \A s \in Slot, n \in Node : Uses(s, n)' => Uses(s, n)
    BY <2>1, <2>2, <2>3, <2>4 DEF Uses, Returning
  <2>6. QED BY <2>2, <2>3, <2>5, QuietStep DEF Passed, Safe, Protected
<1>6. ASSUME NEW t \in Tid, NEW c \in Cell, insert(t, c) PROVE Safe'
  <2>1. UNCHANGED <<epoch, birth, reservations, idx, ret, ref, retired, obj, e, toScan, scanned>>
    BY <1>6 DEF insert, poolAdd
  <2>2. \A u \in Tid : pc'[u] \in {"check", "push", "scan", "sweep"} => pc'[u] = pc[u]
    BY <1>6 DEF insert, TypeOK
  <2>3. \A s \in Slot, n \in Node : Uses(s, n)' => Uses(s, n)
    BY <2>1, <2>2, SameUses
  <2>4. pool' \subseteq pool \union {newNode[t]}
    BY <1>6 DEF insert, poolAdd
  <2>5. \A u \in Tid : newNode'[u] = newNode[u] \/ newNode'[u] = NULL
    BY <1>6 DEF insert, TypeOK
  <2>6. QED
    BY <2>1, <2>2, <2>3, <2>4, <2>5, QuietStep, LinkedRecordsAssumption DEF Passed, Safe, Protected
<1>7. ASSUME NEW t \in Tid, NEW c \in Cell, erase(t, c) PROVE Safe'
  <2>1. UNCHANGED <<pool, epoch, birth, reservations, newNode, idx, ret, ref, retired, e, toScan,
                    scanned>>
    BY <1>7 DEF erase, unlink
  <2>2. \A u \in Tid : pc'[u] \in {"check", "push", "scan", "sweep"} =>
           pc'[u] = pc[u] /\ obj'[u] = obj[u]
    BY <1>7 DEF erase, TypeOK
  <2>3. \A s \in Slot, n \in Node : Uses(s, n)' => Uses(s, n)
    BY <2>1, <2>2, SameUses
  <2>4. QED BY <2>1, <2>2, <2>3, QuietStep DEF Passed, Safe, Protected
<1>8. ASSUME NEW t \in Tid, retire_load(t) PROVE Safe'
  <2>1. UNCHANGED <<pool, epoch, birth, reservations, newNode, idx, ret, ref, retired, obj, toScan,
                    scanned>>
    BY <1>8 DEF retire_load
  <2>2. \A u \in Tid : u # t => pc'[u] = pc[u] /\ e'[u] = e[u]
    BY <1>8 DEF retire_load, TypeOK
  <2>3. pc'[t] = "push" /\ e'[t] = epoch
    BY <1>8 DEF retire_load, TypeOK
  <2>4. \A s \in Slot, n \in Node : Uses(s, n)' => Uses(s, n)
    BY <2>1, <2>2, <2>3, SameUses
  <2>5. \A s \in Slot : reservations[s] <= epoch
    BY DEF Control
  <2>6. Protected'
    BY <2>1, <2>2, <2>3, <2>4, <2>5 DEF Safe, Protected
  <2>7. ScanCovered'
    BY <2>1, <2>2, <2>3, <2>4, RetiredTypes DEF Safe, ScanCovered, Passed
  <2>8. QED BY <2>6, <2>7 DEF Safe
<1>9. ASSUME NEW t \in Tid, endOp(t) PROVE Safe'
  <2>1. \A s \in Slot, n \in Node : Uses(s, n)' => Uses(s, n) /\ reservations'[s] = reservations[s]
    <3>1. \A u \in Tid : pc[u] = "check" => u # t /\ idx[u] \in slotsOf(u) /\ idx[u] \notin slotsOf(t)
      BY <1>9, SlotOwner DEF endOp, TypeOK
    <3>2. QED BY <1>9, <3>1 DEF endOp, Uses, Returning, TypeOK
  <2>2. UNCHANGED <<pool, birth, newNode, retired, obj, e, toScan, scanned, pc>>
    BY <1>9 DEF endOp, TypeOK
  <2>3. QED BY <2>1, <2>2, QuietStep DEF Passed, Safe, Protected
<1>10. ASSUME NEW t \in Tid, NEW s \in slotsOf(t), NEW c \in Cell, read_call(t, s, c, {})
       PROVE  Safe'
  <2>1. \A r \in Slot, n \in Node : Uses(r, n)' => Uses(r, n)
    BY <1>10, SlotOwner DEF read_call, Uses, Returning, TypeOK
  <2>2. UNCHANGED <<pool, birth, reservations, newNode, retired, obj, e, toScan, scanned>>
    BY <1>10 DEF read_call
  <2>3. \A u \in Tid : pc'[u] \in {"push", "scan", "sweep"} => pc'[u] = pc[u]
    BY <1>10 DEF read_call, TypeOK
  <2>4. QED BY <2>1, <2>2, <2>3, QuietStep DEF Passed, Safe, Protected
<1>11. ASSUME NEW t \in Tid, retire_push(t, Slot) PROVE Safe'
  <2> DEFINE new == [obj |-> obj[t], birth |-> birth[obj[t]], retire |-> e[t]]
  <2>1. \A u \in Tid : retired'[u] = IF u = t THEN retired[u] \union {new} ELSE retired[u]
    BY <1>11 DEF retire_push, TypeOK
  <2>2. new.obj = obj[t] /\ new.retire = e[t] /\ obj[t] \in Node
    BY <1>11 DEF retire_push, Control, TypeOK, Pointer
  <2> HIDE DEF new
  <2>3. /\ UNCHANGED <<pool, epoch, birth, reservations, newNode, idx, ret, ref, scanned>>
        /\ \A u \in Tid : u # t => pc'[u] = pc[u] /\ e'[u] = e[u] /\ obj'[u] = obj[u]
                                  /\ toScan'[u] = toScan[u]
        /\ pc[t] = "push"
        /\ pc'[t] = "op" \/ (pc'[t] = "scan" /\ toScan'[t] = Slot)
    BY <1>11 DEF retire_push, TypeOK
  <2>4. \A s \in Slot, n \in Node : Uses(s, n)' => Uses(s, n)
    BY <2>3, SameUses
  <2>5. \A s \in Slot : ~Passed(t, s)'
    BY <2>3 DEF Passed
  <2>6. Protected'
    <3>1. SUFFICES ASSUME NEW s \in Slot, NEW n \in Node, Uses(s, n)'
                   PROVE  /\ n \notin pool
                          /\ 0 < reservations[s] /\ birth[n] <= reservations[s]
                          /\ \A u \in Tid :
                                /\ newNode[u] # n
                                /\ pc'[u] = "push" /\ obj'[u] = n => reservations[s] <= e'[u]
                                /\ \A res \in retired'[u] :
                                      res.obj = n => reservations[s] <= res.retire
      BY <2>3 DEF Protected
    <3>2. Uses(s, n)
      BY <2>4, <3>1
    <3>3. \A u \in Tid : \A res \in retired'[u] : res \in retired[u] \/ (u = t /\ res = new)
      BY <2>1
    <3>4. new.obj = n => reservations[s] <= new.retire
      <4>1. obj[t] = n => reservations[s] <= e[t]
        BY <2>3, <3>2 DEF Safe, Protected
      <4>2. QED BY <2>2, <4>1
    <3>5. QED BY <2>3, <3>2, <3>3, <3>4 DEF Safe, Protected
  <2>7. ScanCovered'
    BY <2>1, <2>2, <2>3, <2>4, <2>5, RetiredTypes DEF Safe, ScanCovered, Passed
  <2>8. QED BY <2>6, <2>7 DEF Safe
<1>12. ASSUME NEW t \in Tid, empty_scan(t) PROVE Safe'
  <2>1. PICK r \in toScan[t] :
           /\ scanned' = [scanned EXCEPT ![t] = @ \union {reservations[r]}]
           /\ toScan' = [toScan EXCEPT ![t] = @ \ {r}]
           /\ pc' = [pc EXCEPT ![t] = IF toScan[t] = {r} THEN "sweep" ELSE "scan"]
           /\ pc[t] = "scan"
    BY <1>12 DEF empty_scan
  <2>2. UNCHANGED <<pool, epoch, birth, reservations, newNode, idx, ret, ref, retired, obj, e>>
    BY <1>12 DEF empty_scan
  <2>3. \A u \in Tid : pc'[u] \in {"check", "push"} => pc'[u] = pc[u]
    BY <2>1 DEF TypeOK
  <2>4. \A s \in Slot, n \in Node : Uses(s, n)' => Uses(s, n)
    BY <2>2, <2>3, SameUses
  <2>5. Protected'
    BY <2>2, <2>3, <2>4 DEF Safe, Protected
  <2>6. \A u \in Tid, s \in Slot : Passed(u, s)' =>
           (Passed(u, s) /\ scanned[u] \subseteq scanned'[u]) \/ reservations[s] \in scanned'[u]
    BY <2>1 DEF Passed, TypeOK
  <2>7. ScanCovered'
    BY <2>2, <2>4, <2>6, RetiredTypes DEF Safe, ScanCovered
  <2>8. QED BY <2>5, <2>7 DEF Safe
<1>13. ASSUME NEW t \in Tid, NEW res \in retired[t], ~conflict(t, res), empty_free(t, res)
       PROVE  Safe'
  <2>1. /\ pool' = pool \union {res.obj} /\ retired' = [retired EXCEPT ![t] = @ \ {res}]
        /\ pc[t] = "sweep"
        /\ UNCHANGED <<epoch, birth, reservations, newNode, idx, ret, ref, obj, e, toScan, scanned>>
    BY <1>13 DEF empty_free, poolAdd
  <2>2. UNCHANGED pc
    BY <1>13 DEF empty_free, TypeOK
  <2>3. \A s \in Slot, n \in Node : Uses(s, n)' => Uses(s, n)
    BY <2>1, <2>2, SameUses
  <2>4. \A s \in Slot : ~Uses(s, res.obj)
    BY <1>13, <2>1, NoConflictNoUse
  <2>5. \A u \in Tid : retired'[u] \subseteq retired[u]
    BY <2>1 DEF TypeOK
  <2>6. QED BY <2>1, <2>2, <2>3, <2>4, <2>5, QuietStep DEF Passed, Safe, Protected
<1>14. ASSUME NEW t \in Tid, empty_return(t) PROVE Safe'
  <2>1. UNCHANGED <<pool, epoch, birth, reservations, newNode, idx, ret, ref, retired, obj, e,
                    toScan>>
    BY <1>14 DEF empty_return
  <2>2. \A u \in Tid : pc'[u] # "op" => pc'[u] = pc[u] /\ scanned'[u] = scanned[u]
    BY <1>14 DEF empty_return, TypeOK
  <2>3. \A s \in Slot, n \in Node : Uses(s, n)' => Uses(s, n)
    BY <2>1, <2>2, SameUses
  <2>4. QED BY <2>1, <2>2, <2>3, QuietStep DEF Passed, Safe, Protected
<1>15. QED
  BY <1>1, <1>2, <1>3, <1>4, <1>5, <1>6, <1>7, <1>8, <1>9, <1>10, <1>11, <1>12, <1>13, <1>14
  DEF Next, shared, client, retire

(* IInv holds in every reachable state. *)
THEOREM Invariance == Spec => []IInv
<1>1. ASSUME IInv, [Next]_eraVars PROVE IInv'
  <2>1. CASE Next
    BY <1>1, <2>1, NextTypeOK, NextControl, NextOnePlace, NextStamped, NextSafe DEF IInv, Safe
  <2>2. CASE UNCHANGED eraVars
    BY <1>1, <2>2
    DEF IInv, eraVars, TypeOK, RecordsTypeOK, Control, OnePlace, LinksDisjoint, CreatedDisjoint,
        RetiringDisjoint, RetiredDisjoint, Stamped, Protected, ScanCovered, Uses, Returning, Passed
  <2>3. QED BY <1>1, <2>1, <2>2
<1>2. QED BY InitIInv, <1>1, PTL DEF Spec

(* The variables keep their types. *)
THEOREM TypeCorrect == Spec => []TypeOK
BY Invariance, PTL DEF IInv

(* No record gets into two lists, or twice into one. *)
THEOREM SinglePlace == Spec => []OnePlace
BY Invariance, PTL DEF IInv

(* pool->add frees no record that a caller of read still protects.         *)
THEOREM Safety == Spec => []NoUseAfterFree
<1>1. TypeOK /\ Protected => NoUseAfterFree
  <2>1. SUFFICES ASSUME TypeOK, Protected, NEW t \in Tid, NEW n \in held[t] PROVE n \notin pool
    BY DEF NoUseAfterFree
  <2>2. CASE n \in current(t)
    <3>1. Returning(t, idx[t]) /\ n = ret[t] /\ idx[t] \in Slot /\ n \in Node
      BY <2>1, <2>2 DEF current, Returning, TypeOK, Pointer
    <3>2. QED BY <2>1, <3>1 DEF Protected, Uses
  <2>3. CASE n \in UNION {ref[s] : s \in slotsOf(t)}
    <3>1. PICK s \in slotsOf(t) : n \in ref[s]
      BY <2>3
    <3>2. s \in Slot /\ n \in Node
      BY <2>1, <3>1, SlotOwner DEF TypeOK
    <3>3. QED BY <2>1, <3>1, <3>2 DEF Protected, Uses
  <2>4. QED BY <2>1, <2>2, <2>3 DEF held
<1>2. QED BY <1>1, Invariance, PTL DEF IInv

(* The era argument: a slot names an epoch of the life of each record used *)
(* under it.                                                               *)
THEOREM ErasCovered == Spec => []Covered
<1>1. TypeOK /\ Protected => Covered
  BY DEF Covered, Protected, Uses, TypeOK
<1>2. QED BY <1>1, Invariance, PTL DEF IInv

-------------------------------------------------------------------------------
(* HazardEras implements SafeReclamation.  A thread holds a record from    *)
(* the load of the link on, if the slot names the current epoch then.      *)
(* Whoever holds a record uses it under a slot. *)
LEMMA HeldIsUsed ==
  ASSUME TypeOK, NEW t \in Tid, NEW n \in held[t]
  PROVE  n \in Node /\ \E s \in Slot : Uses(s, n)
<1>1. CASE n \in current(t)
  BY <1>1 DEF current, Uses, Returning, TypeOK, Pointer
<1>2. CASE n \in UNION {ref[s] : s \in slotsOf(t)}
  <2>1. PICK s \in slotsOf(t) : n \in ref[s]
    BY <1>2
  <2>2. QED BY <2>1, SlotOwner DEF Uses, TypeOK
<1>3. QED BY <1>1, <1>2 DEF held

(* Each step of the code is a step of the contract or stutters there. *)
LEMMA RefinementStep ==
  ASSUME IInv, [Next]_eraVars
  PROVE  [Contract!Next]_(Contract!vars)
<1> USE DEF IInv, goto, records, reclaimer, reading, retiring, emptying
<1>0. EraTypes /\ EraTypes' /\ EraControl
  <2>1. TypeOK'
    BY NextTypeOK DEF eraVars, TypeOK, RecordsTypeOK
  <2>2. EraTypes'
    BY <2>1 DEF TypeOK, EraTypes
  <2>3. QED BY <2>2, SchemeTypes
<1>1. ASSUME NEW t \in Tid, shared(t) PROVE Contract!Next \/ UNCHANGED Contract!vars
  BY <1>0, <1>1, SharedStep
<1>2. ASSUME NEW t \in Tid, empty_scan(t) \/ empty_return(t)
      PROVE  UNCHANGED Contract!vars
  <2>1. UNCHANGED status
    BY <1>2, SameStatus DEF empty_scan, empty_return
  <2>2. \A u \in Tid : pc'[u] = "check" <=> pc[u] = "check"
    BY <1>2 DEF empty_scan, empty_return, TypeOK
  <2>3. UNCHANGED held
    BY <1>2, <2>2, SameReads, SameHeld DEF empty_scan, empty_return
  <2>4. QED BY <2>1, <2>3 DEF Contract!vars
<1>3. ASSUME NEW t \in Tid, endOp(t) PROVE Contract!Next
  <2>1. UNCHANGED status
    BY <1>3, SameStatus DEF endOp
  <2>2. \A u \in Tid : current(u)' \subseteq current(u)
    <3>1. \A u \in Tid : pc[u] = "check" => idx[u] \in Slot /\ idx[u] \notin slotsOf(t)
      BY <1>3, SlotOwner DEF endOp, TypeOK
    <3>2. QED BY <1>3, <3>1 DEF endOp, current, TypeOK
  <2>3. \A u \in Tid : \A s \in slotsOf(u) : ref'[s] \subseteq ref[s]
    BY <1>3, SlotOwner DEF endOp
  <2>4. \A u \in Tid : held'[u] \subseteq held[u]
    BY <2>2, <2>3 DEF held
  <2>5. QED BY <1>0, <2>1, <2>4, DropStep
<1>4. ASSUME NEW t \in Tid, NEW s \in slotsOf(t), NEW c \in Cell, read_call(t, s, c, {})
       PROVE  Contract!Next
  <2>1. UNCHANGED status
    BY <1>4, SameStatus DEF read_call
  <2>2. \A u \in Tid : current(u)' = current(u)
    BY <1>4 DEF read_call, current, TypeOK
  <2>3. \A u \in Tid : \A r \in slotsOf(u) : ref'[r] \subseteq ref[r]
    BY <1>4, SlotOwner DEF read_call, TypeOK
  <2>4. \A u \in Tid : held'[u] \subseteq held[u]
    BY <2>2, <2>3 DEF held
  <2>5. QED BY <1>0, <2>1, <2>4, DropStep
<1>5. ASSUME NEW t \in Tid, retire_push(t, Slot) PROVE Contract!Next
  BY <1>0, <1>5, PushStep
<1>6. ASSUME NEW t \in Tid, NEW res \in retired[t], ~conflict(t, res), empty_free(t, res)
       PROVE  Contract!Next
  <2>1. \A u \in Tid : res.obj \notin held[u]
    BY <1>6, NoConflictNoUse, HeldIsUsed DEF empty_free, Safe
  <2>2. QED BY <1>0, <1>6, <2>1, FreeStep
<1>7. CASE UNCHANGED eraVars
  <2>1. UNCHANGED status
    BY <1>7, SameStatus DEF eraVars
  <2>2. UNCHANGED held
    BY <1>7, SameReads, SameHeld DEF eraVars
  <2>3. QED BY <2>1, <2>2 DEF Contract!vars
<1>8. QED
  BY <1>1, <1>2, <1>3, <1>4, <1>5, <1>6, <1>7 DEF Next, client, retire

(* Hazard eras keep the promise: a record is freed when nobody holds it. *)
THEOREM Refinement == Spec => Reclamation
<1>1. Init => Contract!Init
  BY LinkedRecordsAssumption, SlotOwner
  DEF Init, EraInit, RecordsInit, Contract!Init, status, held, current
<1>2. QED BY <1>1, RefinementStep, Invariance, PTL DEF Spec, Reclamation, Contract!Spec

-------------------------------------------------------------------------------
(***************************************************************************)
(* Intervals.  NoUseAfterFree is not inductive: empty reads the lower end  *)
(* of an interval and, after other threads may have moved both, the upper  *)
(* end.  What it has read still meets the life of a retired record that    *)
(* the operation uses (IBRScanCovered), because the operation keeps its    *)
(* lower end and only raises its upper end.                                *)
(***************************************************************************)
(* Where no interval is announced, or only part of it. *)
Outside == {"idle", "startLower", "startUpper", "ending"}

(* The locals are alive exactly where the code uses them. *)
Locals ==
    \A t \in Tid :
        /\ pc[t] \in {"load", "check", "announce"} => src[t] \in Cell
        /\ pc[t] \in {"created", "link"} <=> newNode[t] # NULL
        /\ pc[t] \in {"retire", "push"} <=> obj[t] # NULL
        /\ idx[t] = <<t, 1>>

(* Records are in use only under the first slot of a thread, and there     *)
(* only while an interval is announced.                                    *)
OneSlot ==
    \A t \in Tid : \A s \in slotsOf(t) :
        ref[s] # {} => s = <<t, 1>> /\ pc[t] \notin Outside

(* A running operation has announced an interval, and no epoch anywhere is *)
(* ahead of the global one.                                                *)
Announced ==
    /\ \A t \in Tid :
          /\ e[t] <= epoch
          /\ pc[t] = "announce" => reservations[<<t, 1>>] <= e[t]
          /\ pc[t] = "startUpper" => lower[t] = e[t]
          /\ pc[t] \notin Outside =>
                lower[t] <= reservations[<<t, 1>>] /\ reservations[<<t, 1>>] <= epoch
    /\ \A s \in Slot : reservations[s] <= epoch \/ reservations[s] = UINT64_MAX
    /\ \A n \in Node : birth[n] <= epoch

IBRControl == Locals /\ OneSlot /\ Announced

(* An operation uses a record: read has returned it, or will if the epoch  *)
(* stays what it is.                                                       *)
IBRReturning(t) == pc[t] = "check" /\ upper(t) = epoch
IBRUses(t, n) == n \in ref[<<t, 1>>] \/ (IBRReturning(t) /\ ret[t] = n)

(* Then the operation's interval meets the record's life, which has not    *)
(* ended.                                                                  *)
IBRProtected ==
    \A t \in Tid, n \in Node : IBRUses(t, n) =>
        /\ n \notin pool
        /\ birth[n] <= upper(t)
        /\ \A u \in Tid :
              /\ newNode[u] # n
              /\ pc[u] = "push" /\ obj[u] = n => lower[t] <= e[u]
              /\ \A res \in retired[u] : res.obj = n => lower[t] <= res.retire

(* A copy of the intervals has one that meets the record's life, if it is  *)
(* past the thread; and a good lower end, if it has read that end only.    *)
Meets(interval, res) == interval.upper >= res.birth /\ interval.lower <= res.retire
IBRPassed(u, t) == pc[u] = "sweep" \/ (pc[u] \in {"scan", "scanUpper"} /\ t \notin toScan[u])
Reading(u, t) == pc[u] = "scanUpper" /\ t \in toScan[u] /\ \A v \in toScan[u] : t <= v

IBRScanCovered ==
    \A u \in Tid : \A res \in retired[u] : \A t \in Tid : IBRUses(t, res.obj) =>
        /\ IBRPassed(u, t) => \E interval \in scanned[u] : Meets(interval, res)
        /\ Reading(u, t) => low[u] <= res.retire

IBRIInv ==
    /\ IBRTypeOK
    /\ IBRControl
    /\ OnePlace
    /\ Stamped
    /\ IBRProtected
    /\ IBRScanCovered

-------------------------------------------------------------------------------
(* What can be announced is a number. *)
LEMMA ReservationsAreNat ==
  /\ \A x \in Reservation : x \in Nat
  /\ Epoch \subseteq Reservation
  /\ UINT64_MAX \in Reservation /\ MaxEpoch < UINT64_MAX
BY EraReclaimerAssumption DEF Reservation, UINT64_MAX, Epoch

(* The types and locals are as the shared steps need them. *)
LEMMA IBRSchemeTypes ==
  /\ IBRTypeOK => EraTypes
  /\ IBRTypeOK /\ IBRControl => EraControl
<1>1. IBRTypeOK => EraTypes
  BY DEF IBRTypeOK, EraTypes
<1>2. ASSUME IBRTypeOK, IBRControl PROVE EraControl
  <2>1. \A s \in Slot : reservations[s] \in Nat
    BY <1>2, ReservationsAreNat DEF IBRTypeOK
  <2>2. QED BY <1>2, <2>1, ReservationsAreNat DEF IBRControl, Locals, Announced, EraControl
<1>3. QED BY <1>1, <1>2

(* A thread's slot is its own. *)
LEMMA OwnSlot ==
  /\ \A t \in Tid : <<t, 1>> \in Slot
  /\ \A t, u \in Tid : <<t, 1>> = <<u, 1>> => t = u
BY SlotOwner

(* The invariant holds at first: nothing is used and nothing is retired. *)
THEOREM IBRInitIInv == IBRInit => IBRIInv
<1> SUFFICES ASSUME IBRInit PROVE IBRIInv
  OBVIOUS
<1> USE EraReclaimerAssumption, LinkedRecordsAssumption DEF IBRInit, EraInit, RecordsInit
<1>1. IBRTypeOK
  <2>1. 0 \in 0 .. EmptyFreq - 1 /\ 0 \in 0 .. AllocPeriod - 1 /\ 0 \in Epoch
    BY PeriodPositive DEF Epoch
  <2>2. QED BY <2>1, SlotOwner, ReservationsAreNat DEF IBRTypeOK, RecordsTypeOK, Pointer
<1>2. IBRControl /\ Stamped
  BY SlotOwner DEF IBRControl, Locals, OneSlot, Announced, Stamped, Outside
<1>3. OnePlace
  BY DEF OnePlace, LinksDisjoint, CreatedDisjoint, RetiringDisjoint, RetiredDisjoint
<1>4. IBRProtected /\ IBRScanCovered
  BY SlotOwner DEF IBRProtected, IBRScanCovered, IBRUses, IBRReturning
<1>5. QED BY <1>1, <1>2, <1>3, <1>4 DEF IBRIInv

-------------------------------------------------------------------------------
(* Each action keeps the types. *)
LEMMA IBRNextTypeOK ==
  ASSUME IBRTypeOK, IBRControl, IBRNext
  PROVE  IBRTypeOK'
<1> USE DEF goto, records, reclaimer, reading, retiring, emptying, IBRTypeOK, RecordsTypeOK, Pointer
<1>1. ASSUME NEW t \in Tid, read_load(t), UNCHANGED <<lower, low>> PROVE IBRTypeOK'
  BY <1>1 DEF read_load, IBRControl, Locals
<1>2. ASSUME NEW t \in Tid, read_check(t), UNCHANGED <<lower, low>> PROVE IBRTypeOK'
  BY <1>2, LinkedRecordsAssumption, SMTT(30) DEF read_check
<1>3. ASSUME NEW t \in Tid, read_announce(t), UNCHANGED <<lower, low>> PROVE IBRTypeOK'
  BY <1>3, EpochsAreNat, ReservationsAreNat DEF read_announce
<1>4. ASSUME NEW t \in Tid, new_node(t), UNCHANGED <<lower, low>> PROVE IBRTypeOK'
  BY <1>4 DEF new_node
<1>5. ASSUME NEW t \in Tid, updateAllocCounterAndEpoch(t), UNCHANGED <<lower, low>> PROVE IBRTypeOK'
  <2>1. (alloc_counters[t] + 1) % AllocPeriod \in 0 .. AllocPeriod - 1
    <3>1. alloc_counters[t] + 1 \in Nat
      BY PeriodPositive
    <3>2. QED BY <3>1, PeriodPositive, ModRange
  <2>2. epoch' \in Epoch
    BY <1>5, EraReclaimerAssumption DEF updateAllocCounterAndEpoch, Epoch
  <2>3. QED BY <1>5, <2>1, <2>2 DEF updateAllocCounterAndEpoch
<1>6. ASSUME NEW t \in Tid, NEW c \in Cell, insert(t, c), UNCHANGED <<lower, low>> PROVE IBRTypeOK'
  <2>1. newNode[t] \in Node /\ newNode' \in [Tid -> Pointer]
    BY <1>6 DEF insert, IBRControl, Locals, Locals
  <2>2. cell' \in [Cell -> Node \union {NULL}] /\ pool' \subseteq Node
    BY <1>6, <2>1 DEF insert, poolAdd
  <2>3. pc' = [pc EXCEPT ![t] = "op"] \/ pc' = [pc EXCEPT ![t] = "created"]
    BY <1>6 DEF insert
  <2>4. UNCHANGED <<reclaimer, reading, retiring, emptying, ref>>
    BY <1>6 DEF insert
  <2>5. QED BY <1>6, <2>1, <2>2, <2>3, <2>4
<1>7. ASSUME NEW t \in Tid, NEW c \in Cell, erase(t, c), UNCHANGED <<lower, low>> PROVE IBRTypeOK'
  BY <1>7 DEF erase, unlink
<1>8. ASSUME NEW t \in Tid, retire_load(t), UNCHANGED <<lower, low>> PROVE IBRTypeOK'
  BY <1>8 DEF retire_load
<1>9. ASSUME NEW t \in Tid, ibr_client(t), UNCHANGED <<lower, low>> PROVE IBRTypeOK'
  BY <1>9, SlotOwner DEF ibr_client, read_call
<1>10. ASSUME NEW t \in Tid, retire_push(t, Tid), UNCHANGED <<lower, low>> PROVE IBRTypeOK'
  <2>1. (retire_counters[t] + 1) % EmptyFreq \in 0 .. EmptyFreq - 1
    BY EraReclaimerAssumption, ModRange
  <2>2. [obj |-> obj[t], birth |-> birth[obj[t]], retire |-> e[t]] \in Info
    BY <1>10 DEF retire_push, IBRControl, Locals, Info
  <2>3. retired' \in [Tid -> SUBSET Info]
    BY <1>10, <2>2 DEF retire_push
  <2>4. e' \in [Tid -> Epoch]
    BY <1>10, EpochsAreNat DEF retire_push
  <2>5. QED BY <1>10, <2>1, <2>3, <2>4, SMTT(30) DEF retire_push
<1>11. ASSUME NEW t \in Tid, NEW res \in retired[t], empty_free(t, res), UNCHANGED <<lower, low>>
       PROVE  IBRTypeOK'
  BY <1>11 DEF empty_free, poolAdd, Info
<1>12. ASSUME NEW t \in Tid, empty_return(t), UNCHANGED <<lower, low>> PROVE IBRTypeOK'
  BY <1>12 DEF empty_return
<1>13. ASSUME NEW t \in Tid, startOp_load(t) \/ startOp_lower(t) \/ startOp_upper(t) PROVE IBRTypeOK'
  <2>1. CASE startOp_load(t)
    BY <2>1 DEF startOp_load
  <2>2. CASE startOp_lower(t)
    BY <2>2, ReservationsAreNat DEF startOp_lower
  <2>3. CASE startOp_upper(t)
    BY <2>3, EpochsAreNat, ReservationsAreNat DEF startOp_upper, setUpper
  <2>4. QED BY <1>13, <2>1, <2>2, <2>3
<1>14. ASSUME NEW t \in Tid, endOp_upper(t) \/ endOp_lower(t) PROVE IBRTypeOK'
  <2>1. CASE endOp_upper(t)
    BY <2>1, ReservationsAreNat DEF endOp_upper, setUpper
  <2>2. CASE endOp_lower(t)
    BY <2>2, ReservationsAreNat DEF endOp_lower
  <2>3. QED BY <1>14, <2>1, <2>2
<1>15. ASSUME NEW t \in Tid, empty_scanLower(t) PROVE IBRTypeOK'
  BY <1>15 DEF empty_scanLower
<1>16. ASSUME NEW t \in Tid, empty_scanUpper(t) PROVE IBRTypeOK'
  <2>1. PICK u \in toScan[t] :
           /\ scanned' = [scanned EXCEPT ![t] = @ \union {[lower |-> low[t], upper |-> upper(u)]}]
           /\ toScan' = [toScan EXCEPT ![t] = @ \ {u}]
           /\ pc' = [pc EXCEPT ![t] = IF toScan[t] = {u} THEN "sweep" ELSE "scan"]
    BY <1>16 DEF empty_scanUpper
  <2>2. [lower |-> low[t], upper |-> upper(u)] \in [lower : Reservation, upper : Reservation]
    BY OwnSlot DEF upper
  <2>3. QED BY <1>16, <2>1, <2>2, ReservationsAreNat DEF empty_scanUpper
<1>17. QED
  BY <1>1, <1>2, <1>3, <1>4, <1>5, <1>6, <1>7, <1>8, <1>9, <1>10, <1>11, <1>12, <1>13, <1>14,
     <1>15, <1>16
  DEF IBRNext, shared, ibr_retire

(* Epochs and announcements can be compared. *)
LEMMA Comparable ==
  ASSUME IBRTypeOK
  PROVE  /\ epoch \in Nat /\ epoch <= MaxEpoch /\ MaxEpoch \in Nat
         /\ \A t \in Tid : e[t] \in Nat /\ lower[t] \in Nat /\ upper(t) \in Nat /\ low[t] \in Nat
         /\ \A s \in Slot : reservations[s] \in Nat
         /\ \A n \in Node : birth[n] \in Nat
BY EraReclaimerAssumption, EpochsAreNat, ReservationsAreNat, OwnSlot DEF IBRTypeOK, upper, Epoch

(* ... the use of the locals ... *)
LEMMA NextLocals ==
  ASSUME IBRTypeOK, Locals, IBRNext
  PROVE  Locals'
<1> USE DEF goto, records, reclaimer, reading, retiring, emptying, IBRTypeOK, Locals, Pointer
<1>1. ASSUME NEW t \in Tid, read_load(t) PROVE Locals'
  BY <1>1 DEF read_load
<1>2. ASSUME NEW t \in Tid, read_check(t) PROVE Locals'
  BY <1>2 DEF read_check
<1>3. ASSUME NEW t \in Tid, read_announce(t) PROVE Locals'
  BY <1>3 DEF read_announce
<1>4. ASSUME NEW t \in Tid, new_node(t) PROVE Locals'
  BY <1>4, LinkedRecordsAssumption DEF new_node, RecordsTypeOK
<1>5. ASSUME NEW t \in Tid, updateAllocCounterAndEpoch(t) PROVE Locals'
  BY <1>5 DEF updateAllocCounterAndEpoch
<1>6. ASSUME NEW t \in Tid, NEW c \in Cell, insert(t, c) PROVE Locals'
  <2>1. \A u \in Tid : u # t => pc'[u] = pc[u] /\ newNode'[u] = newNode[u]
    BY <1>6 DEF insert
  <2>2. (pc'[t] = "op" /\ newNode'[t] = NULL) \/ (pc'[t] = "created" /\ newNode'[t] = newNode[t])
    BY <1>6 DEF insert
  <2>3. pc[t] = "link" /\ UNCHANGED <<src, obj, idx>>
    BY <1>6 DEF insert
  <2>4. QED BY <2>1, <2>2, <2>3
<1>7. ASSUME NEW t \in Tid, NEW c \in Cell, erase(t, c) PROVE Locals'
  BY <1>7 DEF erase, unlink, RecordsTypeOK
<1>8. ASSUME NEW t \in Tid, retire_load(t) PROVE Locals'
  BY <1>8 DEF retire_load
<1>9. ASSUME NEW t \in Tid, ibr_client(t) PROVE Locals'
  BY <1>9 DEF ibr_client, read_call
<1>10. ASSUME NEW t \in Tid, retire_push(t, Tid) PROVE Locals'
  BY <1>10 DEF retire_push
<1>11. ASSUME NEW t \in Tid, NEW res \in retired[t], empty_free(t, res) PROVE Locals'
  BY <1>11 DEF empty_free
<1>12. ASSUME NEW t \in Tid, empty_return(t) PROVE Locals'
  BY <1>12 DEF empty_return
<1>13. ASSUME NEW t \in Tid, startOp_load(t) PROVE Locals'
  BY <1>13 DEF startOp_load
<1>14. ASSUME NEW t \in Tid, startOp_lower(t) PROVE Locals'
  BY <1>14 DEF startOp_lower
<1>15. ASSUME NEW t \in Tid, startOp_upper(t) PROVE Locals'
  BY <1>15 DEF startOp_upper
<1>16. ASSUME NEW t \in Tid, endOp_upper(t) PROVE Locals'
  BY <1>16 DEF endOp_upper
<1>17. ASSUME NEW t \in Tid, endOp_lower(t) PROVE Locals'
  BY <1>17 DEF endOp_lower
<1>18. ASSUME NEW t \in Tid, empty_scanLower(t) PROVE Locals'
  BY <1>18 DEF empty_scanLower
<1>19. ASSUME NEW t \in Tid, empty_scanUpper(t) PROVE Locals'
  BY <1>19 DEF empty_scanUpper
<1>20. QED
  BY <1>1, <1>2, <1>3, <1>4, <1>5, <1>6, <1>7, <1>8, <1>9, <1>10, <1>11, <1>12, <1>13, <1>14,
     <1>15, <1>16, <1>17, <1>18, <1>19
  DEF IBRNext, shared, ibr_retire

(* ... the slots in use ... *)
LEMMA NextOneSlot ==
  ASSUME IBRTypeOK, Locals, OneSlot, IBRNext
  PROVE  OneSlot'
<1> USE DEF goto, records, reclaimer, reading, retiring, emptying, OneSlot
<1>1. ASSUME NEW t \in Tid, UNCHANGED ref,
             \A u \in Tid : pc[u] \notin Outside => pc'[u] \notin Outside
      PROVE  OneSlot'
  BY <1>1
<1>2. ASSUME NEW t \in Tid,
             \/ read_load(t) \/ read_announce(t) \/ new_node(t) \/ updateAllocCounterAndEpoch(t)
             \/ (\E c \in Cell : insert(t, c) \/ erase(t, c)) \/ retire_load(t)
             \/ retire_push(t, Tid) \/ (\E res \in retired[t] : empty_free(t, res))
             \/ empty_return(t) \/ startOp_load(t) \/ startOp_lower(t) \/ startOp_upper(t)
             \/ endOp_lower(t) \/ empty_scanLower(t) \/ empty_scanUpper(t)
      PROVE  OneSlot'
  <2>1. UNCHANGED ref
    BY <1>2
    DEF read_load, read_announce, new_node, updateAllocCounterAndEpoch, insert, erase,
        retire_load, retire_push, empty_free, empty_return, startOp_load, startOp_lower,
        startOp_upper, endOp_lower, empty_scanLower, empty_scanUpper
  <2>2. /\ \A u \in Tid : u # t => pc'[u] = pc[u]
        /\ pc[t] \notin Outside => pc'[t] \notin Outside
    BY <1>2
    DEF IBRTypeOK, Outside, read_load, read_announce, new_node, updateAllocCounterAndEpoch, insert,
        erase, retire_load, retire_push, empty_free, empty_return, startOp_load, startOp_lower,
        startOp_upper, endOp_lower, empty_scanLower, empty_scanUpper
  <2>3. QED BY <1>1, <2>1, <2>2
<1>3. ASSUME NEW t \in Tid, read_check(t) PROVE OneSlot'
  <2>1. \A s \in Slot : s # <<t, 1>> => ref'[s] = ref[s]
    <3>1. idx[t] = <<t, 1>>
      BY DEF Locals
    <3>2. UNCHANGED ref \/ ref' = [ref EXCEPT ![<<t, 1>>] = @ \union ({ret[t]} \ {NULL})]
      BY <1>3, <3>1 DEF read_check
    <3>3. QED BY <3>2 DEF IBRTypeOK
  <2>2. \A u \in Tid : u # t => pc'[u] = pc[u]
    BY <1>3 DEF read_check, IBRTypeOK
  <2>3. pc'[t] \notin Outside
    BY <1>3 DEF read_check, IBRTypeOK, Outside
  <2>4. ASSUME NEW u \in Tid, NEW s \in slotsOf(u), ref'[s] # {}
        PROVE  s = <<u, 1>> /\ pc'[u] \notin Outside
    <3>1. CASE s = <<t, 1>>
      BY <2>3, <3>1, SlotOwner
    <3>2. CASE s # <<t, 1>>
      <4>1. ref[s] # {}
        BY <2>1, <2>4, <3>2, SlotOwner
      <4>2. s = <<u, 1>> /\ pc[u] \notin Outside
        BY <4>1
      <4>3. QED BY <2>2, <3>2, <4>2
    <3>3. QED BY <3>1, <3>2
  <2>5. QED BY <2>4
<1>4. ASSUME NEW t \in Tid, ibr_client(t) PROVE OneSlot'
  <2>1. UNCHANGED ref
    BY <1>4 DEF ibr_client, read_call, IBRTypeOK
  <2>2. \A u \in Tid : pc[u] \notin Outside => pc'[u] \notin Outside
    BY <1>4 DEF ibr_client, read_call, IBRTypeOK, Outside
  <2>3. QED BY <1>1, <2>1, <2>2
<1>5. ASSUME NEW t \in Tid, endOp_upper(t) PROVE OneSlot'
  <2>1. \A s \in Slot : ref'[s] = IF s = <<t, 1>> THEN {} ELSE ref[s]
    BY <1>5 DEF endOp_upper, IBRTypeOK
  <2>2. \A u \in Tid : u # t => pc'[u] = pc[u]
    BY <1>5 DEF endOp_upper, IBRTypeOK
  <2>3. ASSUME NEW u \in Tid, NEW s \in slotsOf(u), ref'[s] # {}
        PROVE  s = <<u, 1>> /\ pc'[u] \notin Outside
    <3>1. s # <<t, 1>> /\ ref[s] # {}
      BY <2>1, <2>3, SlotOwner
    <3>2. s = <<u, 1>> /\ pc[u] \notin Outside
      BY <3>1
    <3>3. QED BY <2>2, <3>1, <3>2
  <2>4. QED BY <2>3
<1>6. QED
  BY <1>2, <1>3, <1>4, <1>5 DEF IBRNext, shared, ibr_retire

(* ... what is announced ... *)
LEMMA NextAnnounced ==
  ASSUME IBRTypeOK, Locals, Announced, IBRNext
  PROVE  Announced'
<1> USE DEF goto, records, reclaimer, reading, retiring, emptying
<1>0. ASSUME UNCHANGED <<epoch, reservations, lower, birth>>,
             \A u \in Tid :
                /\ e'[u] = e[u] \/ e'[u] = 0
                /\ pc'[u] \notin {"announce", "startUpper"} \/ (e'[u] = e[u] /\ pc'[u] = pc[u])
                /\ pc'[u] \notin Outside => pc[u] \notin Outside
      PROVE  Announced'
  <2>1. epoch \in Nat
    BY Comparable
  <2>2. \A u \in Tid : e'[u] <= epoch
    <3>1. 0 <= epoch
      BY <2>1
    <3>2. \A u \in Tid : e[u] <= epoch
      BY DEF Announced
    <3>3. QED BY <1>0, <3>1, <3>2
  <2>3. QED BY <1>0, <2>2 DEF Announced
<1>1. ASSUME NEW t \in Tid, UNCHANGED lower,
             \/ read_load(t) \/ (\E c \in Cell : insert(t, c) \/ erase(t, c))
             \/ retire_push(t, Tid) \/ (\E res \in retired[t] : empty_free(t, res))
             \/ empty_return(t) \/ ibr_client(t)
      PROVE  Announced'
  <2>1. /\ UNCHANGED <<epoch, reservations, lower, birth>>
        /\ \A u \in Tid : e'[u] = e[u] \/ e'[u] = 0
    BY <1>1
    DEF IBRTypeOK, read_load, insert, erase, retire_push, empty_free, empty_return, ibr_client,
        read_call
  <2>2. /\ \A u \in Tid : u # t => pc'[u] = pc[u] /\ e'[u] = e[u]
        /\ pc[t] \notin Outside /\ pc'[t] \notin {"announce", "startUpper"}
    BY <1>1
    DEF IBRTypeOK, Outside, read_load, insert, erase, retire_push, empty_free, empty_return,
        ibr_client,
        read_call
  <2>3. \A u \in Tid :
           /\ pc'[u] \notin {"announce", "startUpper"} \/ (e'[u] = e[u] /\ pc'[u] = pc[u])
           /\ pc'[u] \notin Outside => pc[u] \notin Outside
    BY <2>2
  <2>4. QED BY <1>0, <2>1, <2>3
<1>2. ASSUME NEW t \in Tid, UNCHANGED lower, read_check(t) PROVE Announced'
  <2>1. /\ UNCHANGED <<epoch, reservations, lower, birth>>
        /\ \A u \in Tid : u # t => pc'[u] = pc[u] /\ e'[u] = e[u]
        /\ pc[t] = "check"
        /\ (pc'[t] = "op" /\ e'[t] = e[t]) \/ (pc'[t] = "announce" /\ e'[t] = epoch)
    BY <1>2 DEF read_check, IBRTypeOK
  <2>2. pc[t] \notin Outside /\ pc'[t] # "startUpper"
    BY <2>1 DEF Outside
  <2>3. QED BY <2>1, <2>2, Comparable DEF Announced
<1>3. ASSUME NEW t \in Tid, UNCHANGED lower, read_announce(t) PROVE Announced'
  <2>1. /\ UNCHANGED <<epoch, lower, birth>>
        /\ \A u \in Tid : u # t => pc'[u] = pc[u] /\ e'[u] = e[u]
        /\ pc[t] = "announce" /\ pc'[t] = "load" /\ e'[t] = 0
    BY <1>3 DEF read_announce, IBRTypeOK
  <2>2. \A s \in Slot : reservations'[s] = IF s = <<t, 1>> THEN e[t] ELSE reservations[s]
    BY <1>3 DEF read_announce, IBRTypeOK, Locals
  <2>3. /\ \A u \in Tid : u # t => reservations'[<<u, 1>>] = reservations[<<u, 1>>]
        /\ reservations'[<<t, 1>>] = e[t]
    BY <2>2, OwnSlot
  <2>4. pc[t] \notin Outside
    BY <2>1 DEF Outside
  <2>5. /\ e[t] \in Nat /\ reservations[<<t, 1>>] \in Nat /\ lower[t] \in Nat /\ epoch \in Nat
        /\ lower[t] <= reservations[<<t, 1>>] /\ reservations[<<t, 1>>] <= e[t] /\ e[t] <= epoch
    BY <2>1, <2>4, Comparable, OwnSlot DEF Announced
  <2>6. QED BY <2>1, <2>2, <2>3, <2>5 DEF Announced
<1>4. ASSUME NEW t \in Tid, UNCHANGED lower, new_node(t) \/ retire_load(t) PROVE Announced'
  <2>1. /\ UNCHANGED <<epoch, lower, reservations>>
        /\ \A u \in Tid : u # t => pc'[u] = pc[u] /\ e'[u] = e[u]
        /\ pc[t] \in {"op", "retire"} /\ pc'[t] \in {"created", "push"}
        /\ e'[t] = e[t] \/ e'[t] = epoch
        /\ \A n \in Node : birth'[n] = birth[n] \/ birth'[n] = epoch
    BY <1>4 DEF new_node, retire_load, IBRTypeOK
  <2>2. pc[t] \notin Outside
    BY <2>1 DEF Outside
  <2>3. QED BY <2>1, <2>2, Comparable DEF Announced
<1>5. ASSUME NEW t \in Tid, UNCHANGED lower, updateAllocCounterAndEpoch(t) PROVE Announced'
  <2>1. /\ UNCHANGED <<lower, reservations, birth, e>>
        /\ \A u \in Tid : u # t => pc'[u] = pc[u]
        /\ pc[t] = "created" /\ pc'[t] = "link"
        /\ epoch' = epoch \/ epoch' = epoch + 1
    BY <1>5 DEF updateAllocCounterAndEpoch, IBRTypeOK
  <2>2. pc[t] \notin Outside
    BY <2>1 DEF Outside
  <2>3. \A x \in Nat : x <= epoch => x <= epoch'
    BY <2>1, Comparable
  <2>4. QED BY <2>1, <2>2, <2>3, Comparable, OwnSlot DEF Announced
<1>6. ASSUME NEW t \in Tid, startOp_load(t) \/ startOp_lower(t) PROVE Announced'
  <2>1. /\ UNCHANGED <<epoch, reservations, birth>>
        /\ \A u \in Tid : u # t => pc'[u] = pc[u] /\ e'[u] = e[u] /\ lower'[u] = lower[u]
        /\ \/ pc'[t] = "startLower" /\ e'[t] = epoch
           \/ pc'[t] = "startUpper" /\ e'[t] = e[t] /\ lower'[t] = e[t]
    BY <1>6 DEF startOp_load, startOp_lower, IBRTypeOK
  <2>2. pc'[t] \in Outside /\ pc'[t] # "announce"
    BY <2>1 DEF Outside
  <2>3. epoch \in Nat
    BY Comparable
  <2>4. e'[t] <= epoch /\ (pc'[t] = "startUpper" => lower'[t] = e'[t])
    <3>1. epoch <= epoch
      BY <2>3
    <3>2. e[t] <= epoch
      BY DEF Announced
    <3>3. QED BY <2>1, <3>1, <3>2
  <2>5. QED BY <2>1, <2>2, <2>4 DEF Announced
<1>7. ASSUME NEW t \in Tid, startOp_upper(t) PROVE Announced'
  <2>1. /\ UNCHANGED <<epoch, lower, birth>>
        /\ \A u \in Tid : u # t => pc'[u] = pc[u] /\ e'[u] = e[u]
        /\ pc[t] = "startUpper" /\ pc'[t] = "op" /\ e'[t] = 0
    BY <1>7 DEF startOp_upper, IBRTypeOK
  <2>2. \A s \in Slot : reservations'[s] = IF s = <<t, 1>> THEN e[t] ELSE reservations[s]
    BY <1>7 DEF startOp_upper, setUpper, IBRTypeOK
  <2>3. /\ \A u \in Tid : u # t => reservations'[<<u, 1>>] = reservations[<<u, 1>>]
        /\ reservations'[<<t, 1>>] = e[t]
    BY <2>2, OwnSlot
  <2>4. e[t] \in Nat /\ epoch \in Nat /\ e[t] <= epoch /\ lower[t] = e[t]
    BY <2>1, Comparable DEF Announced
  <2>5. QED BY <2>1, <2>2, <2>3, <2>4 DEF Announced
<1>8. ASSUME NEW t \in Tid, endOp_upper(t) PROVE Announced'
  <2>1. /\ UNCHANGED <<epoch, lower, birth, e>>
        /\ \A u \in Tid : u # t => pc'[u] = pc[u]
        /\ pc'[t] = "ending"
    BY <1>8 DEF endOp_upper, IBRTypeOK
  <2>2. \A s \in Slot : reservations'[s] = IF s = <<t, 1>> THEN UINT64_MAX ELSE reservations[s]
    BY <1>8 DEF endOp_upper, setUpper, IBRTypeOK
  <2>3. \A u \in Tid : u # t => reservations'[<<u, 1>>] = reservations[<<u, 1>>]
    BY <2>2, OwnSlot
  <2>4. pc'[t] \in Outside /\ pc'[t] \notin {"announce", "startUpper"}
    BY <2>1 DEF Outside
  <2>5. UINT64_MAX' = UINT64_MAX
    BY DEF UINT64_MAX
  <2>6. QED BY <2>1, <2>2, <2>3, <2>4, <2>5 DEF Announced
<1>9. ASSUME NEW t \in Tid, endOp_lower(t) PROVE Announced'
  <2>1. /\ UNCHANGED <<epoch, reservations, birth, e>>
        /\ \A u \in Tid : u # t => pc'[u] = pc[u] /\ lower'[u] = lower[u]
        /\ pc'[t] = "idle"
    BY <1>9 DEF endOp_lower, IBRTypeOK
  <2>2. pc'[t] \in Outside /\ pc'[t] \notin {"announce", "startUpper"}
    BY <2>1 DEF Outside
  <2>3. QED BY <2>1, <2>2 DEF Announced
<1>10. ASSUME NEW t \in Tid, empty_scanLower(t) \/ empty_scanUpper(t) PROVE Announced'
  <2>1. /\ UNCHANGED <<epoch, reservations, lower, birth, e>>
        /\ \A u \in Tid : u # t => pc'[u] = pc[u]
        /\ pc[t] \in {"scan", "scanUpper"} /\ pc'[t] \in {"scan", "scanUpper", "sweep"}
    BY <1>10 DEF empty_scanLower, empty_scanUpper, IBRTypeOK
  <2>2. pc[t] \notin Outside
    BY <2>1 DEF Outside
  <2>3. QED BY <2>1, <2>2 DEF Announced
<1>11. QED
  BY <1>1, <1>2, <1>3, <1>4, <1>5, <1>6, <1>7, <1>8, <1>9, <1>10 DEF IBRNext, shared, ibr_retire

(* ... all that is said of the locals ... *)
LEMMA IBRNextControl ==
  ASSUME IBRTypeOK, IBRControl, IBRNext
  PROVE  IBRControl'
BY NextLocals, NextOneSlot, NextAnnounced DEF IBRControl

(* ... every record in one place ... *)
LEMMA IBRNextOnePlace ==
  ASSUME IBRTypeOK, IBRControl, OnePlace, IBRNext
  PROVE  OnePlace'
<1>1. ASSUME NEW t \in Tid, shared(t) PROVE OnePlace'
  BY <1>1, IBRSchemeTypes, SharedOnePlace
<1>2. ASSUME NEW t \in Tid, retire_push(t, Tid) \/ \E res \in retired[t] : empty_free(t, res)
      PROVE  OnePlace'
  BY <1>2, IBRSchemeTypes, RetireOnePlace
<1>3. CASE UNCHANGED <<cell, pool, newNode, obj, retired>>
  BY <1>3, NothingMoves
<1>4. QED
  BY <1>1, <1>2, <1>3
  DEF IBRNext, ibr_client, ibr_retire, read_call, startOp_load, startOp_lower, startOp_upper,
      endOp_upper,
      endOp_lower, empty_scanLower, empty_scanUpper, empty_return, records, reclaimer, retiring

(* ... the birth epochs that the lists repeat ... *)
LEMMA IBRNextStamped ==
  ASSUME IBRTypeOK, OnePlace, Stamped, IBRNext
  PROVE  Stamped'
<1>1. ASSUME NEW t \in Tid,
             \/ shared(t) \/ retire_push(t, Tid)
             \/ \E res \in retired[t] : empty_free(t, res)
      PROVE  Stamped'
  BY <1>1, IBRSchemeTypes, NextStampedEra
<1>2. CASE UNCHANGED <<retired, birth>>
  BY <1>2 DEF Stamped
<1>3. QED
  BY <1>1, <1>2
  DEF IBRNext, ibr_client, ibr_retire, read_call, startOp_load, startOp_lower, startOp_upper,
      endOp_upper,
      endOp_lower, empty_scanLower, empty_scanUpper, empty_return, records, reclaimer

-------------------------------------------------------------------------------
IBRSafe == IBRProtected /\ IBRScanCovered

(* What a list holds. *)
LEMMA IBRRetiredTypes ==
  ASSUME IBRTypeOK, NEW u \in Tid, NEW res \in retired[u]
  PROVE  res.obj \in Node /\ res.birth \in Nat /\ res.retire \in Nat
BY EpochsAreNat DEF IBRTypeOK, Info

(* Only a running operation uses records. *)
LEMMA UsesInside ==
  ASSUME IBRTypeOK, IBRControl, NEW t \in Tid, NEW n, IBRUses(t, n)
  PROVE  pc[t] \notin Outside /\ lower[t] <= upper(t) /\ upper(t) <= epoch
<1>1. pc[t] \notin Outside
  BY OwnSlot, SlotOwner DEF IBRUses, IBRReturning, IBRControl, OneSlot, Outside
<1>2. QED BY <1>1 DEF IBRControl, Announced, upper

(* The interval argument goes on when nothing is newly used and nothing    *)
(* retired, the intervals of operations in use only grow upwards, and no   *)
(* record in use is freed.                                                 *)
LEMMA IBRQuietStep ==
  ASSUME IBRTypeOK, IBRTypeOK', IBRSafe,
         \A t \in Tid, n \in Node : IBRUses(t, n)' =>
             /\ IBRUses(t, n)
             /\ lower'[t] = lower[t] /\ upper(t) <= upper(t)' /\ birth'[n] = birth[n]
             /\ n \notin pool' /\ \A u \in Tid : newNode'[u] # n,
         \A u \in Tid : pc'[u] = "push" =>
             pc[u] = "push" /\ obj'[u] = obj[u] /\ e'[u] = e[u],
         \A u, t \in Tid : IBRPassed(u, t)' => IBRPassed(u, t) /\ scanned'[u] = scanned[u],
         \A u, t \in Tid : Reading(u, t)' => Reading(u, t) /\ low'[u] = low[u],
         \A u \in Tid : retired'[u] \subseteq retired[u]
  PROVE  IBRSafe'
<1>1. IBRProtected'
  <2>1. SUFFICES ASSUME NEW t \in Tid, NEW n \in Node, IBRUses(t, n)'
                 PROVE  /\ n \notin pool'
                        /\ birth'[n] <= upper(t)'
                        /\ \A u \in Tid :
                              /\ newNode'[u] # n
                              /\ pc'[u] = "push" /\ obj'[u] = n => lower'[t] <= e'[u]
                              /\ \A res \in retired'[u] : res.obj = n => lower'[t] <= res.retire
    BY DEF IBRProtected
  <2>2. /\ IBRUses(t, n) /\ lower'[t] = lower[t] /\ upper(t) <= upper(t)' /\ birth'[n] = birth[n]
        /\ n \notin pool' /\ \A u \in Tid : newNode'[u] # n
    BY <2>1
  <2>3. /\ birth[n] <= upper(t)
        /\ \A u \in Tid :
              /\ pc[u] = "push" /\ obj[u] = n => lower[t] <= e[u]
              /\ \A res \in retired[u] : res.obj = n => lower[t] <= res.retire
    BY <2>2 DEF IBRSafe, IBRProtected
  <2>4. birth'[n] <= upper(t)'
    <3>1. birth[n] \in Nat /\ upper(t) \in Nat
      BY Comparable
    <3>2. upper(t)' \in Nat
      BY OwnSlot, ReservationsAreNat DEF IBRTypeOK, upper
    <3>3. QED BY <2>2, <2>3, <3>1, <3>2
  <2>5. QED BY <2>2, <2>3, <2>4
<1>2. IBRScanCovered'
  <2>1. SUFFICES ASSUME NEW u \in Tid, NEW res \in retired'[u], NEW t \in Tid,
                        IBRUses(t, res.obj)'
                 PROVE  /\ IBRPassed(u, t)' => \E interval \in scanned'[u] : Meets(interval, res)
                        /\ Reading(u, t)' => low'[u] <= res.retire
    BY DEF IBRScanCovered, Meets
  <2>2. res \in retired[u] /\ res.obj \in Node
    BY <2>1, IBRRetiredTypes
  <2>3. IBRUses(t, res.obj)
    BY <2>1, <2>2
  <2>4. QED BY <2>2, <2>3 DEF IBRSafe, IBRScanCovered
<1>3. QED BY <1>1, <1>2 DEF IBRSafe

(* A step that leaves intervals, readers and the epoch alone changes no use. *)
LEMMA IBRSameUses ==
  ASSUME IBRTypeOK, UNCHANGED <<epoch, reservations, ret, ref>>,
         \A u \in Tid : pc'[u] = "check" => pc[u] = "check"
  PROVE  /\ \A t \in Tid, n \in Node : IBRUses(t, n)' => IBRUses(t, n)
         /\ \A t \in Tid : upper(t)' = upper(t)
BY DEF IBRUses, IBRReturning, upper

(* A record that no copied interval meets, no operation uses. *)
LEMMA IBRNoConflictNoUse ==
  ASSUME IBRTypeOK, IBRSafe, NEW t \in Tid, pc[t] = "sweep", NEW res \in retired[t], ~ibr_conflict(t,
         res)
  PROVE  \A u \in Tid : ~IBRUses(u, res.obj)
BY DEF IBRSafe, IBRScanCovered, IBRPassed, Meets, ibr_conflict

(* The steps of the other parts of the code do not disturb it, *)
LEMMA SharedSafe ==
  ASSUME IBRTypeOK, IBRTypeOK', IBRControl, OnePlace, IBRSafe, NEW t \in Tid, shared(t),
         UNCHANGED <<lower, low>>
  PROVE  IBRSafe'
<1> USE DEF goto, records, reclaimer, reading, retiring, emptying
<1>0. \A u \in Tid : upper(u) \in Nat /\ upper(u) <= upper(u)
  BY Comparable
<1>1. CASE read_load(t)
  <2> DEFINE m == cell[src[t]]
  <2>1. /\ pc[t] = "load" /\ pc' = [pc EXCEPT ![t] = "check"] /\ ret' = [ret EXCEPT ![t] = m]
        /\ UNCHANGED <<cell, pool, epoch, birth, reservations, retired, newNode, idx, obj, e,
                       toScan, scanned, ref>>
    BY <1>1 DEF read_load
  <2>2. \A u \in Tid : upper(u)' = upper(u)
    BY <2>1 DEF upper
  <2>3. \A u \in Tid, n \in Node : IBRUses(u, n)' =>
           IBRUses(u, n) \/ (u = t /\ n = m /\ upper(t) = epoch)
    BY <2>1, <2>2 DEF IBRUses, IBRReturning, IBRTypeOK
  <2>4. m \in Node =>
           /\ m \notin pool
           /\ \A u \in Tid : newNode[u] # m /\ obj[u] # m /\ \A res \in retired[u] : res.obj # m
    BY <2>1, LinkedRecordsAssumption
    DEF OnePlace, LinksDisjoint, CreatedDisjoint, RetiringDisjoint, RetiredDisjoint, IBRControl,
        Locals
  <2>5. \A n \in Node : birth[n] <= epoch
    BY DEF IBRControl, Announced
  <2>6. \A u \in Tid : pc'[u] = "push" => pc[u] = "push"
    BY <2>1 DEF IBRTypeOK
  <2>7. IBRProtected'
    <3>1. SUFFICES ASSUME NEW u \in Tid, NEW n \in Node, IBRUses(u, n)'
                   PROVE  /\ n \notin pool
                          /\ birth[n] <= upper(u)
                          /\ \A v \in Tid :
                                /\ newNode[v] # n
                                /\ pc'[v] = "push" /\ obj[v] = n => lower[u] <= e[v]
                                /\ \A res \in retired[v] : res.obj = n => lower[u] <= res.retire
      BY <2>1, <2>2 DEF IBRProtected
    <3>2. CASE IBRUses(u, n)
      BY <2>6, <3>2 DEF IBRSafe, IBRProtected
    <3>3. CASE u = t /\ n = m /\ upper(t) = epoch
      BY <2>4, <2>5, <3>3
    <3>4. QED BY <2>3, <3>1, <3>2, <3>3
  <2>8. IBRScanCovered'
    <3>1. \A u, v \in Tid : (IBRPassed(u, v)' => IBRPassed(u, v)) /\ (Reading(u, v)' => Reading(u, v))
      BY <2>1 DEF IBRPassed, Reading, IBRTypeOK
    <3>2. \A u \in Tid : \A res \in retired[u] : \A v \in Tid :
             IBRUses(v, res.obj)' => IBRUses(v, res.obj)
      BY <2>3, <2>4, IBRRetiredTypes
    <3>3. QED BY <2>1, <3>1, <3>2 DEF IBRSafe, IBRScanCovered
  <2>9. QED BY <2>7, <2>8 DEF IBRSafe
<1>2. CASE read_check(t)
  <2>1. UNCHANGED <<pool, epoch, birth, reservations, newNode, retired, obj, toScan, scanned>>
    BY <1>2 DEF read_check
  <2>2. \A u \in Tid : upper(u)' = upper(u)
    BY <2>1 DEF upper
  <2>3. \A u \in Tid, n \in Node : IBRUses(u, n)' => IBRUses(u, n)
    <3>1. idx[t] = <<t, 1>> /\ pc[t] = "check"
      BY <1>2 DEF read_check, IBRControl, Locals
    <3>2. \A u \in Tid : pc'[u] = "check" => u # t /\ pc[u] = "check" /\ ret'[u] = ret[u]
      BY <1>2 DEF read_check, IBRTypeOK
    <3>3. \A u \in Tid, n \in Node : n \in ref'[<<u, 1>>] =>
             n \in ref[<<u, 1>>] \/ (u = t /\ upper(t) = epoch /\ n = ret[t])
      <4>1. UNCHANGED ref \/ ( /\ epoch = reservations[<<t, 1>>]
                               /\ ref' = [ref EXCEPT ![<<t, 1>>] = @ \union ({ret[t]} \ {NULL})])
        BY <1>2, <3>1 DEF read_check
      <4>2. CASE UNCHANGED ref
        BY <4>2
      <4>3. CASE /\ epoch = reservations[<<t, 1>>]
                 /\ ref' = [ref EXCEPT ![<<t, 1>>] = @ \union ({ret[t]} \ {NULL})]
        <5>1. \A s \in Slot : ref'[s] = IF s = <<t, 1>> THEN ref[s] \union ({ret[t]} \ {NULL})
                                       ELSE ref[s]
          BY <4>3 DEF IBRTypeOK
        <5>2. \A u \in Tid : <<u, 1>> \in Slot /\ (<<u, 1>> = <<t, 1>> => u = t)
          BY OwnSlot
        <5>3. QED BY <4>3, <5>1, <5>2 DEF upper
      <4>4. QED BY <4>1, <4>2, <4>3
    <3>4. QED BY <2>1, <2>2, <3>1, <3>2, <3>3 DEF IBRUses, IBRReturning
  <2>4. \A u \in Tid : pc'[u] \in {"push", "scan", "scanUpper", "sweep"} =>
           pc'[u] = pc[u] /\ e'[u] = e[u]
    BY <1>2 DEF read_check, IBRTypeOK
  <2>5. QED
    BY <1>0, <2>1, <2>2, <2>3, <2>4, IBRQuietStep DEF IBRPassed, Reading, IBRSafe, IBRProtected
<1>3. CASE read_announce(t)
  <2>1. UNCHANGED <<pool, epoch, birth, newNode, retired, obj, toScan, scanned, ref, ret>>
    BY <1>3 DEF read_announce
  <2>2. \A u \in Tid : upper(u)' = IF u = t THEN e[t] ELSE upper(u)
    <3>1. idx[t] = <<t, 1>>
      BY DEF IBRControl, Locals
    <3>2. QED BY <1>3, <3>1, OwnSlot DEF read_announce, IBRTypeOK, upper
  <2>3. upper(t) <= e[t] /\ pc[t] = "announce" /\ pc' = [pc EXCEPT ![t] = "load"]
    BY <1>3 DEF read_announce, IBRControl, Announced, upper
  <2>4. \A u \in Tid : upper(u) <= upper(u)'
    BY <1>0, <2>2, <2>3
  <2>5. \A u \in Tid, n \in Node : IBRUses(u, n)' => IBRUses(u, n)
    BY <2>1, <2>2, <2>3 DEF IBRUses, IBRReturning, IBRTypeOK
  <2>6. \A u \in Tid : pc'[u] \in {"push", "scan", "scanUpper", "sweep"} =>
           pc'[u] = pc[u] /\ e'[u] = e[u]
    BY <1>3 DEF read_announce, IBRTypeOK
  <2>7. QED
    BY <2>1, <2>4, <2>5, <2>6, IBRQuietStep DEF IBRPassed, Reading, IBRSafe, IBRProtected
<1>4. CASE new_node(t)
  <2>1. PICK n \in pool : /\ newNode' = [newNode EXCEPT ![t] = n] /\ pool' = pool \ {n}
                          /\ birth' = [birth EXCEPT ![n] = epoch]
    BY <1>4 DEF new_node
  <2>2. UNCHANGED <<epoch, reservations, ret, ref, retired, obj, e, toScan, scanned>>
    BY <1>4 DEF new_node
  <2>3. \A u \in Tid : pc'[u] \in {"check", "push", "scan", "scanUpper", "sweep"} => pc'[u] = pc[u]
    BY <1>4 DEF new_node, IBRTypeOK
  <2>4. /\ \A u \in Tid, k \in Node : IBRUses(u, k)' => IBRUses(u, k)
        /\ \A u \in Tid : upper(u)' = upper(u)
    BY <2>2, <2>3, IBRSameUses
  <2>5. \A k \in Node : k \notin pool => birth'[k] = birth[k] /\ k \notin pool'
    BY <2>1 DEF IBRTypeOK
  <2>6. \A u \in Tid : newNode'[u] = newNode[u] \/ newNode'[u] = n
    BY <2>1 DEF IBRTypeOK
  <2>7. QED
    BY <1>0, <2>1, <2>2, <2>3, <2>4, <2>5, <2>6, IBRQuietStep
      DEF IBRPassed, Reading, IBRSafe, IBRProtected
<1>5. CASE updateAllocCounterAndEpoch(t)
  <2>1. epoch \in Nat /\ epoch' \in Nat /\ epoch <= epoch'
    BY <1>5, EpochsAreNat DEF updateAllocCounterAndEpoch, IBRTypeOK
  <2>2. UNCHANGED <<pool, birth, reservations, newNode, ret, ref, retired, obj, e, toScan, scanned>>
    BY <1>5 DEF updateAllocCounterAndEpoch
  <2>3. \A u \in Tid : pc'[u] \in {"check", "push", "scan", "scanUpper", "sweep"} => pc'[u] = pc[u]
    BY <1>5 DEF updateAllocCounterAndEpoch, IBRTypeOK
  <2>4. \A u \in Tid : upper(u)' = upper(u)
    BY <2>2 DEF upper
  <2>5. \A u \in Tid : pc[u] = "check" => upper(u) <= epoch
    BY DEF IBRControl, Announced, Outside, upper
  <2>6. \A u \in Tid, n \in Node : IBRUses(u, n)' => IBRUses(u, n)
    <3>1. \A u \in Tid : IBRReturning(u)' => IBRReturning(u)
      BY <1>0, <2>1, <2>3, <2>4, <2>5 DEF IBRReturning
    <3>2. QED BY <2>2, <3>1 DEF IBRUses
  <2>7. QED
    BY <1>0, <2>2, <2>3, <2>4, <2>6, IBRQuietStep DEF IBRPassed, Reading, IBRSafe, IBRProtected
<1>6. ASSUME NEW c \in Cell, insert(t, c) PROVE IBRSafe'
  <2>1. UNCHANGED <<epoch, birth, reservations, ret, ref, retired, obj, e, toScan, scanned>>
    BY <1>6 DEF insert, poolAdd
  <2>2. \A u \in Tid : pc'[u] \in {"check", "push", "scan", "scanUpper", "sweep"} => pc'[u] = pc[u]
    BY <1>6 DEF insert, IBRTypeOK
  <2>3. /\ \A u \in Tid, n \in Node : IBRUses(u, n)' => IBRUses(u, n)
        /\ \A u \in Tid : upper(u)' = upper(u)
    BY <2>1, <2>2, IBRSameUses
  <2>4. pool' \subseteq pool \union {newNode[t]}
    BY <1>6 DEF insert, poolAdd
  <2>5. \A u \in Tid : newNode'[u] = newNode[u] \/ newNode'[u] = NULL
    BY <1>6 DEF insert, IBRTypeOK
  <2>6. QED
    BY <1>0, <2>1, <2>2, <2>3, <2>4, <2>5, IBRQuietStep, LinkedRecordsAssumption
    DEF IBRPassed, Reading, IBRSafe, IBRProtected
<1>7. ASSUME NEW c \in Cell, erase(t, c) PROVE IBRSafe'
  <2>1. UNCHANGED <<pool, epoch, birth, reservations, newNode, ret, ref, retired, e, toScan,
                    scanned>>
    BY <1>7 DEF erase, unlink
  <2>2. \A u \in Tid : pc'[u] \in {"check", "push", "scan", "scanUpper", "sweep"} =>
           pc'[u] = pc[u] /\ obj'[u] = obj[u]
    BY <1>7 DEF erase, IBRTypeOK
  <2>3. /\ \A u \in Tid, n \in Node : IBRUses(u, n)' => IBRUses(u, n)
        /\ \A u \in Tid : upper(u)' = upper(u)
    BY <2>1, <2>2, IBRSameUses
  <2>4. QED BY <1>0, <2>1, <2>2, <2>3, IBRQuietStep DEF IBRPassed, Reading, IBRSafe, IBRProtected
<1>8. CASE retire_load(t)
  <2>1. UNCHANGED <<pool, epoch, birth, reservations, newNode, ret, ref, retired, obj, toScan,
                    scanned>>
    BY <1>8 DEF retire_load
  <2>2. \A u \in Tid : u # t => pc'[u] = pc[u] /\ e'[u] = e[u]
    BY <1>8 DEF retire_load, IBRTypeOK
  <2>3. pc'[t] = "push" /\ e'[t] = epoch
    BY <1>8 DEF retire_load, IBRTypeOK
  <2>4. /\ \A u \in Tid, n \in Node : IBRUses(u, n)' => IBRUses(u, n)
        /\ \A u \in Tid : upper(u)' = upper(u)
    BY <2>1, <2>2, <2>3, IBRSameUses
  <2>5. \A u \in Tid, n \in Node : IBRUses(u, n) => lower[u] <= epoch
    BY UsesInside, Comparable
  <2>6. IBRProtected'
    BY <2>1, <2>2, <2>3, <2>4, <2>5 DEF IBRSafe, IBRProtected
  <2>7. IBRScanCovered'
    <3>1. \A u, v \in Tid : (IBRPassed(u, v)' => IBRPassed(u, v)) /\ (Reading(u, v)' => Reading(u, v))
      BY <2>1, <2>2, <2>3 DEF IBRPassed, Reading
    <3>2. \A u \in Tid : \A res \in retired[u] : \A v \in Tid :
             IBRUses(v, res.obj)' => IBRUses(v, res.obj)
      BY <2>4, IBRRetiredTypes
    <3>3. QED BY <2>1, <3>1, <3>2 DEF IBRSafe, IBRScanCovered
  <2>8. QED BY <2>6, <2>7 DEF IBRSafe
<1>9. QED
  BY <1>1, <1>2, <1>3, <1>4, <1>5, <1>6, <1>7, <1>8 DEF shared

(* nor do the scan, the sweep and the ends of an operation. *)
LEMMA IBRNextSafe ==
  ASSUME IBRTypeOK, IBRTypeOK', IBRControl, OnePlace, Stamped, IBRSafe, IBRNext
  PROVE  IBRSafe'
<1> USE DEF goto, records, reclaimer, reading, retiring, emptying
<1>0. \A u \in Tid : upper(u) \in Nat /\ upper(u) <= upper(u)
  BY Comparable
<1>1. ASSUME NEW t \in Tid, ibr_client(t), UNCHANGED <<lower, low>> PROVE IBRSafe'
  <2>1. PICK c \in Cell : read_call(t, <<t, 1>>, c, ref[<<t, 1>>])
    BY <1>1 DEF ibr_client
  <2>2. UNCHANGED <<pool, epoch, birth, reservations, newNode, ret, ref, retired, obj, e, toScan,
                    scanned>>
    BY <2>1 DEF read_call, IBRTypeOK
  <2>3. \A u \in Tid : pc'[u] \in {"check", "push", "scan", "scanUpper", "sweep"} => pc'[u] = pc[u]
    BY <2>1 DEF read_call, IBRTypeOK
  <2>4. /\ \A u \in Tid, n \in Node : IBRUses(u, n)' => IBRUses(u, n)
        /\ \A u \in Tid : upper(u)' = upper(u)
    BY <2>2, <2>3, IBRSameUses
  <2>5. QED BY <1>0, <1>1, <2>2, <2>3, <2>4, IBRQuietStep
    DEF IBRPassed, Reading, IBRSafe, IBRProtected
<1>2. ASSUME NEW t \in Tid, startOp_load(t) \/ startOp_lower(t) PROVE IBRSafe'
  <2>1. /\ UNCHANGED <<pool, epoch, birth, reservations, newNode, ret, ref, retired, obj, toScan,
                       scanned, low>>
        /\ pc[t] \in Outside
        /\ \A u \in Tid : u # t => lower'[u] = lower[u]
    BY <1>2 DEF startOp_load, startOp_lower, IBRTypeOK, Outside
  <2>2. \A u \in Tid : pc'[u] \in {"check", "push", "scan", "scanUpper", "sweep"} =>
           pc'[u] = pc[u] /\ e'[u] = e[u]
    BY <1>2 DEF startOp_load, startOp_lower, IBRTypeOK
  <2>3. /\ \A u \in Tid, n \in Node : IBRUses(u, n)' => IBRUses(u, n)
        /\ \A u \in Tid : upper(u)' = upper(u)
    BY <2>1, <2>2, IBRSameUses
  <2>4. \A u \in Tid, n \in Node : IBRUses(u, n)' => u # t
    BY <2>1, <2>3, UsesInside
  <2>5. QED
    BY <1>0, <2>1, <2>2, <2>3, <2>4, IBRQuietStep DEF IBRPassed, Reading, IBRSafe, IBRProtected
<1>3. ASSUME NEW t \in Tid, startOp_upper(t) \/ endOp_upper(t) \/ endOp_lower(t) PROVE IBRSafe'
  <2>1. /\ UNCHANGED <<pool, epoch, birth, newNode, ret, retired, obj, toScan, scanned, low>>
        /\ \A u \in Tid : u # t => lower'[u] = lower[u]
    BY <1>3 DEF startOp_upper, endOp_upper, endOp_lower, IBRTypeOK
  <2>2. \A u \in Tid : pc'[u] \in {"check", "push", "scan", "scanUpper", "sweep"} =>
           u # t /\ pc'[u] = pc[u] /\ e'[u] = e[u]
    BY <1>3 DEF startOp_upper, endOp_upper, endOp_lower, IBRTypeOK
  <2>3. \A u \in Tid : u # t => upper(u)' = upper(u) /\ ref'[<<u, 1>>] = ref[<<u, 1>>]
    BY <1>3, OwnSlot DEF startOp_upper, endOp_upper, endOp_lower, setUpper, IBRTypeOK, upper
  <2>4. ref'[<<t, 1>>] = {}
    <3>1. CASE endOp_upper(t)
      BY <3>1, OwnSlot DEF endOp_upper, IBRTypeOK
    <3>2. CASE startOp_upper(t) \/ endOp_lower(t)
      <4>1. UNCHANGED ref /\ pc[t] \in Outside
        BY <3>2 DEF startOp_upper, endOp_lower, Outside
      <4>2. QED BY <4>1, SlotOwner DEF IBRControl, OneSlot
    <3>3. QED BY <1>3, <3>1, <3>2
  <2>5. \A u \in Tid, n \in Node : IBRUses(u, n)' => u # t /\ IBRUses(u, n)
    BY <2>1, <2>2, <2>3, <2>4 DEF IBRUses, IBRReturning
  <2>6. QED
    BY <1>0, <2>1, <2>2, <2>3, <2>5, IBRQuietStep DEF IBRPassed, Reading, IBRSafe, IBRProtected
<1>4. ASSUME NEW t \in Tid, retire_push(t, Tid), UNCHANGED <<lower, low>> PROVE IBRSafe'
  <2> DEFINE new == [obj |-> obj[t], birth |-> birth[obj[t]], retire |-> e[t]]
  <2>1. \A u \in Tid : retired'[u] = IF u = t THEN retired[u] \union {new} ELSE retired[u]
    BY <1>4 DEF retire_push, IBRTypeOK
  <2>2. new.obj = obj[t] /\ new.retire = e[t] /\ obj[t] \in Node
    BY <1>4 DEF retire_push, IBRControl, Locals, IBRTypeOK, Pointer
  <2> HIDE DEF new
  <2>3. /\ UNCHANGED <<pool, epoch, birth, reservations, newNode, ret, ref, scanned>>
        /\ \A u \in Tid : u # t => pc'[u] = pc[u] /\ e'[u] = e[u] /\ obj'[u] = obj[u]
                                  /\ toScan'[u] = toScan[u]
        /\ pc[t] = "push"
        /\ pc'[t] = "op" \/ (pc'[t] = "scan" /\ toScan'[t] = Tid)
    BY <1>4 DEF retire_push, IBRTypeOK
  <2>4. /\ \A u \in Tid, n \in Node : IBRUses(u, n)' => IBRUses(u, n)
        /\ \A u \in Tid : upper(u)' = upper(u)
    BY <2>3, IBRSameUses
  <2>5. \A u \in Tid : ~IBRPassed(t, u)' /\ ~Reading(t, u)'
    BY <2>3 DEF IBRPassed, Reading
  <2>6. IBRProtected'
    <3>1. SUFFICES ASSUME NEW u \in Tid, NEW n \in Node, IBRUses(u, n)'
                   PROVE  /\ n \notin pool
                          /\ birth[n] <= upper(u)
                          /\ \A v \in Tid :
                                /\ newNode[v] # n
                                /\ pc'[v] = "push" /\ obj'[v] = n => lower[u] <= e'[v]
                                /\ \A res \in retired'[v] : res.obj = n => lower[u] <= res.retire
      BY <1>4, <2>3, <2>4 DEF IBRProtected
    <3>2. IBRUses(u, n)
      BY <2>4, <3>1
    <3>3. \A v \in Tid : \A res \in retired'[v] : res \in retired[v] \/ (v = t /\ res = new)
      BY <2>1
    <3>4. new.obj = n => lower[u] <= new.retire
      <4>1. obj[t] = n => lower[u] <= e[t]
        BY <2>3, <3>2 DEF IBRSafe, IBRProtected
      <4>2. QED BY <2>2, <4>1
    <3>5. QED BY <2>3, <3>2, <3>3, <3>4 DEF IBRSafe, IBRProtected
  <2>7. IBRScanCovered'
    <3>1. SUFFICES ASSUME NEW u \in Tid, NEW res \in retired'[u], NEW v \in Tid,
                          IBRUses(v, res.obj)', IBRPassed(u, v)' \/ Reading(u, v)'
                   PROVE  /\ IBRPassed(u, v)' => \E interval \in scanned[u] : Meets(interval, res)
                          /\ Reading(u, v)' => low[u] <= res.retire
      BY <1>4, <2>3 DEF IBRScanCovered, Meets
    <3>2. u # t
      BY <2>5, <3>1
    <3>3. res \in retired[u] /\ IBRUses(v, res.obj)
      BY <2>1, <2>4, <3>1, <3>2, IBRRetiredTypes
    <3>4. (IBRPassed(u, v)' => IBRPassed(u, v)) /\ (Reading(u, v)' => Reading(u, v))
      BY <2>3, <3>2 DEF IBRPassed, Reading
    <3>5. QED BY <3>3, <3>4 DEF IBRSafe, IBRScanCovered
  <2>8. QED BY <2>6, <2>7 DEF IBRSafe
<1>5. ASSUME NEW t \in Tid, empty_scanLower(t) PROVE IBRSafe'
  <2>1. PICK w \in toScan[t] : /\ \A v \in toScan[t] : w <= v
                               /\ low' = [low EXCEPT ![t] = lower[w]]
    BY <1>5 DEF empty_scanLower
  <2>2. /\ UNCHANGED <<pool, epoch, birth, reservations, newNode, ret, ref, retired, obj, e, toScan,
                       scanned, lower>>
        /\ pc[t] = "scan" /\ pc' = [pc EXCEPT ![t] = "scanUpper"]
    BY <1>5 DEF empty_scanLower
  <2>3. /\ \A u \in Tid, n \in Node : IBRUses(u, n)' => IBRUses(u, n)
        /\ \A u \in Tid : upper(u)' = upper(u)
    BY <2>2, IBRSameUses DEF IBRTypeOK
  <2>4. IBRProtected'
    BY <2>2, <2>3 DEF IBRSafe, IBRProtected, IBRTypeOK
  <2>5. \A u, v \in Tid : IBRPassed(u, v)' => IBRPassed(u, v)
    BY <2>2 DEF IBRPassed, IBRTypeOK
  <2>6. \A u, v \in Tid : Reading(u, v)' =>
           (Reading(u, v) /\ low'[u] = low[u]) \/ (u = t /\ low'[u] = lower[v])
    <3>1. ASSUME NEW v \in Tid, Reading(t, v)' PROVE v = w
      <4>1. v \in toScan[t] /\ v <= w /\ w <= v
        BY <2>1, <2>2, <3>1 DEF Reading
      <4>2. v \in Nat /\ w \in Nat
        <5>1. \A x \in Tid : x \in Nat
          BY LinkedRecordsAssumption DEF Tid
        <5>2. v \in Tid /\ w \in Tid
          BY <2>1, <3>1 DEF IBRTypeOK
        <5>3. QED BY <5>1, <5>2
      <4>3. QED BY <4>1, <4>2
    <3>2. QED BY <2>1, <2>2, <3>1 DEF Reading, IBRTypeOK
  <2>7. IBRScanCovered'
    <3>1. SUFFICES ASSUME NEW u \in Tid, NEW res \in retired[u], NEW v \in Tid,
                          IBRUses(v, res.obj)'
                   PROVE  /\ IBRPassed(u, v)' => \E interval \in scanned[u] : Meets(interval, res)
                          /\ Reading(u, v)' => low'[u] <= res.retire
      BY <2>2 DEF IBRScanCovered, Meets
    <3>2. res.obj \in Node /\ IBRUses(v, res.obj)
      BY <2>3, <3>1, IBRRetiredTypes
    <3>3. lower[v] <= res.retire
      BY <3>2 DEF IBRSafe, IBRProtected
    <3>4. QED BY <2>5, <2>6, <3>2, <3>3 DEF IBRSafe, IBRScanCovered
  <2>8. QED BY <2>4, <2>7 DEF IBRSafe
<1>6. ASSUME NEW t \in Tid, empty_scanUpper(t) PROVE IBRSafe'
  <2>1. PICK w \in toScan[t] :
           /\ \A v \in toScan[t] : w <= v
           /\ scanned' = [scanned EXCEPT ![t] = @ \union {[lower |-> low[t], upper |-> upper(w)]}]
           /\ toScan' = [toScan EXCEPT ![t] = @ \ {w}]
           /\ pc' = [pc EXCEPT ![t] = IF toScan[t] = {w} THEN "sweep" ELSE "scan"]
    BY <1>6 DEF empty_scanUpper
  <2>2. /\ UNCHANGED <<pool, epoch, birth, reservations, newNode, ret, ref, retired, obj, e, lower>>
        /\ pc[t] = "scanUpper" /\ w \in Tid
        /\ \A u \in Tid : u # t => low'[u] = low[u]
    BY <1>6, <2>1 DEF empty_scanUpper, IBRTypeOK
  <2>3. \A u \in Tid : pc'[u] \in {"check", "push", "scanUpper"} => u # t /\ pc'[u] = pc[u]
    BY <2>1 DEF IBRTypeOK
  <2>4. /\ \A u \in Tid, n \in Node : IBRUses(u, n)' => IBRUses(u, n)
        /\ \A u \in Tid : upper(u)' = upper(u)
    BY <2>2, <2>3, IBRSameUses
  <2>5. IBRProtected'
    BY <2>2, <2>3, <2>4 DEF IBRSafe, IBRProtected
  <2> DEFINE new == [lower |-> low[t], upper |-> upper(w)]
  <2>6. Reading(t, w)
    BY <2>1, <2>2 DEF Reading
  <2>7. /\ \A u \in Tid : scanned[u] \subseteq scanned'[u]
        /\ new \in scanned'[t]
    BY <2>1 DEF IBRTypeOK
  <2>8. \A u, v \in Tid : IBRPassed(u, v)' => IBRPassed(u, v) \/ (u = t /\ v = w)
    BY <2>1, <2>2 DEF IBRPassed, IBRTypeOK
  <2>9. \A u, v \in Tid : Reading(u, v)' => Reading(u, v) /\ low'[u] = low[u]
    BY <2>1, <2>2, <2>3 DEF Reading, IBRTypeOK
  <2>10. ASSUME NEW res \in retired[t], IBRUses(w, res.obj) PROVE Meets(new, res)
    <3>1. low[t] <= res.retire
      BY <2>2, <2>6, <2>10 DEF IBRSafe, IBRScanCovered
    <3>2. res.obj \in Node /\ res.birth = birth[res.obj]
      BY IBRRetiredTypes DEF Stamped
    <3>3. birth[res.obj] <= upper(w)
      BY <2>2, <2>10, <3>2 DEF IBRSafe, IBRProtected
    <3>4. birth[res.obj] \in Nat /\ upper(w) \in Nat
      BY <2>2, <3>2, Comparable
    <3>5. QED BY <3>1, <3>2, <3>3, <3>4 DEF Meets
  <2> HIDE DEF new
  <2>11. IBRScanCovered'
    <3>1. SUFFICES ASSUME NEW u \in Tid, NEW res \in retired[u], NEW v \in Tid,
                          IBRUses(v, res.obj)'
                   PROVE  /\ IBRPassed(u, v)' => \E interval \in scanned'[u] : Meets(interval, res)
                          /\ Reading(u, v)' => low'[u] <= res.retire
      BY <2>2 DEF IBRScanCovered, Meets
    <3>2. res.obj \in Node /\ IBRUses(v, res.obj)
      BY <2>4, <3>1, IBRRetiredTypes
    <3>3. ASSUME IBRPassed(u, v) PROVE \E interval \in scanned'[u] : Meets(interval, res)
      BY <2>7, <3>2, <3>3 DEF IBRSafe, IBRScanCovered
    <3>4. ASSUME u = t, v = w PROVE \E interval \in scanned'[u] : Meets(interval, res)
      BY <2>7, <2>10, <3>2, <3>4
    <3>5. QED BY <2>8, <2>9, <3>2, <3>3, <3>4 DEF IBRSafe, IBRScanCovered
  <2>12. QED BY <2>5, <2>11 DEF IBRSafe
<1>7. ASSUME NEW t \in Tid, NEW res \in retired[t], ~ibr_conflict(t, res), empty_free(t, res),
             UNCHANGED <<lower, low>>
      PROVE  IBRSafe'
  <2>1. /\ pool' = pool \union {res.obj} /\ retired' = [retired EXCEPT ![t] = @ \ {res}]
        /\ pc[t] = "sweep"
        /\ UNCHANGED <<epoch, birth, reservations, newNode, ret, ref, obj, e, toScan, scanned>>
    BY <1>7 DEF empty_free, poolAdd
  <2>2. UNCHANGED pc
    BY <1>7 DEF empty_free, IBRTypeOK
  <2>3. /\ \A u \in Tid, n \in Node : IBRUses(u, n)' => IBRUses(u, n)
        /\ \A u \in Tid : upper(u)' = upper(u)
    BY <2>1, <2>2, IBRSameUses
  <2>4. \A u \in Tid : ~IBRUses(u, res.obj)
    BY <1>7, <2>1, IBRNoConflictNoUse
  <2>5. \A u \in Tid : retired'[u] \subseteq retired[u]
    BY <2>1 DEF IBRTypeOK
  <2>6. QED
    BY <1>0, <1>7, <2>1, <2>2, <2>3, <2>4, <2>5, IBRQuietStep
      DEF IBRPassed, Reading, IBRSafe, IBRProtected
<1>8. ASSUME NEW t \in Tid, empty_return(t), UNCHANGED <<lower, low>> PROVE IBRSafe'
  <2>1. UNCHANGED <<pool, epoch, birth, reservations, newNode, ret, ref, retired, obj, e, toScan>>
    BY <1>8 DEF empty_return
  <2>2. \A u \in Tid : pc'[u] # "op" => pc'[u] = pc[u] /\ scanned'[u] = scanned[u]
    BY <1>8 DEF empty_return, IBRTypeOK
  <2>3. /\ \A u \in Tid, n \in Node : IBRUses(u, n)' => IBRUses(u, n)
        /\ \A u \in Tid : upper(u)' = upper(u)
    BY <2>1, <2>2, IBRSameUses
  <2>4. QED BY <1>0, <1>8, <2>1, <2>2, <2>3, IBRQuietStep
    DEF IBRPassed, Reading, IBRSafe, IBRProtected
<1>9. QED
  BY SharedSafe, <1>1, <1>2, <1>3, <1>4, <1>5, <1>6, <1>7, <1>8 DEF IBRNext, ibr_retire

(* IInv holds in every reachable state. *)
THEOREM IBRInvariance == IBRSpec => []IBRIInv
<1>1. ASSUME IBRIInv, [IBRNext]_vars PROVE IBRIInv'
  <2>1. CASE IBRNext
    BY <1>1, <2>1, IBRNextTypeOK, IBRNextControl, IBRNextOnePlace, IBRNextStamped, IBRNextSafe
      DEF IBRIInv, IBRSafe
  <2>2. CASE UNCHANGED vars
    BY <1>1, <2>2
    DEF IBRIInv, vars, eraVars, IBRTypeOK, RecordsTypeOK, IBRControl, Locals, OneSlot, Announced,
        OnePlace,
        LinksDisjoint, CreatedDisjoint, RetiringDisjoint, RetiredDisjoint, Stamped, IBRProtected,
        IBRScanCovered, IBRUses, IBRReturning, IBRPassed, Reading, Meets, upper, UINT64_MAX
  <2>3. QED BY <1>1, <2>1, <2>2
<1>2. QED BY IBRInitIInv, <1>1, PTL DEF IBRSpec

(* The variables keep their types. *)
THEOREM IBRTypeCorrect == IBRSpec => []IBRTypeOK
BY IBRInvariance, PTL DEF IBRIInv

(* No record gets into two lists, or twice into one. *)
THEOREM IBRSinglePlace == IBRSpec => []OnePlace
BY IBRInvariance, PTL DEF IBRIInv

(* Whoever holds a record uses it under its one slot. *)
LEMMA IBRHeldIsUsed ==
  ASSUME IBRTypeOK, IBRControl, NEW t \in Tid, NEW n \in held[t]
  PROVE  n \in Node /\ IBRUses(t, n)
<1>1. CASE n \in current(t)
  BY <1>1 DEF current, IBRUses, IBRReturning, IBRTypeOK, Pointer, IBRControl, Locals, upper
<1>2. CASE n \in UNION {ref[s] : s \in slotsOf(t)}
  <2>1. PICK s \in slotsOf(t) : n \in ref[s]
    BY <1>2
  <2>2. s = <<t, 1>> /\ s \in Slot
    BY <2>1, SlotOwner DEF IBRControl, OneSlot
  <2>3. QED BY <2>1, <2>2 DEF IBRUses, IBRTypeOK
<1>3. QED BY <1>1, <1>2 DEF held

(* pool->add frees no record that the interval of an operation protects. *)
THEOREM IBRSafety == IBRSpec => []NoUseAfterFree
<1>1. IBRTypeOK /\ IBRControl /\ IBRProtected => NoUseAfterFree
  BY IBRHeldIsUsed DEF NoUseAfterFree, IBRProtected
<1>2. QED BY <1>1, IBRInvariance, PTL DEF IBRIInv

(* The interval argument: the announced interval meets the life of every   *)
(* record the operation has a pointer to.                                  *)
THEOREM IntervalsCovered == IBRSpec => []IBRCovered
<1>1. IBRTypeOK /\ IBRProtected => IBRCovered
  BY OwnSlot DEF IBRCovered, IBRProtected, IBRUses, IBRTypeOK
<1>2. QED BY <1>1, IBRInvariance, PTL DEF IBRIInv

-------------------------------------------------------------------------------
(* IntervalReclaimer implements SafeReclamation: each step of the code is  *)
(* a step of the contract or stutters there.                               *)
LEMMA IBRRefinementStep ==
  ASSUME IBRIInv, [IBRNext]_vars
  PROVE  [Contract!Next]_(Contract!vars)
<1> USE DEF IBRIInv, goto, records, reclaimer, reading, retiring, emptying
<1>0. EraTypes /\ EraTypes' /\ EraControl
  <2>1. IBRTypeOK'
    BY IBRNextTypeOK DEF vars, eraVars, IBRTypeOK, RecordsTypeOK
  <2>2. EraTypes'
    BY <2>1 DEF IBRTypeOK, EraTypes
  <2>3. QED BY <2>2, IBRSchemeTypes
<1>1. ASSUME NEW t \in Tid, shared(t) PROVE Contract!Next \/ UNCHANGED Contract!vars
  BY <1>0, <1>1, SharedStep
<1>2. ASSUME NEW t \in Tid,
             \/ empty_scanLower(t) \/ empty_scanUpper(t) \/ empty_return(t)
             \/ startOp_load(t) \/ startOp_lower(t) \/ endOp_lower(t)
      PROVE  UNCHANGED Contract!vars
  <2>1. UNCHANGED <<pool, cell, newNode, retired, epoch, reservations, idx, ret, ref>>
    BY <1>2
    DEF empty_scanLower, empty_scanUpper, empty_return, startOp_load, startOp_lower, endOp_lower
  <2>2. \A u \in Tid : pc'[u] = "check" <=> pc[u] = "check"
    BY <1>2
    DEF empty_scanLower, empty_scanUpper, empty_return, startOp_load, startOp_lower, endOp_lower,
        IBRTypeOK
  <2>3. QED BY <2>1, <2>2, SameStatus, SameReads, SameHeld DEF Contract!vars
<1>3. ASSUME NEW t \in Tid, ibr_client(t) PROVE UNCHANGED Contract!vars
  <2>1. PICK c \in Cell : read_call(t, <<t, 1>>, c, ref[<<t, 1>>])
    BY <1>3 DEF ibr_client
  <2>2. UNCHANGED <<pool, cell, newNode, retired, ref>>
    BY <2>1 DEF read_call, IBRTypeOK
  <2>3. \A u \in Tid : current(u)' = current(u)
    BY <2>1 DEF read_call, current, IBRTypeOK
  <2>4. QED BY <2>2, <2>3, SameStatus, SameHeld DEF Contract!vars
<1>4. ASSUME NEW t \in Tid, startOp_upper(t) \/ endOp_upper(t) PROVE Contract!Next
  <2>1. UNCHANGED status
    BY <1>4, SameStatus DEF startOp_upper, endOp_upper
  <2>2. \A u \in Tid : current(u)' = current(u)
    <3>1. \A u \in Tid : pc[u] = "check" => u # t /\ idx[u] \in Slot /\ idx[u] # <<t, 1>>
      BY <1>4, SlotOwner, OwnSlot DEF startOp_upper, endOp_upper, IBRControl, Locals
    <3>2. \A u \in Tid : pc'[u] = "check" <=> pc[u] = "check"
      BY <1>4 DEF startOp_upper, endOp_upper, IBRTypeOK
    <3>3. \A s \in Slot : s # <<t, 1>> => reservations'[s] = reservations[s]
      BY <1>4 DEF startOp_upper, endOp_upper, setUpper, IBRTypeOK
    <3>4. UNCHANGED <<epoch, idx, ret>>
      BY <1>4 DEF startOp_upper, endOp_upper
    <3>5. QED BY <3>1, <3>2, <3>3, <3>4 DEF current
  <2>3. \A u \in Tid : \A s \in slotsOf(u) : ref'[s] \subseteq ref[s]
    BY <1>4, SlotOwner, ZenonT(60) DEF startOp_upper, endOp_upper, IBRTypeOK
  <2>4. \A u \in Tid : held'[u] \subseteq held[u]
    BY <2>2, <2>3 DEF held
  <2>5. QED BY <1>0, <2>1, <2>4, DropStep
<1>5. ASSUME NEW t \in Tid, retire_push(t, Tid) PROVE Contract!Next
  BY <1>0, <1>5, PushStep
<1>6. ASSUME NEW t \in Tid, NEW res \in retired[t], ~ibr_conflict(t, res), empty_free(t, res)
       PROVE  Contract!Next
  <2>1. \A u \in Tid : res.obj \notin held[u]
    BY <1>6, IBRNoConflictNoUse, IBRHeldIsUsed DEF empty_free, IBRSafe
  <2>2. QED BY <1>0, <1>6, <2>1, FreeStep
<1>7. CASE UNCHANGED vars
  <2>1. UNCHANGED <<pool, cell, newNode, retired, epoch, reservations, idx, ret, ref, pc>>
    BY <1>7 DEF vars, eraVars
  <2>2. QED BY <2>1, SameStatus, SameReads, SameHeld DEF Contract!vars
<1>8. QED
  BY <1>1, <1>2, <1>3, <1>4, <1>5, <1>6, <1>7 DEF IBRNext, ibr_retire

(* Intervals keep the promise: a record is freed when nobody holds it. *)
THEOREM IBRRefinement == IBRSpec => Reclamation
<1>1. IBRInit => Contract!Init
  BY LinkedRecordsAssumption, SlotOwner
  DEF IBRInit, EraInit, RecordsInit, Contract!Init, status, held, current
<1>2. QED BY <1>1, IBRRefinementStep, IBRInvariance, PTL DEF IBRSpec, Reclamation, Contract!Spec
================================================================================
