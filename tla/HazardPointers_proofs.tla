------------------------ MODULE HazardPointers_proofs ------------------------
(***************************************************************************)
(* HazardPointers frees no record that a validated hazard pointer names,   *)
(* and keeps every list bounded, for any number of threads, slots and      *)
(* records and any frequency.                                              *)
(*                                                                         *)
(* NoUseAfterFree rests on a scan that took many steps while slots         *)
(* changed.  IInv adds what is true in between: what a client uses is what *)
(* its slot publishes (Published), a record is in one place (OnePlace), so *)
(* that nothing retired is validated anew, and a slot that names a record  *)
(* of the list being emptied was copied if the scan has passed it          *)
(* (ScanCovered).                                                          *)
(***************************************************************************)
EXTENDS HazardPointers, FiniteSetTheorems, TLAPS

(* The locals are alive exactly where the code uses them, and read works   *)
(* on a slot of its thread that protects nothing meanwhile.                *)
Control ==
    \A t \in Tid :
        /\ pc[t] = "retire" <=> obj[t] # NULL
        /\ pc[t] # "scan" => i[t] = 0
        /\ pc[t] \notin {"scan", "sweep"} => scanned[t] = {}
        /\ pc[t] \in {"scan", "sweep"} => cntrs[t] = 0
        /\ pc[t] \in {"load", "reserve", "validate"} =>
              src[t] \in Cell /\ idx[t] \in slotsOf(t) /\ ref[idx[t]] = NULL
        /\ pc[t] = "validate" => slots[idx[t]] = ret[t]

(* What a client uses is what its slot publishes. *)
Published == \A s \in Slot : ref[s] # NULL => slots[s] = ref[s]

(* A record is linked once, or being retired by one thread, or in one      *)
(* list, or free.                                                          *)
LinksDisjoint ==
    \A c \in Cell : cell[c] # NULL =>
        cell[c] \notin pool /\ \A d \in Cell : cell[d] = cell[c] => d = c

RetiringDisjoint ==
    \A t \in Tid : obj[t] # NULL =>
        /\ obj[t] \notin pool
        /\ \A c \in Cell : cell[c] # obj[t]
        /\ \A u \in Tid : obj[t] \notin retired[u] /\ (obj[u] = obj[t] => u = t)

RetiredDisjoint ==
    \A t \in Tid : \A n \in retired[t] :
        /\ n \notin pool
        /\ \A c \in Cell : cell[c] # n
        /\ \A u \in Tid : n \in retired[u] => u = t

OnePlace == LinksDisjoint /\ RetiringDisjoint /\ RetiredDisjoint

(* A scan has the slots it has passed.  *)
Passed(u, s) == pc[u] = "sweep" \/ (pc[u] = "scan" /\ s < i[u])

ScanCovered ==
    \A u \in Tid, s \in Slot : Passed(u, s) /\ ref[s] \in retired[u] => ref[s] \in scanned[u]

Safe == TypeOK /\ Control /\ Published /\ OnePlace /\ NoUseAfterFree /\ ScanCovered

(* What a list holds besides the period's retires was named by a slot, and *)
(* the counter starts a period at 1, having been incremented after empty.  *)
Counted ==
    \A t \in Tid :
        /\ IsFiniteSet(retired[t]) /\ IsFiniteSet(scanned[t])
        /\ pc[t] \notin {"scan", "sweep"} =>
              Cardinality(retired[t]) <= NumSlots + cntrs[t] - 1
        /\ pc[t] \in {"scan", "sweep"} =>
              Cardinality(retired[t]) <= NumSlots + EmptyFreq
        /\ pc[t] = "scan" => Cardinality(scanned[t]) <= i[t]
        /\ pc[t] = "sweep" => Cardinality(scanned[t]) <= NumSlots

IInv == Safe /\ Counted

-------------------------------------------------------------------------------
(* The slots of different threads do not overlap: a thread's range ends    *)
(* where the next one begins.                                              *)
LEMMA Multiples ==
  ASSUME NEW a \in Nat, NEW b \in Nat, NEW m \in Nat, a < b
  PROVE  a * m + m <= b * m
<1> DEFINE d == b - a - 1
<1>1. d \in Nat /\ b = a + 1 + d
  OBVIOUS
<1> HIDE DEF d
<1>2. b * m = (a + 1 + d) * m
  BY <1>1
<1>3. (a + 1 + d) * m = a * m + m + d * m
  BY <1>1
<1>4. d * m \in Nat /\ a * m \in Nat
  BY <1>1
<1>5. QED BY <1>1, <1>2, <1>3, <1>4

(* Each slot has one owner. *)
LEMMA OneOwner ==
  ASSUME NEW t \in Tid, NEW u \in Tid, NEW s \in slotsOf(t), s \in slotsOf(u)
  PROVE  t = u
<1>1. PICK k \in 0 .. SlotsPerThread - 1 : s = t * SlotsPerThread + k
  BY DEF slotsOf
<1>2. PICK j \in 0 .. SlotsPerThread - 1 : s = u * SlotsPerThread + j
  BY DEF slotsOf
<1> DEFINE x == t * SlotsPerThread
           y == u * SlotsPerThread
<1>3. t \in Nat /\ u \in Nat /\ SlotsPerThread \in Nat
  BY HazardPointersAssumption, LinkedRecordsAssumption DEF Tid
<1>4. x \in Nat /\ y \in Nat
  BY <1>3
<1>5. (t < u => x + SlotsPerThread <= y) /\ (u < t => y + SlotsPerThread <= x)
  BY <1>3, Multiples
<1> HIDE DEF x, y
<1>6. s = x + k /\ s = y + j
  BY <1>1, <1>2 DEF x, y
<1>7. QED BY <1>1, <1>2, <1>3, <1>4, <1>5, <1>6

(* There is a slot, for a scan to start with. *)
LEMMA SlotsPositive == NumSlots \in Nat \ {0}
<1>1. NumProcess \in Nat /\ SlotsPerThread \in Nat /\ 0 < NumProcess /\ 0 < SlotsPerThread
  BY HazardPointersAssumption, LinkedRecordsAssumption
<1>2. 0 * SlotsPerThread + SlotsPerThread <= NumProcess * SlotsPerThread
  BY <1>1, Multiples
<1>3. 0 * SlotsPerThread = 0 /\ NumProcess * SlotsPerThread \in Nat
  BY <1>1
<1>4. QED BY <1>1, <1>2, <1>3 DEF NumSlots

(* The invariant holds at first: all slots and lists are empty. *)
THEOREM InitIInv == Init => IInv
<1> SUFFICES ASSUME Init PROVE IInv
  OBVIOUS
<1> USE HazardPointersAssumption, LinkedRecordsAssumption, SlotsPositive DEF Init, RecordsInit
<1>1. TypeOK
  BY DEF TypeOK, RecordsTypeOK, Slot, Pointer
<1>2. Control /\ Published /\ NoUseAfterFree /\ ScanCovered
  BY DEF Control, Published, NoUseAfterFree, ScanCovered, Passed
<1>3. OnePlace
  BY DEF OnePlace, LinksDisjoint, RetiringDisjoint, RetiredDisjoint
<1>4. Counted
  BY FS_EmptySet DEF Counted
<1>5. QED BY <1>1, <1>2, <1>3, <1>4 DEF IInv, Safe

(* Each action keeps the types, *)
LEMMA NextTypeOK ==
  ASSUME TypeOK, Control, Next
  PROVE  TypeOK'
<1> USE DEF goto, records, reclaimer, reading, emptying, TypeOK, RecordsTypeOK, Pointer
<1>1. ASSUME NEW t \in Tid, endOp(t) PROVE TypeOK'
  BY <1>1 DEF endOp
<1>2. ASSUME NEW t \in Tid, read_load(t) PROVE TypeOK'
  BY <1>2 DEF read_load, Control
<1>3. ASSUME NEW t \in Tid, reserve(t) PROVE TypeOK'
  BY <1>3 DEF reserve
<1>4. ASSUME NEW t \in Tid, read_validate(t) PROVE TypeOK'
  BY <1>4 DEF read_validate
<1>5. ASSUME NEW t \in Tid, NEW c \in Cell, insert(t, c) PROVE TypeOK'
  BY <1>5 DEF insert, link
<1>6. ASSUME NEW t \in Tid, NEW c \in Cell, erase(t, c) PROVE TypeOK'
  BY <1>6 DEF erase, unlink
<1>7. ASSUME NEW t \in Tid, NEW c \in Cell, NEW s \in slotsOf(t), read_call(t, s, c) PROVE TypeOK'
  BY <1>7 DEF read_call, slotsOf
<1>8. ASSUME NEW t \in Tid, retire_push(t) PROVE TypeOK'
  BY <1>8, HazardPointersAssumption DEF retire_push, Control
<1>9. ASSUME NEW t \in Tid, empty_scan(t) PROVE TypeOK'
  <2>1. i' \in [Tid -> Slot]
    <3>1. i[t] + 1 < NumSlots => i[t] + 1 \in Slot
      BY SlotsPositive DEF Slot
    <3>2. 0 \in Slot
      BY SlotsPositive DEF Slot
    <3>3. QED BY <1>9, <3>1, <3>2 DEF empty_scan
  <2>2. QED BY <1>9, <2>1 DEF empty_scan
<1>10. ASSUME NEW t \in Tid, empty_free(t) PROVE TypeOK'
  BY <1>10 DEF empty_free, poolAdd
<1>11. ASSUME NEW t \in Tid, empty_return(t) PROVE TypeOK'
  BY <1>11, HazardPointersAssumption DEF empty_return, Control
<1>12. QED
  BY <1>1, <1>2, <1>3, <1>4, <1>5, <1>6, <1>7, <1>8, <1>9, <1>10, <1>11
  DEF Next, client, retire

(* the use of the locals, *)
LEMMA NextControl ==
  ASSUME TypeOK, Control, Next
  PROVE  Control'
<1> USE DEF goto, records, reclaimer, reading, emptying, TypeOK, Control
<1>1. ASSUME NEW t \in Tid, endOp(t) PROVE Control'
  BY <1>1, OneOwner DEF endOp
<1>2. ASSUME NEW t \in Tid, read_load(t) PROVE Control'
  BY <1>2 DEF read_load
<1>3. ASSUME NEW t \in Tid, reserve(t) PROVE Control'
  BY <1>3, OneOwner DEF reserve
<1>4. ASSUME NEW t \in Tid, read_validate(t) PROVE Control'
  BY <1>4, OneOwner DEF read_validate
<1>5. ASSUME NEW t \in Tid, NEW c \in Cell, insert(t, c) PROVE Control'
  BY <1>5 DEF insert
<1>6. ASSUME NEW t \in Tid, NEW c \in Cell, erase(t, c) PROVE Control'
  BY <1>6, LinkedRecordsAssumption DEF erase, unlink
<1>7. ASSUME NEW t \in Tid, NEW c \in Cell, NEW s \in slotsOf(t), read_call(t, s, c) PROVE Control'
  BY <1>7, OneOwner DEF read_call, slotsOf
<1>8. ASSUME NEW t \in Tid, retire_push(t) PROVE Control'
  BY <1>8 DEF retire_push
<1>9. ASSUME NEW t \in Tid, empty_scan(t) PROVE Control'
  BY <1>9 DEF empty_scan
<1>10. ASSUME NEW t \in Tid, empty_free(t) PROVE Control'
  BY <1>10 DEF empty_free
<1>11. ASSUME NEW t \in Tid, empty_return(t) PROVE Control'
  BY <1>11 DEF empty_return
<1>12. QED
  BY <1>1, <1>2, <1>3, <1>4, <1>5, <1>6, <1>7, <1>8, <1>9, <1>10, <1>11
  DEF Next, client, retire

(* what the slots publish, *)
LEMMA NextPublished ==
  ASSUME TypeOK, Control, Published, Next
  PROVE  Published'
<1> USE DEF goto, records, reclaimer, reading, emptying, TypeOK, Published
<1>1. ASSUME NEW t \in Tid, endOp(t) PROVE Published'
  BY <1>1 DEF endOp
<1>2. ASSUME NEW t \in Tid, read_load(t) PROVE Published'
  BY <1>2 DEF read_load
<1>3. ASSUME NEW t \in Tid, reserve(t) PROVE Published'
  BY <1>3 DEF reserve, Control
<1>4. ASSUME NEW t \in Tid, read_validate(t) PROVE Published'
  BY <1>4 DEF read_validate, Control
<1>5. ASSUME NEW t \in Tid, NEW c \in Cell, insert(t, c) PROVE Published'
  BY <1>5 DEF insert
<1>6. ASSUME NEW t \in Tid, NEW c \in Cell, erase(t, c) PROVE Published'
  BY <1>6 DEF erase
<1>7. ASSUME NEW t \in Tid, NEW c \in Cell, NEW s \in slotsOf(t), read_call(t, s, c) PROVE Published'
  BY <1>7 DEF read_call
<1>8. ASSUME NEW t \in Tid, retire_push(t) PROVE Published'
  BY <1>8 DEF retire_push
<1>9. ASSUME NEW t \in Tid, empty_scan(t) PROVE Published'
  BY <1>9 DEF empty_scan
<1>10. ASSUME NEW t \in Tid, empty_free(t) PROVE Published'
  BY <1>10 DEF empty_free
<1>11. ASSUME NEW t \in Tid, empty_return(t) PROVE Published'
  BY <1>11 DEF empty_return
<1>12. QED
  BY <1>1, <1>2, <1>3, <1>4, <1>5, <1>6, <1>7, <1>8, <1>9, <1>10, <1>11
  DEF Next, client, retire

(* the place of each record, *)
LEMMA NextOnePlace ==
  ASSUME TypeOK, Control, OnePlace, Next
  PROVE  OnePlace'
<1> USE DEF goto, records, reclaimer, reading, emptying, OnePlace, LinksDisjoint,
            RetiringDisjoint, RetiredDisjoint
<1>1. ASSUME NEW t \in Tid, endOp(t) PROVE OnePlace'
  BY <1>1 DEF endOp
<1>2. ASSUME NEW t \in Tid, read_load(t) PROVE OnePlace'
  BY <1>2 DEF read_load
<1>3. ASSUME NEW t \in Tid, reserve(t) PROVE OnePlace'
  BY <1>3 DEF reserve
<1>4. ASSUME NEW t \in Tid, read_validate(t) PROVE OnePlace'
  BY <1>4 DEF read_validate
<1>5. ASSUME NEW t \in Tid, NEW c \in Cell, insert(t, c) PROVE OnePlace'
  BY <1>5, LinkedRecordsAssumption DEF insert, link, TypeOK, RecordsTypeOK
<1>6. ASSUME NEW t \in Tid, NEW c \in Cell, erase(t, c) PROVE OnePlace'
  BY <1>6, LinkedRecordsAssumption DEF erase, unlink, TypeOK, RecordsTypeOK
<1>7. ASSUME NEW t \in Tid, NEW c \in Cell, NEW s \in slotsOf(t), read_call(t, s, c) PROVE OnePlace'
  BY <1>7 DEF read_call
<1>8. ASSUME NEW t \in Tid, retire_push(t) PROVE OnePlace'
  BY <1>8, LinkedRecordsAssumption DEF retire_push, Control, TypeOK
<1>9. ASSUME NEW t \in Tid, empty_scan(t) PROVE OnePlace'
  BY <1>9 DEF empty_scan
<1>10. ASSUME NEW t \in Tid, empty_free(t) PROVE OnePlace'
  BY <1>10 DEF empty_free, poolAdd, TypeOK
<1>11. ASSUME NEW t \in Tid, empty_return(t) PROVE OnePlace'
  BY <1>11 DEF empty_return
<1>12. QED
  BY <1>1, <1>2, <1>3, <1>4, <1>5, <1>6, <1>7, <1>8, <1>9, <1>10, <1>11
  DEF Next, client, retire

(* What a scan knows, and what may be freed after it. *)
Covered == NoUseAfterFree /\ ScanCovered

(* and frees no record in use, however the slots change during a scan. *)
LEMMA NextCovered ==
  ASSUME TypeOK, Control, Published, OnePlace, Covered, Next
  PROVE  Covered'
<1> USE DEF goto, records, reclaimer, reading, emptying, Covered, NoUseAfterFree,
            ScanCovered, Passed
<1>1. ASSUME NEW t \in Tid, endOp(t) PROVE Covered'
  BY <1>1, LinkedRecordsAssumption DEF endOp, TypeOK, RecordsTypeOK
<1>2. ASSUME NEW t \in Tid, read_load(t) PROVE Covered'
  BY <1>2 DEF read_load, TypeOK
<1>3. ASSUME NEW t \in Tid, reserve(t) PROVE Covered'
  BY <1>3 DEF reserve, TypeOK
<1>4. ASSUME NEW t \in Tid, read_validate(t) PROVE Covered'
  <2>1. CASE cell[src[t]] = ret[t]
    <3>1. ret[t] \notin pool /\ \A u \in Tid : ret[t] \notin retired[u]
      BY <1>4, <2>1, LinkedRecordsAssumption
      DEF read_validate, Control, OnePlace, LinksDisjoint, RetiredDisjoint, TypeOK, RecordsTypeOK
    <3>2. /\ ref' = [ref EXCEPT ![idx[t]] = ret[t]]
          /\ \A u \in Tid : pc'[u] \in {"scan", "sweep"} => pc'[u] = pc[u]
          /\ UNCHANGED <<pool, retired, i, scanned>>
      BY <1>4, <2>1 DEF read_validate, TypeOK
    <3>3. QED BY <3>1, <3>2 DEF TypeOK
  <2>2. CASE cell[src[t]] # ret[t]
    BY <1>4, <2>2 DEF read_validate, TypeOK
  <2>3. QED BY <2>1, <2>2
<1>5. ASSUME NEW t \in Tid, NEW c \in Cell, insert(t, c) PROVE Covered'
  BY <1>5 DEF insert, link
<1>6. ASSUME NEW t \in Tid, NEW c \in Cell, erase(t, c) PROVE Covered'
  BY <1>6 DEF erase, unlink, TypeOK
<1>7. ASSUME NEW t \in Tid, NEW c \in Cell, NEW s \in slotsOf(t), read_call(t, s, c)
      PROVE  Covered'
  BY <1>7, LinkedRecordsAssumption DEF read_call, TypeOK, RecordsTypeOK
<1>8. ASSUME NEW t \in Tid, retire_push(t) PROVE Covered'
  <2>1. i[t] = 0 /\ \A s \in Slot : s \in Nat
    BY <1>8 DEF retire_push, Control, Slot
  <2>2. QED BY <1>8, <2>1 DEF retire_push, TypeOK
<1>9. ASSUME NEW t \in Tid, empty_scan(t) PROVE Covered'
  <2>1. NoUseAfterFree'
    BY <1>9 DEF empty_scan
  <2>2. ASSUME NEW u \in Tid, NEW s \in Slot, Passed(u, s)', ref'[s] \in retired'[u]
        PROVE  ref'[s] \in scanned'[u]
    <3>1. ref' = ref /\ retired' = retired /\ ref[s] \in retired[u]
      BY <1>9, <2>2 DEF empty_scan
    <3>2. CASE u # t
      BY <1>9, <2>2, <3>1, <3>2 DEF empty_scan, TypeOK
    <3>3. CASE u = t
      <4>1. scanned'[t] = scanned[t] \union ({slots[i[t]]} \ {NULL})
        BY <1>9 DEF empty_scan, TypeOK
      <4>2. CASE s = i[t]
        <5>1. ref[s] # NULL
          BY <3>1, LinkedRecordsAssumption DEF TypeOK
        <5>2. QED BY <3>1, <3>3, <4>1, <4>2, <5>1 DEF Published
      <4>3. CASE s # i[t]
        <5>1. s \in 0 .. NumSlots - 1 /\ i[t] \in 0 .. NumSlots - 1 /\ NumSlots \in Nat
          BY SlotsPositive DEF TypeOK, Slot
        <5>2. Passed(t, s)
          <6>1. CASE i[t] + 1 < NumSlots
            <7>1. pc[t] = "scan" /\ pc'[t] = "scan" /\ i'[t] = i[t] + 1
              BY <1>9, <6>1 DEF empty_scan, TypeOK
            <7>2. QED BY <2>2, <3>3, <4>3, <5>1, <7>1
          <6>2. CASE ~(i[t] + 1 < NumSlots)
            BY <1>9, <4>3, <5>1, <6>2 DEF empty_scan
          <6>3. QED BY <6>1, <6>2
        <5>3. QED BY <3>1, <3>3, <4>1, <5>2
      <4>4. QED BY <4>2, <4>3
    <3>4. QED BY <3>2, <3>3
  <2>3. QED BY <2>1, <2>2
<1>10. ASSUME NEW t \in Tid, empty_free(t) PROVE Covered'
  <2>1. PICK n \in retired[t] :
           /\ n \notin scanned[t]
           /\ retired' = [retired EXCEPT ![t] = @ \ {n}]
           /\ pool' = pool \union {n}
    BY <1>10 DEF empty_free, conflict, poolAdd
  <2>2. \A s \in Slot : ref[s] # n
    BY <1>10, <2>1 DEF empty_free
  <2>3. NoUseAfterFree'
    BY <1>10, <2>1, <2>2 DEF empty_free
  <2>4. ScanCovered'
    BY <1>10, <2>1 DEF empty_free, TypeOK
  <2>5. QED BY <2>3, <2>4
<1>11. ASSUME NEW t \in Tid, empty_return(t) PROVE Covered'
  BY <1>11 DEF empty_return, TypeOK
<1>12. QED
  BY <1>1, <1>2, <1>3, <1>4, <1>5, <1>6, <1>7, <1>8, <1>9, <1>10, <1>11
  DEF Next, client, retire

(* A list grows by one a retire, and shrinks to what the slots named. *)
LEMMA AtMostOneMore ==
  ASSUME NEW S, IsFiniteSet(S), NEW x, NEW T, T = S \/ T = S \union {x}
  PROVE  IsFiniteSet(T) /\ Cardinality(T) <= Cardinality(S) + 1
<1>1. Cardinality(S) \in Nat
  BY FS_CardinalityType
<1>2. /\ IsFiniteSet(S \union {x})
      /\ Cardinality(S \union {x}) = IF x \in S THEN Cardinality(S) ELSE Cardinality(S) + 1
  BY FS_AddElement
<1>3. CASE T = S
  <2>1. Cardinality(S) <= Cardinality(S) + 1
    BY <1>1
  <2>2. QED BY <1>3, <2>1, Zenon
<1>4. CASE T = S \union {x}
  <2>1. Cardinality(S \union {x}) <= Cardinality(S) + 1
    BY <1>1, <1>2
  <2>2. QED BY <1>2, <1>4, <2>1, Zenon
<1>5. QED BY <1>3, <1>4

(* The bounds of the lists are kept, from period to period. *)
LEMMA NextCounted ==
  ASSUME TypeOK, Control, Counted, Next
  PROVE  Counted'
<1> USE DEF goto, records, reclaimer, reading, emptying
<1>1. ASSUME NEW t \in Tid, client(t) PROVE Counted'
  <2>1. /\ UNCHANGED <<retired, scanned, cntrs, i>>
        /\ \A u \in Tid : pc[u] \in {"scan", "sweep"} \/ pc'[u] \in {"scan", "sweep"}
                            => pc'[u] = pc[u]
    BY <1>1 DEF client, endOp, read_call, read_load, reserve, read_validate, insert, erase,
                TypeOK
  <2>2. QED BY <2>1 DEF Counted
<1>2. ASSUME NEW t \in Tid, retire_push(t) PROVE Counted'
  <2> DEFINE R == retired[t] \union {obj[t]}
  <2>1. IsFiniteSet(R) /\ Cardinality(R) <= Cardinality(retired[t]) + 1
    BY AtMostOneMore DEF Counted
  <2>2. Cardinality(retired[t]) <= NumSlots + cntrs[t] - 1
    BY <1>2 DEF retire_push, Counted
  <2>3. /\ Cardinality(R) \in Nat /\ Cardinality(retired[t]) \in Nat
        /\ NumSlots \in Nat /\ cntrs[t] \in Nat /\ EmptyFreq \in Nat
    BY <2>1, FS_CardinalityType, SlotsPositive, HazardPointersAssumption DEF TypeOK, Counted
  <2>4. Cardinality(R) <= NumSlots + cntrs[t]
    BY <2>1, <2>2, <2>3
  <2>5. retired' = [retired EXCEPT ![t] = R] /\ UNCHANGED <<scanned, i>>
    BY <1>2 DEF retire_push
  <2> HIDE DEF R
  <2>6. Cardinality(scanned[t]) = 0 /\ i[t] = 0
    BY <1>2, FS_EmptySet DEF retire_push, Control, Counted
  <2>7. CASE cntrs[t] = EmptyFreq
    <3>1. /\ pc' = [pc EXCEPT ![t] = "scan"] /\ cntrs' = [cntrs EXCEPT ![t] = 0]
          /\ Cardinality(R) <= NumSlots + EmptyFreq
      BY <1>2, <2>4, <2>7 DEF retire_push
    <3>2. QED BY <2>1, <2>5, <2>6, <3>1 DEF Counted, TypeOK
  <2>8. CASE cntrs[t] # EmptyFreq
    <3>1. /\ pc' = [pc EXCEPT ![t] = "op"] /\ cntrs' = [cntrs EXCEPT ![t] = cntrs[t] + 1]
      BY <1>2, <2>8 DEF retire_push
    <3>2. Cardinality(R) <= NumSlots + (cntrs[t] + 1) - 1
      BY <2>3, <2>4
    <3>3. QED BY <2>1, <2>5, <3>1, <3>2 DEF Counted, TypeOK
  <2>9. QED BY <2>7, <2>8
<1>3. ASSUME NEW t \in Tid, empty_scan(t) PROVE Counted'
  <2> DEFINE S == scanned[t] \union ({slots[i[t]]} \ {NULL})
  <2>1. IsFiniteSet(S) /\ Cardinality(S) <= Cardinality(scanned[t]) + 1
    <3>1. S = scanned[t] \/ S = scanned[t] \union {slots[i[t]]}
      OBVIOUS
    <3>2. IsFiniteSet(scanned[t])
      BY DEF Counted
    <3> HIDE DEF S
    <3>3. QED BY <3>1, <3>2, AtMostOneMore
  <2>2. /\ Cardinality(S) \in Nat /\ Cardinality(scanned[t]) \in Nat
        /\ NumSlots \in Nat /\ i[t] \in 0 .. NumSlots - 1
    BY <2>1, FS_CardinalityType, SlotsPositive DEF TypeOK, Counted, Slot
  <2>3. pc[t] = "scan" /\ Cardinality(scanned[t]) <= i[t]
    BY <1>3 DEF empty_scan, Counted
  <2>4. scanned' = [scanned EXCEPT ![t] = S] /\ UNCHANGED <<retired, cntrs>>
    BY <1>3 DEF empty_scan
  <2> HIDE DEF S
  <2>5. Cardinality(S) <= i[t] + 1
    BY <2>1, <2>2, <2>3
  <2>6. CASE i[t] + 1 < NumSlots
    <3>1. pc' = pc /\ i' = [i EXCEPT ![t] = i[t] + 1]
      BY <1>3, <2>6 DEF empty_scan
    <3>2. QED BY <2>1, <2>2, <2>3, <2>4, <2>5, <3>1 DEF Counted, TypeOK
  <2>7. CASE ~(i[t] + 1 < NumSlots)
    <3>1. pc' = [pc EXCEPT ![t] = "sweep"] /\ i' = [i EXCEPT ![t] = 0]
      BY <1>3, <2>7 DEF empty_scan
    <3>2. Cardinality(S) <= NumSlots
      BY <2>2, <2>5
    <3>3. QED BY <2>1, <2>3, <2>4, <3>1, <3>2 DEF Counted, TypeOK
  <2>8. QED BY <2>6, <2>7
<1>4. ASSUME NEW t \in Tid, empty_free(t) PROVE Counted'
  <2>1. PICK n \in retired[t] : retired' = [retired EXCEPT ![t] = @ \ {n}]
    BY <1>4 DEF empty_free
  <2>2. UNCHANGED <<scanned, cntrs, pc, i>> /\ pc[t] = "sweep"
    BY <1>4 DEF empty_free
  <2>3. IsFiniteSet(retired[t])
    BY DEF Counted
  <2>4. /\ IsFiniteSet(retired[t] \ {n})
        /\ Cardinality(retired[t] \ {n}) <= Cardinality(retired[t])
    BY <2>3, FS_Subset
  <2>5. /\ Cardinality(retired[t] \ {n}) \in Nat /\ Cardinality(retired[t]) \in Nat
        /\ NumSlots \in Nat /\ EmptyFreq \in Nat
    BY <2>3, <2>4, FS_CardinalityType, SlotsPositive, HazardPointersAssumption
  <2>6. QED BY <2>1, <2>2, <2>4, <2>5 DEF Counted, TypeOK
<1>5. ASSUME NEW t \in Tid, empty_return(t) PROVE Counted'
  <2>1. retired[t] \subseteq scanned[t] /\ IsFiniteSet(scanned[t])
    BY <1>5 DEF empty_return, conflict, Counted
  <2>2. Cardinality(retired[t]) <= Cardinality(scanned[t])
    BY <2>1, FS_Subset
  <2>3. Cardinality(scanned[t]) <= NumSlots /\ cntrs[t] = 0
    BY <1>5 DEF empty_return, Counted, Control
  <2>4. /\ Cardinality(retired[t]) \in Nat /\ Cardinality(scanned[t]) \in Nat
        /\ NumSlots \in Nat /\ IsFiniteSet({})
    BY <2>1, FS_CardinalityType, FS_EmptySet, SlotsPositive DEF Counted
  <2>5. Cardinality(retired[t]) <= NumSlots + (cntrs[t] + 1) - 1
    BY <2>2, <2>3, <2>4
  <2>6. QED BY <1>5, <2>4, <2>5 DEF empty_return, Counted, TypeOK
<1>6. QED
  BY <1>1, <1>2, <1>3, <1>4, <1>5 DEF Next, retire

(* IInv holds in every reachable state. *)
THEOREM Invariance == Spec => []IInv
<1>1. ASSUME IInv, [Next]_vars PROVE IInv'
  <2>1. CASE Next
    BY <1>1, <2>1, NextTypeOK, NextControl, NextPublished, NextOnePlace, NextCovered, NextCounted
    DEF IInv, Safe, Covered
  <2>2. CASE UNCHANGED vars
    BY <1>1, <2>2
    DEF IInv, Safe, vars, TypeOK, RecordsTypeOK, Control, Published, OnePlace, LinksDisjoint,
        RetiringDisjoint, RetiredDisjoint, NoUseAfterFree, ScanCovered, Passed, Counted
  <2>3. QED BY <1>1, <2>1, <2>2
<1>2. QED BY InitIInv, <1>1, PTL DEF Spec

(* The variables keep their types. *)
THEOREM TypeCorrect == Spec => []TypeOK
BY Invariance, PTL DEF IInv, Safe

(* pool->add frees no record that a validated hazard pointer still names.  *)
THEOREM Safety == Spec => []NoUseAfterFree
BY Invariance, PTL DEF IInv, Safe

(* No list outgrows all slots and one period, whatever the threads do.     *)
THEOREM Bounded == Spec => []BoundedGarbage
<1>1. IInv => BoundedGarbage
  <2> SUFFICES ASSUME IInv, NEW t \in Tid
               PROVE  Cardinality(retired[t]) <= NumSlots + EmptyFreq
    BY DEF BoundedGarbage
  <2>1. /\ Cardinality(retired[t]) \in Nat /\ NumSlots \in Nat
        /\ cntrs[t] \in 0 .. EmptyFreq /\ EmptyFreq \in Nat
    BY FS_CardinalityType, SlotsPositive, HazardPointersAssumption
    DEF IInv, Safe, TypeOK, Counted
  <2>2. QED BY <2>1 DEF IInv, Counted
<1>2. QED BY Invariance, <1>1, PTL

-------------------------------------------------------------------------------
(* HazardPointers implements SafeReclamation. *)
Linkage == <<pool, cell, retired, ref>>

(* A step that leaves links, lists and uses alone stutters in the contract. *)
LEMMA StutterStep ==
  ASSUME UNCHANGED Linkage
  PROVE  UNCHANGED Contract!vars
BY DEF Linkage, Contract!vars, status, held, Linked

(* Each step of the code is a step of the contract or stutters there. *)
LEMMA RefinementStep ==
  ASSUME IInv, [Next]_vars
  PROVE  [Contract!Next]_(Contract!vars)
<1> USE DEF IInv, Safe, goto, records, reclaimer, reading, emptying
<1>1. ASSUME NEW t \in Tid, read_load(t) \/ reserve(t) \/ empty_scan(t) \/ empty_return(t)
      PROVE  UNCHANGED Linkage
  BY <1>1 DEF Linkage, read_load, reserve, empty_scan, empty_return
<1>2. ASSUME NEW t \in Tid, endOp(t) PROVE Contract!Next
  <2>1. UNCHANGED status
    BY <1>2 DEF endOp, status, Linked
  <2>2. \A u \in Tid : u # t => held'[u] = held[u]
    BY <1>2, OneOwner DEF endOp, held, slotsOf
  <2>3. held'[t] = {}
    BY <1>2, LinkedRecordsAssumption DEF endOp, held, slotsOf
  <2>4. held' \in [Tid -> SUBSET Node]
    BY DEF held
  <2>5. Contract!Drop
    BY <2>1, <2>2, <2>3, <2>4 DEF Contract!Drop
  <2>6. QED BY <2>5 DEF Contract!Next
<1>3. ASSUME NEW t \in Tid, NEW c \in Cell, NEW s \in slotsOf(t), read_call(t, s, c)
      PROVE  Contract!Next
  <2>1. UNCHANGED status
    BY <1>3 DEF read_call, status, Linked
  <2>2. ref' = [ref EXCEPT ![s] = NULL] /\ s \in Slot
    BY <1>3 DEF read_call, slotsOf
  <2>3. \A u \in Tid : u # t => held'[u] = held[u]
    BY <2>2, OneOwner DEF held, TypeOK
  <2>4. held'[t] \subseteq held[t]
    BY <2>2, LinkedRecordsAssumption DEF held, TypeOK
  <2>5. held' \in [Tid -> SUBSET Node]
    BY DEF held
  <2>6. Contract!Drop
    BY <2>1, <2>3, <2>4, <2>5 DEF Contract!Drop
  <2>7. QED BY <2>6 DEF Contract!Next
<1>4. ASSUME NEW t \in Tid, read_validate(t) PROVE Contract!Next \/ UNCHANGED Contract!vars
  <2> DEFINE n == ret[t]
             s == idx[t]
  <2>1. UNCHANGED status
    BY <1>4 DEF read_validate, status, Linked
  <2>2. CASE cell[src[t]] = n /\ n # NULL
    <3>1. n \in Node /\ src[t] \in Cell /\ s \in slotsOf(t) /\ s \in Slot /\ ref[s] = NULL
      BY <1>4, <2>2 DEF read_validate, Control, TypeOK, Pointer
    <3>2. ref' = [ref EXCEPT ![s] = n]
      BY <1>4, <2>2 DEF read_validate
    <3>3. status[n] = "linked"
      BY <2>2, <3>1 DEF status, Linked, OnePlace, LinksDisjoint
    <3>4. \A u \in Tid : u # t => held'[u] = held[u]
      BY <3>1, <3>2, OneOwner DEF held, TypeOK
    <3>5. held'[t] = held[t] \union {n}
      BY <3>1, <3>2, LinkedRecordsAssumption DEF held, TypeOK
    <3>6. held' = [held EXCEPT ![t] = @ \union {n}]
      BY <3>4, <3>5 DEF held
    <3>7. Contract!Hold(t, n)
      BY <2>1, <3>3, <3>6 DEF Contract!Hold
    <3>8. QED BY <3>1, <3>7 DEF Contract!Next
  <2>3. CASE ~(cell[src[t]] = n /\ n # NULL)
    <3>1. ref' = ref
      BY <1>4, <2>3 DEF read_validate, Control, TypeOK
    <3>2. QED BY <1>4, <3>1, StutterStep DEF read_validate, Linkage
  <2>4. QED BY <2>2, <2>3
<1>5. ASSUME NEW t \in Tid, NEW c \in Cell, insert(t, c) PROVE Contract!Next
  <2>1. PICK n \in pool : cell' = [cell EXCEPT ![c] = n] /\ pool' = pool \ {n}
    BY <1>5 DEF insert, link
  <2>2. n \in Node /\ cell[c] = NULL /\ UNCHANGED <<retired, held>>
    BY <1>5 DEF insert, link, held, TypeOK, RecordsTypeOK
  <2>3. status[n] = "free"
    BY <2>2 DEF status
  <2>4. status' = [status EXCEPT ![n] = "linked"]
    <3>1. \A m \in Node : m \in pool' <=> m \in pool /\ m # n
      BY <2>1
    <3>2. \A m \in Node : m \in Linked' <=> m \in Linked \/ m = n
      BY <2>1, <2>2, LinkedRecordsAssumption DEF Linked, TypeOK, RecordsTypeOK
    <3>3. QED BY <2>1, <2>2, <3>1, <3>2 DEF status
  <2>5. Contract!Link(n)
    BY <2>2, <2>3, <2>4 DEF Contract!Link, Contract!move
  <2>6. QED BY <2>2, <2>5 DEF Contract!Next
<1>6. ASSUME NEW t \in Tid, NEW c \in Cell, erase(t, c) PROVE Contract!Next
  <2> DEFINE n == cell[c]
  <2>1. n \in Node /\ n \notin pool
    BY <1>6 DEF erase, TypeOK, RecordsTypeOK, OnePlace, LinksDisjoint
  <2>2. /\ cell' = [cell EXCEPT ![c] = NULL] /\ UNCHANGED <<pool, retired, held>>
        /\ n \in held[t]
    BY <1>6, <2>1 DEF erase, unlink, held
  <2>3. status[n] = "linked"
    BY <2>1 DEF status, Linked
  <2>4. status' = [status EXCEPT ![n] = "unlinked"]
    <3>1. \A m \in Node : m \in Linked' <=> m \in Linked /\ m # n
      BY <2>1, <2>2, LinkedRecordsAssumption
      DEF Linked, TypeOK, RecordsTypeOK, OnePlace, LinksDisjoint
    <3>2. \A u \in Tid : n \notin retired[u]
      BY DEF OnePlace, RetiredDisjoint
    <3>3. QED BY <2>1, <2>2, <3>1, <3>2 DEF status
  <2>5. Contract!Unlink(t, n)
    BY <2>2, <2>3, <2>4 DEF Contract!Unlink, Contract!move
  <2>6. QED BY <2>1, <2>5 DEF Contract!Next
<1>7. ASSUME NEW t \in Tid, retire_push(t) PROVE Contract!Next
  <2> DEFINE n == obj[t]
  <2>1. n \in Node /\ n \notin pool /\ n \notin Linked /\ \A u \in Tid : n \notin retired[u]
    BY <1>7 DEF retire_push, Control, TypeOK, Pointer, OnePlace, RetiringDisjoint, Linked
  <2>2. /\ retired' = [retired EXCEPT ![t] = @ \union {n}]
        /\ UNCHANGED <<pool, cell, held>>
    BY <1>7 DEF retire_push, held
  <2>3. status[n] = "unlinked"
    BY <2>1 DEF status
  <2>4. status' = [status EXCEPT ![n] = "retired"]
    BY <2>1, <2>2 DEF status, Linked, TypeOK
  <2>5. Contract!Retire(t, n)
    BY <2>2, <2>3, <2>4 DEF Contract!Retire, Contract!move
  <2>6. QED BY <2>1, <2>5 DEF Contract!Next
<1>8. ASSUME NEW t \in Tid, empty_free(t) PROVE Contract!Next
  <2>1. PICK n \in retired[t] :
           /\ n \notin scanned[t]
           /\ retired' = [retired EXCEPT ![t] = @ \ {n}]
           /\ pool' = pool \union {n}
    BY <1>8 DEF empty_free, conflict, poolAdd
  <2>2. n \in Node /\ UNCHANGED <<cell, held>>
    BY <1>8 DEF empty_free, poolAdd, held, TypeOK
  <2>3. n \notin pool /\ n \notin Linked /\ \A u \in Tid : n \in retired[u] => u = t
    BY DEF OnePlace, RetiredDisjoint, Linked
  <2>4. status[n] = "retired"
    BY <2>2, <2>3 DEF status
  <2>5. status' = [status EXCEPT ![n] = "free"]
    BY <2>1, <2>2, <2>3 DEF status, Linked, TypeOK
  <2>6. \A u \in Tid : n \notin held[u]
    BY <1>8, <2>1 DEF empty_free, ScanCovered, Passed, held, slotsOf
  <2>7. Contract!Free(n)
    BY <2>2, <2>4, <2>5, <2>6 DEF Contract!Free, Contract!move
  <2>8. QED BY <2>2, <2>7 DEF Contract!Next
<1>9. CASE UNCHANGED vars
  BY <1>9, StutterStep DEF vars, Linkage
<1>10. QED
  BY <1>1, <1>2, <1>3, <1>4, <1>5, <1>6, <1>7, <1>8, <1>9, StutterStep
  DEF Next, client, retire

(* Hazard pointers keep the promise: a record is freed when nobody holds it. *)
THEOREM Refinement == Spec => Reclamation
<1>1. Init => Contract!Init
  BY LinkedRecordsAssumption DEF Init, RecordsInit, Contract!Init, status, held, slotsOf
<1>2. QED BY <1>1, RefinementStep, Invariance, PTL DEF Spec, Reclamation, Contract!Spec
=============================================================================
