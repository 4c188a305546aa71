------------------------- MODULE HazardPtrPOP_proofs -------------------------
(***************************************************************************)
(* HazardPtrPOP keeps its lists bounded, counts its retires right, and     *)
(* frees no record that a reservation names when signals are delivered     *)
(* before the pinging loop ends: for any number of threads, slots and      *)
(* records and any length of a full list.                                  *)
(*                                                                         *)
(* Freeing is safe for two threads.  With three it is when no thread saves *)
(* an odd time stamp at the low watermark, LowWatermarkSound: the end of a *)
(* round and the start of the next would pass for a round (README, finding *)
(* on three threads).  Nothing else is assumed of the time stamps.         *)
(***************************************************************************)
EXTENDS HazardPtrPOP, FiniteSetTheorems, SequenceTheorems, TLAPS

Index == 0 .. SlotsPerThread - 1

(* The steps of a round of pings, in which announcedTS is odd, and those   *)
(* of a thread that neither pings, waits for pings nor empties its list.   *)
Round == {"publish", "ping", "confirm"}
Calm == {"op", "load", "reserve", "validate", "retire"}

(* The locals are alive exactly where the code uses them, and read works   *)
(* on a slot of its thread that protects nothing meanwhile.                *)
Locals ==
    \A t \in Tid :
        /\ pc[t] = "retire" <=> obj[t] # NULL
        /\ pc[t] \in {"load", "reserve", "validate"} =>
              src[t] \in Cell /\ idx[t] \in slotsOf(t) /\ ref[idx[t]] = NULL
        /\ pc[t] = "validate" => local_slots[idx[t]] = ret[t]

(* Each loop stays in its range and leaves its locals as it found them. *)
Loops ==
    \A t \in Tid :
        /\ pc[t] \notin {"publish", "ping", "save", "check", "scan"} => i[t] = 0
        /\ pc[t] = "publish" => i[t] <= SlotsPerThread
        /\ pc[t] \in {"ping", "save", "check"} => i[t] < NumProcess
        /\ pc[t] = "scan" => i[t] < NumSlots
        /\ pc[t] \notin {"scan", "sweep"} => scanned[t] = {}
        /\ pc[t] # "sweep" => limit[t] = 0

(* The time stamp tells whether a round is on. *)
Parity == \A t \in Tid : announcedTS[t] % 2 = IF pc[t] \in Round THEN 1 ELSE 0

(* The flag is down while a thread is past the low watermark; a full list  *)
(* puts it up again.                                                       *)
Flags ==
    \A t \in Tid :
        /\ pc[t] \in Round \union {"announce"} => firstLoEntryFlag[t]
        /\ pc[t] = "check" => ~firstLoEntryFlag[t]
        /\ pc[t] = "save" => (firstLoEntryFlag[t] <=> i[t] = 0)

bag(t) == retire_bag_size_when_entered_loWm[t]
counted(t) == numRetiresSinceLoWatermark[t]

(* Past the low watermark a list holds what it held on entry and what was  *)
(* counted since; the retire that is on is counted when it returns.        *)
Books ==
    \A t \in Tid :
        /\ firstLoEntryFlag[t] => bag(t) = 0 /\ counted(t) = 0
        /\ ~firstLoEntryFlag[t] => EmptyFreq \div 2 < bag(t) /\ Len(retired[t]) < EmptyFreq
        /\ ~firstLoEntryFlag[t] /\ pc[t] # "sweep" => bag(t) <= Len(retired[t])
        /\ pc[t] = "save" =>
              /\ EmptyFreq \div 2 < Len(retired[t]) /\ Len(retired[t]) < EmptyFreq
              /\ counted(t) = 0
              /\ ~firstLoEntryFlag[t] => bag(t) = Len(retired[t])
        /\ pc[t] = "check" => Len(retired[t]) = bag(t) + counted(t)
        /\ pc[t] \in Calm /\ ~firstLoEntryFlag[t] =>
              Len(retired[t]) + 1 = bag(t) + counted(t)

(* A list that was emptied holds what a slot named; and a scan finds at    *)
(* most one record in each slot.                                           *)
Lengths ==
    \A t \in Tid :
        /\ Len(retired[t]) <= EmptyFreq \/ Len(retired[t]) <= NumSlots + 1
        /\ pc[t] \in Calm => Len(retired[t]) < EmptyFreq \/ Len(retired[t]) <= NumSlots
        /\ pc[t] = "sweep" /\ firstLoEntryFlag[t] => limit[t] = Len(retired[t])
        /\ IsFiniteSet(scanned[t])
        /\ pc[t] = "scan" => Cardinality(scanned[t]) <= i[t]
        /\ pc[t] = "sweep" => Cardinality(scanned[t]) <= NumSlots

(* A record is linked once, or being retired by one thread, or once in one *)
(* list, or free.                                                          *)
InList(t, n) == \E j \in 1 .. Len(retired[t]) : retired[t][j] = n

LinksDisjoint ==
    \A c \in Cell : cell[c] # NULL =>
        cell[c] \notin pool /\ \A d \in Cell : cell[d] = cell[c] => d = c

RetiringDisjoint ==
    \A t \in Tid : obj[t] # NULL =>
        /\ obj[t] \notin pool
        /\ \A c \in Cell : cell[c] # obj[t]
        /\ \A u \in Tid : ~InList(u, obj[t]) /\ (obj[u] = obj[t] => u = t)

RetiredDisjoint ==
    \A t \in Tid : \A j \in 1 .. Len(retired[t]) :
        /\ retired[t][j] \notin pool
        /\ \A c \in Cell : cell[c] # retired[t][j]
        /\ \A u \in Tid : \A k \in 1 .. Len(retired[u]) :
              retired[u][k] = retired[t][j] => u = t /\ k = j

OnePlace == LinksDisjoint /\ RetiringDisjoint /\ RetiredDisjoint

(* What a client uses is in the local slot of some thread, and never in    *)
(* the list of that thread.                                                *)
LocalProtects ==
    \A s \in Slot : ref[s] # NULL =>
        local_slots[s] = ref[s] /\ \E t \in Tid, k \in Index : s = slotOf(t, k)

OwnDone ==
    \A t \in Tid : \A k \in Index : \A j \in 1 .. Len(retired[t]) :
        ref[slotOf(t, k)] # retired[t][j]

(* A round begins with the slots of the thread that pings. *)
OwnPublished ==
    \A t \in Tid : \A k \in Index :
        pc[t] \in {"ping", "confirm"} \/ (pc[t] = "publish" /\ k < i[t]) =>
            slots[slotOf(t, k)] = local_slots[slotOf(t, k)]

(* Thread t has sent thread v the signal of this round, and slot k of v is *)
(* still to be published in answer to some signal.                         *)
Signalled(t, v) == t # v /\ (pc[t] = "confirm" \/ (pc[t] = "ping" /\ v < i[t]))
Coming(v, k) == pending[v] \/ (handler[v] > 0 /\ k + 1 >= handler[v])

(* A thread that was signalled and uses a record of the list publishes it. *)
OwnRound ==
    \A t, v \in Tid : \A k \in Index : \A j \in 1 .. Len(retired[t]) :
        Signalled(t, v) /\ ref[slotOf(v, k)] = retired[t][j] =>
            slots[slotOf(v, k)] = retired[t][j] \/ Coming(v, k)

(* A thread that has counted its signals has its answers. *)
Answers ==
    \A t, u \in Tid :
        /\ myscannedTS[t][u] <= mypublishingTS[u]
        /\ Signalled(t, u) =>
              myscannedTS[t][u] < mypublishingTS[u] \/ pending[u] \/ handler[u] > 0

Structure ==
    /\ TypeOK /\ Locals /\ Loops /\ Parity /\ Flags /\ Books /\ OnePlace
    /\ LocalProtects /\ OwnDone /\ OwnPublished

IInv ==
    /\ Structure /\ Lengths /\ OwnRound /\ Answers
    /\ PromptDelivery => AllPublished

(* Thread t is past the low watermark and has saved the time stamp of u. *)
Waiting(t, u) ==
    /\ ~firstLoEntryFlag[t] /\ pc[t] \notin {"scan", "sweep"}
    /\ pc[t] = "save" => u < i[t]

(* What was in the list of t on entry is published by whoever uses it, as  *)
(* far as u has come since: in the round after the snapshot, which may     *)
(* have found u in the middle of one; and for good when that round ended.  *)
LowRound ==
    \A t, u, v \in Tid : \A k \in Index : \A j \in 1 .. bag(t) :
        Waiting(t, u) /\ ref[slotOf(v, k)] = retired[t][j] =>
            /\ announcedTS[u] >= savedTS[t][u] + 2 => slots[slotOf(v, k)] = retired[t][j]
            /\ announcedTS[u] = savedTS[t][u] + 1 =>
                  /\ Signalled(u, v) => slots[slotOf(v, k)] = retired[t][j] \/ Coming(v, k)
                  /\ v = u /\ pc[u] \notin Round => slots[slotOf(v, k)] = retired[t][j]

(* The part of the list that may be freed, and what the scan has passed.   *)
toSweep(t) == IF pc[t] = "sweep" THEN limit[t] ELSE sweepLimit(t)
Passed(t, s) == pc[t] = "sweep" \/ (pc[t] = "scan" /\ s < i[t])

ScanCovered ==
    \A t \in Tid, s \in Slot : \A j \in 1 .. toSweep(t) :
        pc[t] \in {"scan", "sweep"} /\ ref[s] = retired[t][j] =>
            slots[s] = ref[s] /\ (Passed(t, s) => ref[s] \in scanned[t])

Safe == LowRound /\ ScanCovered /\ NoUseAfterFree

(* Two threads, or no snapshot of a round that is on. *)
LowWatermarkSound == NumProcess <= 2 \/ \A t, u \in Tid : savedTS[t][u] % 2 = 0

-------------------------------------------------------------------------------
(* The slots of different threads do not overlap: a thread's range ends    *)
(* where the next one begins.                                              *)
LEMMA Multiples ==
  ASSUME NEW a \in Nat, NEW b \in Nat, NEW m \in Nat, a < b
  PROVE  a * m + m <= b * m
<1> DEFINE d == b - a - 1
<1>1. d \in Nat /\ b = a + 1 + d
  OBVIOUS
<1> HIDE DEF d
<1>2. b * m = (a + 1 + d) * m
  BY <1>1
<1>3. (a + 1 + d) * m = a * m + m + d * m
  BY <1>1
<1>4. d * m \in Nat /\ a * m \in Nat
  BY <1>1
<1>5. QED BY <1>1, <1>2, <1>3, <1>4

(* There is a slot, for a scan to start with. *)
LEMMA SlotsPositive == NumSlots \in Nat \ {0} /\ 0 \in Slot
<1>1. NumProcess \in Nat /\ SlotsPerThread \in Nat /\ 0 < NumProcess /\ 0 < SlotsPerThread
  BY HazardPtrPOPAssumption, LinkedRecordsAssumption
<1>2. 0 * SlotsPerThread + SlotsPerThread <= NumProcess * SlotsPerThread
  BY <1>1, Multiples
<1>3. 0 * SlotsPerThread = 0 /\ NumProcess * SlotsPerThread \in Nat
  BY <1>1
<1>4. QED BY <1>1, <1>2, <1>3 DEF NumSlots, Slot

(* Every thread has its own slots. *)
LEMMA SlotInRange ==
  ASSUME NEW t \in Tid, NEW k \in Index
  PROVE  slotOf(t, k) \in Slot /\ slotOf(t, k) \in slotsOf(t)
<1>1. NumProcess \in Nat /\ SlotsPerThread \in Nat /\ t \in Nat /\ t < NumProcess
  BY HazardPtrPOPAssumption, LinkedRecordsAssumption DEF Tid
<1>2. t * SlotsPerThread + SlotsPerThread <= NumProcess * SlotsPerThread
  BY <1>1, Multiples
<1>3. t * SlotsPerThread \in Nat /\ NumProcess * SlotsPerThread \in Nat
  BY <1>1
<1>4. slotOf(t, k) \in Slot
  BY <1>1, <1>2, <1>3 DEF Slot, NumSlots, slotOf, Index
<1>5. QED BY <1>4 DEF slotsOf, Index

(* Each slot has one owner and one index. *)
LEMMA OneOwner ==
  ASSUME NEW t \in Tid, NEW u \in Tid, NEW k \in Index, NEW j \in Index,
         slotOf(t, k) = slotOf(u, j)
  PROVE  t = u /\ k = j
<1> DEFINE x == t * SlotsPerThread
           y == u * SlotsPerThread
<1>1. t \in Nat /\ u \in Nat /\ SlotsPerThread \in Nat
  BY HazardPtrPOPAssumption, LinkedRecordsAssumption DEF Tid
<1>2. x \in Nat /\ y \in Nat
  BY <1>1
<1>3. (t < u => x + SlotsPerThread <= y) /\ (u < t => y + SlotsPerThread <= x)
  BY <1>1, Multiples
<1>4. x + k = y + j
  BY DEF slotOf
<1>5. t = u
  <2> HIDE DEF x, y
  <2>1. QED BY <1>1, <1>2, <1>3, <1>4 DEF Index
<1>6. x = y
  BY <1>5
<1> HIDE DEF x, y
<1>7. k = j
  BY <1>2, <1>4, <1>6 DEF Index
<1>8. QED BY <1>5, <1>7

(* What RemoveAt leaves. *)
LEMMA RemoveAtProperties ==
  ASSUME NEW S, NEW s \in Seq(S), NEW k \in 1 .. Len(s)
  PROVE  /\ RemoveAt(s, k) \in Seq(S)
         /\ Len(RemoveAt(s, k)) = Len(s) - 1
         /\ \A j \in 1 .. Len(s) - 1 : RemoveAt(s, k)[j] = IF j < k THEN s[j] ELSE s[j + 1]
<1> DEFINE a == SubSeq(s, 1, k - 1)
           b == SubSeq(s, k + 1, Len(s))
<1>1. Len(s) \in Nat /\ \A j \in 1 .. Len(s) : s[j] \in S
  BY LenProperties
<1>2. a \in Seq(S) /\ Len(a) = k - 1 /\ \A j \in 1 .. k - 1 : a[j] = s[j]
  BY <1>1, SubSeqProperties
<1>3. /\ b \in Seq(S) /\ Len(b) = Len(s) - k
      /\ \A j \in 1 .. Len(s) - k : b[j] = s[k + j]
  BY <1>1, SubSeqProperties
<1> HIDE DEF a, b
<1>4. /\ a \o b \in Seq(S) /\ Len(a \o b) = Len(s) - 1
      /\ \A j \in 1 .. Len(s) - 1 :
            (a \o b)[j] = IF j <= k - 1 THEN a[j] ELSE b[j - (k - 1)]
  <2>1. /\ a \o b \in Seq(S) /\ Len(a \o b) = Len(a) + Len(b)
        /\ \A j \in 1 .. Len(a) + Len(b) :
              (a \o b)[j] = IF j <= Len(a) THEN a[j] ELSE b[j - Len(a)]
    BY <1>2, <1>3, ConcatProperties
  <2>2. Len(a) + Len(b) = Len(s) - 1
    BY <1>1, <1>2, <1>3
  <2>3. QED BY <1>2, <2>1, <2>2
<1>5. ASSUME NEW j \in 1 .. Len(s) - 1
      PROVE  (a \o b)[j] = IF j < k THEN s[j] ELSE s[j + 1]
  <2>1. CASE j < k
    BY <1>1, <1>2, <1>4, <2>1
  <2>2. CASE ~(j < k)
    <3>1. j - (k - 1) \in 1 .. Len(s) - k /\ k + (j - (k - 1)) = j + 1
      BY <1>1, <2>2
    <3>2. QED BY <1>1, <1>3, <1>4, <2>2, <3>1
  <2>3. QED BY <2>1, <2>2
<1>6. RemoveAt(s, k) = a \o b
  BY DEF RemoveAt, a, b
<1>7. QED BY <1>4, <1>5, <1>6

(* The larger of two numbers. *)
LEMMA MaxOfTwo ==
  ASSUME NEW a \in Nat, NEW b \in Nat, NEW x \in Nat, x <= a \/ x <= b
  PROVE  x <= Max({a, b})
<1>1. \E y \in {a, b} : \A z \in {a, b} : y >= z
  BY a >= b \/ b >= a
<1>2. Max({a, b}) \in {a, b} /\ \A z \in {a, b} : Max({a, b}) >= z
  BY <1>1 DEF Max
<1>3. QED BY <1>2

(* What rand() can make the frequency is a number. *)
LEMMA MaxIsFreq == Max(LoFreqs) \in LoFreqs
<1>1. \E most \in LoFreqs : \A freq \in LoFreqs : most >= freq
  BY HazardPtrPOPAssumption
<1>2. QED BY <1>1 DEF Max

(* Half of a full list is less than all of it. *)
LEMMA Half == EmptyFreq \div 2 \in Nat /\ EmptyFreq \div 2 < EmptyFreq
<1>1. EmptyFreq \in Nat /\ EmptyFreq > 0
  BY HazardPtrPOPAssumption
<1>2. QED BY <1>1

(* The ranges of the loops, all within that of a scan. *)
LEMMA Bounds ==
  /\ NumProcess \in Nat \ {0} /\ SlotsPerThread \in Nat \ {0} /\ EmptyFreq \in Nat \ {0}
  /\ NumSlots \in Nat \ {0} /\ NumProcess <= NumSlots /\ SlotsPerThread <= NumSlots
<1>1. /\ NumProcess \in Nat \ {0} /\ SlotsPerThread \in Nat \ {0}
      /\ EmptyFreq \in Nat \ {0} /\ NumSlots \in Nat \ {0}
  BY HazardPtrPOPAssumption, LinkedRecordsAssumption, SlotsPositive
<1>2. SlotsPerThread <= NumProcess * SlotsPerThread
  <2>1. 0 * SlotsPerThread + SlotsPerThread <= NumProcess * SlotsPerThread
    BY <1>1, Multiples
  <2>2. 0 * SlotsPerThread = 0 /\ NumProcess * SlotsPerThread \in Nat
    BY <1>1
  <2>3. QED BY <1>1, <2>1, <2>2
<1>3. NumProcess <= NumProcess * SlotsPerThread
  <2>1. PICK d \in Nat : SlotsPerThread = d + 1
    <3>1. SlotsPerThread - 1 \in Nat /\ SlotsPerThread = (SlotsPerThread - 1) + 1
      BY <1>1
    <3>2. QED BY <3>1
  <2>2. NumProcess * SlotsPerThread = NumProcess * d + NumProcess /\ NumProcess * d \in Nat
    BY <1>1, <2>1
  <2>3. QED BY <1>1, <2>2
<1>4. QED BY <1>1, <1>2, <1>3 DEF NumSlots

(* The invariant holds at first: all slots and lists are empty. *)
LEMMA InitIInv == Init => IInv /\ Safe
<1> SUFFICES ASSUME Init PROVE IInv /\ Safe
  OBVIOUS
<1> USE HazardPtrPOPAssumption, LinkedRecordsAssumption, SlotsPositive, MaxIsFreq, Half
    DEF Init, InitAt, RecordsInit
<1>1. TypeOK
  BY DEF TypeOK, RecordsTypeOK, Pointer
<1>2. \A t \in Tid : Len(retired[t]) = 0 /\ retired[t] = <<>>
  OBVIOUS
<1>3. Locals /\ Loops /\ Parity /\ Flags /\ Books
  BY <1>2 DEF Locals, Loops, Parity, Flags, Books, Round, Calm, bag, counted
<1>4. Lengths
  BY <1>2, FS_EmptySet DEF Lengths
<1>5. OnePlace
  BY <1>2 DEF OnePlace, LinksDisjoint, RetiringDisjoint, RetiredDisjoint
<1>6. LocalProtects /\ OwnDone /\ OwnPublished /\ OwnRound /\ Answers /\ AllPublished
  BY <1>2 DEF LocalProtects, OwnDone, OwnPublished, OwnRound, Answers, AllPublished, Signalled
<1>7. Safe
  BY DEF Safe, LowRound, Waiting, ScanCovered, NoUseAfterFree
<1>8. QED BY <1>1, <1>3, <1>4, <1>5, <1>6, <1>7 DEF IInv, Structure

-------------------------------------------------------------------------------
(* Each action keeps the types: *)
LEMMA ClientTypeOK ==
  ASSUME TypeOK, Locals, NEW t \in Tid, client(t)
  PROVE  TypeOK'
<1> USE DEF goto, records, reserved, stamps, loWm, signals, reading, emptying, TypeOK,
            RecordsTypeOK, Pointer
<1>1. CASE endOp(t)
  BY <1>1 DEF endOp
<1>2. CASE read_load(t)
  BY <1>2 DEF read_load, Locals
<1>3. CASE reserve(t)
  BY <1>3 DEF reserve
<1>4. CASE read_validate(t)
  BY <1>4, ZenonT(30) DEF read_validate
<1>5. ASSUME NEW c \in Cell, insert(t, c) PROVE TypeOK'
  BY <1>5 DEF insert, link
<1>6. ASSUME NEW c \in Cell, erase(t, c) PROVE TypeOK'
  BY <1>6 DEF erase, unlink
<1>7. ASSUME NEW c \in Cell, NEW s \in slotsOf(t), read_call(t, s, c) PROVE TypeOK'
  <2>1. s \in Slot
    BY SlotInRange DEF slotsOf, Index
  <2>2. QED BY <1>7, <2>1 DEF read_call
<1>8. QED BY <1>1, <1>2, <1>3, <1>4, <1>5, <1>6, <1>7 DEF client

(* those of the reclaimer, *)
LEMMA RetireTypeOK ==
  ASSUME TypeOK, Locals, Loops, Flags, Books, NEW t \in Tid, retire(t)
  PROVE  TypeOK'
<1> USE DEF goto, records, reserved, stamps, loWm, signals, reading, emptying
<1>1. CASE retire_push(t)
  <2>1. obj[t] \in Node /\ retired[t] \in Seq(Node) /\ limit[t] = 0
    BY <1>1 DEF retire_push, Locals, Loops, TypeOK, Pointer
  <2>2. /\ Append(retired[t], obj[t]) \in Seq(Node)
        /\ Len(Append(retired[t], obj[t])) = Len(retired[t]) + 1
        /\ Len(retired[t]) \in Nat
    BY <2>1, AppendProperties, LenProperties
  <2>3. retired' \in [Tid -> Seq(Node)]
    BY <1>1, <2>2 DEF retire_push, TypeOK
  <2>4. limit' \in [Tid -> Nat] /\ \A u \in Tid : limit'[u] <= Len(retired'[u])
    <3>1. limit' = limit /\ retired' = [retired EXCEPT ![t] = Append(retired[t], obj[t])]
      BY <1>1 DEF retire_push
    <3>2. \A u \in Tid : u # t => retired'[u] = retired[u]
      BY <3>1 DEF TypeOK
    <3>3. limit'[t] <= Len(retired'[t])
      BY <2>1, <2>2, <3>1 DEF TypeOK
    <3>4. QED BY <3>1, <3>2, <3>3 DEF TypeOK
  <2>5. /\ firstLoEntryFlag' \in [Tid -> BOOLEAN]
        /\ numRetiresSinceLoWatermark' \in [Tid -> 0 .. EmptyFreq - 1 - EmptyFreq \div 2]
        /\ retire_bag_size_when_entered_loWm' \in [Tid -> 0 .. EmptyFreq - 1]
        /\ UNCHANGED <<savedTS, LoPathReclaimAttemptFreq>>
    <3>1. CASE resetLoWmMetaData(t)
      BY <3>1, Bounds, Half DEF resetLoWmMetaData, TypeOK
    <3>2. CASE UNCHANGED loWm
      BY <3>2 DEF TypeOK
    <3>3. CASE ~isOutOfPatience(Len(retired[t]) + 1) /\ countRetire(t)
      <4>1. pc[t] \in Calm
        BY <1>1 DEF retire_push, Calm
      <4>2. ~firstLoEntryFlag[t] =>
               counted(t) + 1 \in 0 .. EmptyFreq - 1 - EmptyFreq \div 2
        BY <2>2, <3>3, <4>1, Bounds, Half, SMTT(30) DEF isOutOfPatience, Books, TypeOK, bag, counted
      <4>3. QED BY <3>3, <4>2 DEF countRetire, counted, TypeOK
    <3>4. QED BY <1>1, <3>1, <3>2, <3>3 DEF retire_push
  <2>6. QED BY <1>1, <2>3, <2>4, <2>5, ZenonT(30) DEF retire_push, TypeOK, RecordsTypeOK, Pointer
<1>2. CASE hi_announce(t)
  <2>1. myscannedTS' \in [Tid -> [Tid -> Nat]]
    BY <1>2 DEF hi_announce, TypeOK
  <2>2. announcedTS' \in [Tid -> Nat]
    BY <1>2 DEF hi_announce, TypeOK
  <2>3. QED BY <1>2, <2>1, <2>2 DEF hi_announce, TypeOK, RecordsTypeOK
<1>3. CASE hi_publish(t)
  <2>1. pc[t] = "publish" /\ i[t] \in Nat
    BY <1>3 DEF hi_publish, TypeOK
  <2>2. CASE i[t] < SlotsPerThread
    <3>1. slotOf(t, i[t]) \in Slot
      BY <2>1, <2>2, Bounds, SlotInRange DEF Index
    <3>2. /\ slots' = [slots EXCEPT ![slotOf(t, i[t])] = local_slots[slotOf(t, i[t])]]
          /\ i' = [i EXCEPT ![t] = i[t] + 1]
          /\ mypublishingTS' = mypublishingTS
      BY <1>3, <2>2 DEF hi_publish
    <3>3. slots' \in [Slot -> Pointer]
      BY <3>1, <3>2 DEF TypeOK
    <3>4. i[t] + 1 \in 0 .. NumSlots
      BY <2>1, <2>2, Bounds
    <3>5. i' \in [Tid -> 0 .. NumSlots]
      BY <3>2, <3>4 DEF TypeOK
    <3>6. QED BY <1>3, <2>2, <3>2, <3>3, <3>5 DEF hi_publish, TypeOK, RecordsTypeOK
  <2>3. CASE ~(i[t] < SlotsPerThread)
    <3>1. /\ mypublishingTS' = [mypublishingTS EXCEPT ![t] = @ + 1]
          /\ i' = [i EXCEPT ![t] = 0]
      BY <1>3, <2>3 DEF hi_publish
    <3>2. mypublishingTS' \in [Tid -> Nat]
      BY <3>1 DEF TypeOK
    <3>3. i' \in [Tid -> 0 .. NumSlots]
      BY <3>1, Bounds DEF TypeOK
    <3>4. QED BY <1>3, <2>3, <3>1, <3>2, <3>3 DEF hi_publish, TypeOK, RecordsTypeOK
  <2>4. QED BY <2>2, <2>3
<1>4. CASE hi_ping(t)
  <2>1. i' \in [Tid -> 0 .. NumSlots]
    <3>1. i' = [i EXCEPT ![t] = 0] \/ (i[t] + 1 < NumProcess /\ i' = [i EXCEPT ![t] = i[t] + 1])
      BY <1>4 DEF hi_ping
    <3>2. i[t] + 1 < NumProcess => i[t] + 1 \in 0 .. NumSlots
      BY Bounds, SMTT(30) DEF TypeOK
    <3>3. \E x \in 0 .. NumSlots : i' = [i EXCEPT ![t] = x]
      <4>1. 0 \in 0 .. NumSlots
        BY Bounds
      <4>2. QED BY <3>1, <3>2, <4>1
    <3>4. i \in [Tid -> 0 .. NumSlots]
      BY DEF TypeOK
    <3>5. QED BY <3>3, <3>4
  <2>2. pc' = [pc EXCEPT ![t] = "ping"] \/ pc' = [pc EXCEPT ![t] = "confirm"]
    BY <1>4 DEF hi_ping
  <2>3. pending' \in [Tid -> BOOLEAN]
    BY <1>4 DEF hi_ping, TypeOK
  <2>4. QED BY <1>4, <2>1, <2>2, <2>3 DEF hi_ping, TypeOK, RecordsTypeOK
<1>5. CASE hi_confirm(t)
  <2>1. pc' = [pc EXCEPT ![t] = "scan"] /\ announcedTS' = [announcedTS EXCEPT ![t] = @ + 1]
    BY <1>5 DEF hi_confirm
  <2>2. pc' \in [Tid -> {"op", "load", "reserve", "validate", "retire", "announce", "publish",
                         "ping", "confirm", "save", "check", "scan", "sweep"}]
    BY <2>1 DEF TypeOK
  <2>3. announcedTS' \in [Tid -> Nat]
    BY <2>1 DEF TypeOK
  <2>4. QED BY <1>5, <2>2, <2>3 DEF hi_confirm, TypeOK, RecordsTypeOK
<1>6. CASE lo_save(t)
  <2>1. pc[t] = "save" /\ i[t] < NumProcess /\ i[t] \in Tid
    <3>1. pc[t] = "save"
      BY <1>6 DEF lo_save
    <3>2. i[t] < NumProcess /\ i[t] \in 0 .. NumSlots
      BY <3>1 DEF Loops, TypeOK
    <3>3. QED BY <3>1, <3>2, Bounds DEF Tid
  <2>2. i' \in [Tid -> 0 .. NumSlots]
    <3>1. i' = [i EXCEPT ![t] = 0] \/ (i[t] + 1 < NumProcess /\ i' = [i EXCEPT ![t] = i[t] + 1])
      BY <1>6 DEF lo_save
    <3>2. i[t] + 1 < NumProcess => i[t] + 1 \in 0 .. NumSlots
      BY Bounds, SMTT(30) DEF TypeOK
    <3>3. \E x \in 0 .. NumSlots : i' = [i EXCEPT ![t] = x]
      <4>1. 0 \in 0 .. NumSlots
        BY Bounds
      <4>2. QED BY <3>1, <3>2, <4>1
    <3>4. i \in [Tid -> 0 .. NumSlots]
      BY DEF TypeOK
    <3>5. QED BY <3>3, <3>4
  <2>3. savedTS' \in [Tid -> [Tid -> Nat]]
    <3>1. savedTS' = [savedTS EXCEPT ![t][i[t]] = announcedTS[i[t]]]
      BY <1>6 DEF lo_save
    <3>2. QED BY <2>1, <3>1 DEF TypeOK
  <2>4. LoPathReclaimAttemptFreq' \in [Tid -> LoFreqs]
    BY <1>6 DEF lo_save, TypeOK
  <2>5. retire_bag_size_when_entered_loWm' \in [Tid -> 0 .. EmptyFreq - 1]
    <3>1. Len(retired[t]) \in 0 .. EmptyFreq - 1
      <4>1. Len(retired[t]) \in Nat
        BY LenProperties DEF TypeOK
      <4>2. QED BY <2>1, <4>1, Bounds DEF Books
    <3>2. QED BY <1>6, <3>1 DEF lo_save, TypeOK
  <2>6. pc' = [pc EXCEPT ![t] = "save"] \/ pc' = [pc EXCEPT ![t] = "check"]
    BY <1>6 DEF lo_save
  <2>7. firstLoEntryFlag' \in [Tid -> BOOLEAN]
    BY <1>6 DEF lo_save, TypeOK
  <2>8. QED BY <1>6, <2>2, <2>3, <2>4, <2>5, <2>6, <2>7 DEF lo_save, TypeOK, RecordsTypeOK
<1>7. CASE lo_check(t)
  <2>1. pc[t] = "check"
    BY <1>7 DEF lo_check
  <2>2. counted(t) + 1 \in 0 .. EmptyFreq - 1 - EmptyFreq \div 2
    <3>1. Len(retired[t]) \in Nat
      BY LenProperties DEF TypeOK
    <3>2. QED BY <2>1, <3>1, Bounds, Half, SMTT(30) DEF Flags, Books, TypeOK, bag, counted
  <2>3. UNCHANGED loWm \/ countRetire(t)
    BY <1>7 DEF lo_check
  <2>4. /\ numRetiresSinceLoWatermark' \in [Tid -> 0 .. EmptyFreq - 1 - EmptyFreq \div 2]
        /\ UNCHANGED <<savedTS, firstLoEntryFlag, LoPathReclaimAttemptFreq,
                       retire_bag_size_when_entered_loWm>>
    <3>1. CASE UNCHANGED loWm
      BY <3>1 DEF TypeOK
    <3>2. CASE countRetire(t)
      <4>1. \E x \in {counted(t), counted(t) + 1} :
               numRetiresSinceLoWatermark' = [numRetiresSinceLoWatermark EXCEPT ![t] = x]
        BY <3>2 DEF countRetire, counted
      <4>2. counted(t) \in 0 .. EmptyFreq - 1 - EmptyFreq \div 2
        BY DEF counted, TypeOK
      <4>3. QED BY <2>2, <3>2, <4>1, <4>2, SMTT(30) DEF countRetire, TypeOK
    <3>3. QED BY <2>3, <3>1, <3>2
  <2>5. i' \in [Tid -> 0 .. NumSlots]
    <3>1. i' = [i EXCEPT ![t] = 0] \/ (i[t] + 1 < NumProcess /\ i' = [i EXCEPT ![t] = i[t] + 1])
      BY <1>7 DEF lo_check
    <3>2. i[t] + 1 < NumProcess => i[t] + 1 \in 0 .. NumSlots
      BY Bounds, SMTT(30) DEF TypeOK
    <3>3. \E x \in 0 .. NumSlots : i' = [i EXCEPT ![t] = x]
      <4>1. 0 \in 0 .. NumSlots
        BY Bounds
      <4>2. QED BY <3>1, <3>2, <4>1
    <3>4. i \in [Tid -> 0 .. NumSlots]
      BY DEF TypeOK
    <3>5. QED BY <3>3, <3>4
  <2>6. \E x \in {"scan", "check", "op"} : pc' = [pc EXCEPT ![t] = x]
    BY <1>7 DEF lo_check
  <2>7. QED BY <1>7, <2>4, <2>5, <2>6 DEF lo_check, TypeOK, RecordsTypeOK
<1>8. CASE empty_scan(t)
  <2>1. pc[t] = "scan" /\ i[t] \in Slot /\ slots[i[t]] \in Pointer
    <3>1. pc[t] = "scan"
      BY <1>8 DEF empty_scan
    <3>2. i[t] \in Slot
      BY <3>1, Bounds DEF Loops, TypeOK, Slot
    <3>3. QED BY <3>1, <3>2 DEF TypeOK
  <2>2. scanned' \in [Tid -> SUBSET Node]
    BY <1>8, <2>1 DEF empty_scan, TypeOK, Pointer
  <2>3. i' \in [Tid -> 0 .. NumSlots]
    <3>1. i' = [i EXCEPT ![t] = 0] \/ (i[t] + 1 < NumSlots /\ i' = [i EXCEPT ![t] = i[t] + 1])
      BY <1>8 DEF empty_scan
    <3>2. i[t] + 1 < NumSlots => i[t] + 1 \in 0 .. NumSlots
      BY Bounds, SMTT(30) DEF TypeOK
    <3>3. \E x \in 0 .. NumSlots : i' = [i EXCEPT ![t] = x]
      <4>1. 0 \in 0 .. NumSlots
        BY Bounds
      <4>2. QED BY <3>1, <3>2, <4>1
    <3>4. i \in [Tid -> 0 .. NumSlots]
      BY DEF TypeOK
    <3>5. QED BY <3>3, <3>4
  <2>4. limit' \in [Tid -> Nat] /\ \A u \in Tid : limit'[u] <= Len(retired'[u])
    <3>1. Len(retired[t]) \in Nat
      BY LenProperties DEF TypeOK
    <3>2. sweepLimit(t) \in Nat /\ sweepLimit(t) <= Len(retired[t])
      BY <2>1, <3>1 DEF sweepLimit, Books, TypeOK, bag
    <3>3. QED BY <1>8, <3>2 DEF empty_scan, TypeOK
  <2>5. QED BY <1>8, <2>2, <2>3, <2>4 DEF empty_scan, TypeOK, RecordsTypeOK
<1>9. CASE empty_free(t)
  <2>1. PICK k \in 1 .. limit[t] :
           /\ pool' = pool \union {retired[t][k]} /\ cell' = cell
           /\ retired' = [retired EXCEPT ![t] = RemoveAt(retired[t], k)]
    BY <1>9 DEF empty_free, reclaimable, poolAdd
  <2>2. k \in 1 .. Len(retired[t]) /\ retired[t] \in Seq(Node) /\ Len(retired[t]) \in Nat
    BY LenProperties DEF TypeOK
  <2>3. /\ RemoveAt(retired[t], k) \in Seq(Node) /\ retired[t][k] \in Node
        /\ Len(RemoveAt(retired[t], k)) = Len(retired[t]) - 1
    BY <2>2, RemoveAtProperties, ElementOfSeq
  <2>4. retired' \in [Tid -> Seq(Node)] /\ limit' = [limit EXCEPT ![t] = limit[t] - 1]
    BY <1>9, <2>1, <2>3 DEF empty_free, TypeOK
  <2>5. limit' \in [Tid -> Nat] /\ \A u \in Tid : limit'[u] <= Len(retired'[u])
    <3>1. limit[t] \in Nat /\ limit[t] - 1 \in Nat /\ limit[t] <= Len(retired[t])
      BY DEF TypeOK
    <3>2. \A u \in Tid : u # t => limit'[u] = limit[u] /\ retired'[u] = retired[u]
      BY <2>1, <2>4 DEF TypeOK
    <3>3. limit'[t] = limit[t] - 1 /\ Len(retired'[t]) = Len(retired[t]) - 1
      BY <2>1, <2>3, <2>4 DEF TypeOK
    <3>4. limit'[t] <= Len(retired'[t])
      BY <2>2, <3>1, <3>3
    <3>5. limit' \in [Tid -> Nat]
      BY <2>4, <3>1 DEF TypeOK
    <3>6. QED BY <3>2, <3>4, <3>5 DEF TypeOK
  <2>6. QED BY <1>9, <2>1, <2>3, <2>4, <2>5 DEF empty_free, TypeOK, RecordsTypeOK
<1>10. CASE empty_return(t)
  <2>1. limit' \in [Tid -> Nat] /\ \A u \in Tid : limit'[u] <= Len(retired'[u])
    <3>1. Len(retired[t]) \in Nat
      BY LenProperties DEF TypeOK
    <3>2. QED BY <1>10, <3>1 DEF empty_return, TypeOK
  <2>2. /\ firstLoEntryFlag' \in [Tid -> BOOLEAN]
        /\ numRetiresSinceLoWatermark' \in [Tid -> 0 .. EmptyFreq - 1 - EmptyFreq \div 2]
        /\ retire_bag_size_when_entered_loWm' \in [Tid -> 0 .. EmptyFreq - 1]
        /\ UNCHANGED <<savedTS, LoPathReclaimAttemptFreq>>
    BY <1>10, Bounds, Half DEF empty_return, resetLoWmMetaData, TypeOK
  <2>3. scanned' \in [Tid -> SUBSET Node]
    BY <1>10 DEF empty_return, TypeOK
  <2>4. QED BY <1>10, <2>1, <2>2, <2>3 DEF empty_return, TypeOK, RecordsTypeOK
<1>11. QED
  BY <1>1, <1>2, <1>3, <1>4, <1>5, <1>6, <1>7, <1>8, <1>9, <1>10 DEF retire

(* and those of the signal handler. *)
LEMMA SignalTypeOK ==
  ASSUME TypeOK, NEW t \in Tid, signal(t)
  PROVE  TypeOK'
<1> USE DEF records, reserved, stamps, loWm, signals, reading, emptying
<1>1. CASE handler_start(t)
  <2>1. pending' \in [Tid -> BOOLEAN] /\ handler' \in [Tid -> 0 .. SlotsPerThread + 1]
    BY <1>1, Bounds DEF handler_start, TypeOK
  <2>2. QED BY <1>1, <2>1 DEF handler_start, TypeOK, RecordsTypeOK
<1>2. CASE handler_publish(t)
  <2>1. handler[t] \in 1 .. SlotsPerThread /\ handler[t] - 1 \in Index
    BY <1>2, Bounds DEF handler_publish, Index
  <2>2. slots' \in [Slot -> Pointer]
    BY <1>2, <2>1, SlotInRange DEF handler_publish, TypeOK
  <2>3. handler' \in [Tid -> 0 .. SlotsPerThread + 1]
    BY <1>2, <2>1, Bounds, SMTT(30) DEF handler_publish, TypeOK
  <2>4. QED BY <1>2, <2>2, <2>3 DEF handler_publish, TypeOK, RecordsTypeOK
<1>3. CASE handler_return(t)
  <2>1. mypublishingTS' \in [Tid -> Nat]
    BY <1>3 DEF handler_return, TypeOK
  <2>2. handler' \in [Tid -> 0 .. SlotsPerThread + 1]
    BY <1>3, Bounds DEF handler_return, TypeOK
  <2>3. QED BY <1>3, <2>1, <2>2 DEF handler_return, TypeOK, RecordsTypeOK
<1>4. QED BY <1>1, <1>2, <1>3 DEF signal

-------------------------------------------------------------------------------
(* What a list holds are records. *)
LEMMA ListHoldsRecords ==
  ASSUME TypeOK, NEW t \in Tid
  PROVE  /\ retired[t] \in Seq(Node) /\ Len(retired[t]) \in Nat
         /\ \A j \in 1 .. Len(retired[t]) : retired[t][j] \in Node /\ retired[t][j] # NULL
<1>1. retired[t] \in Seq(Node)
  BY DEF TypeOK
<1>2. Len(retired[t]) \in Nat /\ \A j \in 1 .. Len(retired[t]) : retired[t][j] \in Node
  BY <1>1, LenProperties, ElementOfSeq
<1>3. QED BY <1>1, <1>2, LinkedRecordsAssumption

(* What a client's step can do to what the reclaimer looks at: it changes  *)
(* the local slots of its thread, and what it comes to use with them is    *)
(* linked.                                                                 *)
LEMMA ClientStep ==
  ASSUME TypeOK, Locals, OnePlace, NEW t \in Tid, client(t)
  PROVE  /\ UNCHANGED <<slots, retired, announcedTS, mypublishingTS, myscannedTS, savedTS,
                        firstLoEntryFlag, numRetiresSinceLoWatermark,
                        LoPathReclaimAttemptFreq, retire_bag_size_when_entered_loWm,
                        pending, handler, i, scanned, limit>>
         /\ pc[t] \in Calm /\ pc'[t] \in Calm
         /\ \A u \in Tid : u # t => pc'[u] = pc[u]
         /\ pool' \subseteq pool
         /\ \A s \in Slot : local_slots'[s] # local_slots[s] => s \in slotsOf(t)
         /\ \A s \in Slot : ref'[s] # ref[s] =>
               /\ s \in slotsOf(t) /\ ref'[s] \notin pool
               /\ \A u \in Tid : ~InList(u, ref'[s])
<1> DEFINE Quiet ==
             /\ UNCHANGED <<slots, retired, announcedTS, mypublishingTS, myscannedTS, savedTS,
                            firstLoEntryFlag, numRetiresSinceLoWatermark,
                            LoPathReclaimAttemptFreq, retire_bag_size_when_entered_loWm,
                            pending, handler, i, scanned, limit>>
             /\ pc[t] \in Calm /\ pc'[t] \in Calm
             /\ \A u \in Tid : u # t => pc'[u] = pc[u]
             /\ pool' \subseteq pool
             /\ \A s \in Slot : local_slots'[s] # local_slots[s] => s \in slotsOf(t)
           Fresh ==
             \A s \in Slot : ref'[s] # ref[s] =>
                /\ s \in slotsOf(t) /\ ref'[s] \notin pool
                /\ \A u \in Tid : ~InList(u, ref'[s])
<1> USE DEF goto, records, reserved, stamps, loWm, signals, reading, emptying
<1>1. NULL \notin pool /\ \A u \in Tid : ~InList(u, NULL)
  BY ListHoldsRecords, LinkedRecordsAssumption DEF TypeOK, RecordsTypeOK, InList
<1>2. CASE endOp(t)
  <2>1. Quiet
    BY <1>2 DEF endOp, TypeOK, Calm
  <2>2. Fresh
    BY <1>1, <1>2 DEF endOp
  <2>3. QED BY <2>1, <2>2
<1>3. CASE read_load(t)
  <2>1. Quiet
    BY <1>3 DEF read_load, TypeOK, Calm
  <2>2. QED BY <1>3, <2>1 DEF read_load
<1>4. CASE reserve(t)
  <2>1. Quiet
    BY <1>4 DEF reserve, TypeOK, Calm, Locals
  <2>2. QED BY <1>4, <2>1 DEF reserve
<1>5. CASE read_validate(t)
  <2>1. Quiet
    BY <1>5 DEF read_validate, TypeOK, Calm
  <2>2. Fresh
    <3>1. CASE cell[src[t]] = ret[t]
      <4>1. src[t] \in Cell /\ idx[t] \in slotsOf(t)
        BY <1>5 DEF read_validate, Locals
      <4>2. ret[t] \notin pool /\ \A u \in Tid : ~InList(u, ret[t])
        BY <1>1, <3>1, <4>1 DEF OnePlace, LinksDisjoint, RetiredDisjoint, InList
      <4>3. \A s \in Slot : ref'[s] # ref[s] => s = idx[t] /\ ref'[s] = ret[t]
        BY <1>5, <3>1 DEF read_validate, TypeOK
      <4>4. QED BY <4>1, <4>2, <4>3
    <3>2. CASE cell[src[t]] # ret[t]
      BY <1>5, <3>2 DEF read_validate
    <3>3. QED BY <3>1, <3>2
  <2>3. QED BY <2>1, <2>2
<1>6. ASSUME NEW c \in Cell, insert(t, c) PROVE Quiet /\ Fresh
  <2>1. Quiet
    BY <1>6 DEF insert, link, TypeOK, Calm
  <2>2. QED BY <1>6, <2>1 DEF insert
<1>7. ASSUME NEW c \in Cell, erase(t, c) PROVE Quiet /\ Fresh
  <2>1. Quiet
    BY <1>7 DEF erase, unlink, TypeOK, Calm
  <2>2. QED BY <1>7, <2>1 DEF erase
<1>8. ASSUME NEW c \in Cell, NEW s \in slotsOf(t), read_call(t, s, c) PROVE Quiet /\ Fresh
  <2>1. Quiet
    BY <1>8 DEF read_call, TypeOK, Calm
  <2>2. \A r \in Slot : ref'[r] # ref[r] => r = s /\ ref'[r] = NULL
    BY <1>8 DEF read_call, TypeOK
  <2>3. QED BY <1>1, <2>1, <2>2
<1>9. QED BY <1>2, <1>3, <1>4, <1>5, <1>6, <1>7, <1>8 DEF client

(* The locals of a client are its own, *)
LEMMA NextLocals ==
  ASSUME TypeOK, Locals, NEW t \in Tid, client(t) \/ retire(t) \/ signal(t)
  PROVE  Locals'
<1> USE DEF goto, records, reserved, stamps, loWm, signals, reading, emptying
<1>1. \A u \in Tid, k \in Index : slotOf(u, k) \in slotsOf(t) => u = t
  BY OneOwner DEF slotsOf, Index
<1>2. \A u \in Tid : u # t => \A s \in slotsOf(u) : s \notin slotsOf(t)
  BY <1>1 DEF slotsOf, Index
<1>3. CASE endOp(t)
  BY <1>2, <1>3 DEF endOp, TypeOK, Locals
<1>4. CASE read_load(t)
  BY <1>4 DEF read_load, TypeOK, Locals
<1>5. CASE reserve(t)
  <2>1. /\ pc[t] = "reserve" /\ pc' = [pc EXCEPT ![t] = "validate"]
        /\ local_slots' = [local_slots EXCEPT ![idx[t]] = ret[t]]
        /\ UNCHANGED <<idx, src, ret, obj, ref>>
    BY <1>5 DEF reserve
  <2>2. idx[t] \in slotsOf(t) /\ idx[t] \in Slot
    BY <2>1 DEF Locals, TypeOK
  <2>3. \A u \in Tid : u # t /\ pc[u] = "validate" => idx[u] # idx[t] /\ idx[u] \in Slot
    BY <1>2, <2>2 DEF Locals, TypeOK
  <2>4. QED BY <2>1, <2>2, <2>3 DEF TypeOK, Locals
<1>6. CASE read_validate(t)
  <2>1. idx[t] \in slotsOf(t) /\ idx[t] \in Slot /\ src[t] \in Cell
    BY <1>6 DEF read_validate, Locals, TypeOK
  <2>2. \A u \in Tid : u # t /\ pc[u] \in {"load", "reserve", "validate"} => idx[u] # idx[t]
    BY <1>2, <2>1 DEF Locals
  <2>3. \A u \in Tid : u # t /\ pc[u] \in {"load", "reserve", "validate"} =>
           ref'[idx[u]] = ref[idx[u]]
    BY <1>6, <2>2 DEF read_validate, TypeOK
  <2>4. /\ \E x \in {"op", "load"} : pc' = [pc EXCEPT ![t] = x]
        /\ pc'[t] = "load" => UNCHANGED <<ref, src>>
        /\ \A u \in Tid : u # t => src'[u] = src[u] /\ ret'[u] = ret[u]
        /\ pc[t] = "validate" /\ UNCHANGED <<idx, obj, local_slots>>
    BY <1>6 DEF read_validate, TypeOK
  <2>5. QED BY <2>3, <2>4, ZenonT(30) DEF TypeOK, Locals
<1>7. ASSUME NEW c \in Cell, insert(t, c) PROVE Locals'
  BY <1>7 DEF insert, TypeOK, Locals
<1>8. ASSUME NEW c \in Cell, erase(t, c) PROVE Locals'
  BY <1>8 DEF erase, TypeOK, Locals
<1>9. ASSUME NEW c \in Cell, NEW s \in slotsOf(t), read_call(t, s, c) PROVE Locals'
  <2>1. s \in Slot
    BY SlotInRange DEF slotsOf, Index
  <2>2. QED BY <1>9, <2>1 DEF read_call, TypeOK, Locals
<1>10. CASE retire_push(t)
  <2>1. \E x \in {"announce", "save", "check", "op"} : pc' = [pc EXCEPT ![t] = x]
    BY <1>10 DEF retire_push
  <2>2. \A s \in Slot : ref[s] = NULL => ref'[s] = NULL
    BY <1>10 DEF retire_push
  <2>3. /\ pc[t] = "retire" /\ obj' = [obj EXCEPT ![t] = NULL]
        /\ UNCHANGED <<idx, src, ret, local_slots>>
    BY <1>10 DEF retire_push
  <2>4. QED BY <2>1, <2>2, <2>3 DEF TypeOK, Locals
<1>11. ASSUME hi_announce(t) \/ hi_publish(t) \/ hi_ping(t) \/ hi_confirm(t) \/ lo_save(t)
                \/ lo_check(t) \/ empty_scan(t) \/ empty_free(t) \/ empty_return(t)
       PROVE  Locals'
  <2>1. /\ pc[t] \notin Calm \/ pc[t] = "op"
        /\ \E x \in {"publish", "ping", "confirm", "scan", "save", "check", "op", "sweep"} :
              pc' = [pc EXCEPT ![t] = x]
        /\ UNCHANGED <<idx, src, ret, local_slots, obj, ref>>
    BY <1>11
    DEF hi_announce, hi_publish, hi_ping, hi_confirm, lo_save, lo_check, empty_scan,
        empty_free, empty_return, Calm
  <2>2. QED BY <2>1 DEF TypeOK, Locals, Calm
<1>12. CASE signal(t)
  BY <1>12 DEF signal, handler_start, handler_publish, handler_return, Locals
<1>13. QED
  BY <1>3, <1>4, <1>5, <1>6, <1>7, <1>8, <1>9, <1>10, <1>11, <1>12 DEF client, retire

(* A thread's step in retire leaves the state of the others alone. *)
LEMMA OthersKeep ==
  ASSUME TypeOK, NEW t \in Tid, retire(t), NEW u \in Tid, u # t
  PROVE  /\ pc'[u] = pc[u] /\ i'[u] = i[u] /\ scanned'[u] = scanned[u] /\ limit'[u] = limit[u]
         /\ retired'[u] = retired[u] /\ obj'[u] = obj[u] /\ announcedTS'[u] = announcedTS[u]
         /\ myscannedTS'[u] = myscannedTS[u] /\ savedTS'[u] = savedTS[u]
         /\ firstLoEntryFlag'[u] = firstLoEntryFlag[u]
         /\ numRetiresSinceLoWatermark'[u] = numRetiresSinceLoWatermark[u]
         /\ retire_bag_size_when_entered_loWm'[u] = retire_bag_size_when_entered_loWm[u]
         /\ handler'[u] = handler[u]
<1> USE DEF goto, records, reserved, stamps, loWm, signals, reading, emptying
<1>1. CASE retire_push(t)
  BY <1>1, ZenonT(30) DEF retire_push, resetLoWmMetaData, countRetire, TypeOK
<1>2. CASE hi_announce(t) \/ hi_confirm(t)
  BY <1>2 DEF hi_announce, hi_confirm, TypeOK
<1>3. CASE hi_publish(t) \/ hi_ping(t)
  <2>1. /\ \E x \in Round : pc' = [pc EXCEPT ![t] = x]
        /\ \E x \in {0, i[t] + 1} : i' = [i EXCEPT ![t] = x]
        /\ UNCHANGED <<scanned, limit, retired, obj, announcedTS, myscannedTS, savedTS,
                       firstLoEntryFlag, numRetiresSinceLoWatermark,
                       retire_bag_size_when_entered_loWm, handler>>
    BY <1>3 DEF hi_publish, hi_ping, Round
  <2>2. QED BY <2>1 DEF TypeOK
<1>4. CASE lo_save(t)
  BY <1>4, ZenonT(30) DEF lo_save, TypeOK
<1>5. CASE lo_check(t)
  BY <1>5 DEF lo_check, countRetire, TypeOK
<1>6. CASE empty_scan(t)
  <2>1. /\ \E x \in {"scan", "sweep"} : pc' = [pc EXCEPT ![t] = x]
        /\ \E x \in {0, i[t] + 1} : i' = [i EXCEPT ![t] = x]
        /\ \E x \in {limit[t], sweepLimit(t)} : limit' = [limit EXCEPT ![t] = x]
        /\ scanned' = [scanned EXCEPT ![t] = @ \union ({slots[i[t]]} \ {NULL})]
        /\ UNCHANGED <<retired, obj, announcedTS, myscannedTS, savedTS, firstLoEntryFlag,
                       numRetiresSinceLoWatermark, retire_bag_size_when_entered_loWm, handler>>
    BY <1>6 DEF empty_scan, TypeOK
  <2>2. QED BY <2>1 DEF TypeOK
<1>7. CASE empty_free(t)
  BY <1>7 DEF empty_free, TypeOK
<1>8. CASE empty_return(t)
  BY <1>8 DEF empty_return, resetLoWmMetaData, TypeOK
<1>9. QED BY <1>1, <1>2, <1>3, <1>4, <1>5, <1>6, <1>7, <1>8 DEF retire

(* Loops and flags of the reclaimer are its own, too. *)
LEMMA NextLoops ==
  ASSUME TypeOK, Locals, Loops, OnePlace, NEW t \in Tid, client(t) \/ retire(t) \/ signal(t)
  PROVE  Loops'
<1> USE DEF goto, records, reserved, stamps, loWm, signals, reading, emptying
<1>1. CASE client(t)
  BY <1>1, ClientStep DEF Loops, Calm
<1>2. CASE signal(t)
  BY <1>2 DEF signal, handler_start, handler_publish, handler_return, Loops
<1>3. CASE retire(t)
  <2> DEFINE Own ==
               /\ pc'[t] \notin {"publish", "ping", "save", "check", "scan"} => i'[t] = 0
               /\ pc'[t] = "publish" => i'[t] <= SlotsPerThread
               /\ pc'[t] \in {"ping", "save", "check"} => i'[t] < NumProcess
               /\ pc'[t] = "scan" => i'[t] < NumSlots
               /\ pc'[t] \notin {"scan", "sweep"} => scanned'[t] = {}
               /\ pc'[t] # "sweep" => limit'[t] = 0
  <2>1. i[t] \in Nat
    BY DEF TypeOK
  <2>2. ASSUME retire_push(t) PROVE Own
    <3>1. /\ pc[t] = "retire" /\ i'[t] = i[t] /\ scanned'[t] = scanned[t] /\ limit'[t] = limit[t]
          /\ pc'[t] \in {"announce", "save", "check", "op"}
      BY <2>2 DEF retire_push, TypeOK
    <3>2. QED BY <3>1, Bounds DEF Loops
  <2>3. ASSUME hi_announce(t) PROVE Own
    <3>1. /\ pc[t] = "announce" /\ i'[t] = i[t] /\ scanned'[t] = scanned[t]
          /\ limit'[t] = limit[t] /\ pc'[t] = "publish"
      BY <2>3 DEF hi_announce, TypeOK
    <3>2. QED BY <3>1, Bounds DEF Loops
  <2>4. ASSUME hi_publish(t) PROVE Own
    <3>1. /\ pc[t] = "publish" /\ scanned'[t] = scanned[t] /\ limit'[t] = limit[t]
          /\ \/ i[t] < SlotsPerThread /\ i'[t] = i[t] + 1 /\ pc'[t] = "publish"
             \/ i'[t] = 0 /\ pc'[t] = "ping"
      BY <2>4 DEF hi_publish, TypeOK
    <3>2. QED BY <2>1, <3>1, Bounds DEF Loops
  <2>5. ASSUME hi_ping(t) PROVE Own
    <3>1. /\ pc[t] = "ping" /\ scanned'[t] = scanned[t] /\ limit'[t] = limit[t]
          /\ \/ i[t] + 1 < NumProcess /\ i'[t] = i[t] + 1 /\ pc'[t] = "ping"
             \/ i'[t] = 0 /\ pc'[t] = "confirm"
      BY <2>5 DEF hi_ping, TypeOK
    <3>2. QED BY <2>1, <3>1, Bounds DEF Loops
  <2>6. ASSUME hi_confirm(t) PROVE Own
    <3>1. /\ pc[t] = "confirm" /\ i'[t] = i[t] /\ scanned'[t] = scanned[t]
          /\ limit'[t] = limit[t] /\ pc'[t] = "scan"
      BY <2>6 DEF hi_confirm, TypeOK
    <3>2. QED BY <3>1, Bounds DEF Loops
  <2>7. ASSUME lo_save(t) PROVE Own
    <3>1. /\ pc[t] = "save" /\ scanned'[t] = scanned[t] /\ limit'[t] = limit[t]
          /\ \/ i[t] + 1 < NumProcess /\ i'[t] = i[t] + 1 /\ pc'[t] = "save"
             \/ i'[t] = 0 /\ pc'[t] = "check"
      BY <2>7 DEF lo_save, TypeOK
    <3>2. QED BY <2>1, <3>1, Bounds DEF Loops
  <2>8. ASSUME lo_check(t) PROVE Own
    <3>1. /\ pc[t] = "check" /\ scanned'[t] = scanned[t] /\ limit'[t] = limit[t]
          /\ \/ i[t] + 1 < NumProcess /\ i'[t] = i[t] + 1 /\ pc'[t] = "check"
             \/ i'[t] = 0 /\ pc'[t] \in {"scan", "op"}
      BY <2>8 DEF lo_check, TypeOK
    <3>2. QED BY <2>1, <3>1, Bounds DEF Loops
  <2>9. ASSUME empty_scan(t) PROVE Own
    <3>1. /\ pc[t] = "scan"
          /\ \/ /\ i[t] + 1 < NumSlots /\ i'[t] = i[t] + 1 /\ pc'[t] = "scan"
                /\ limit'[t] = limit[t]
             \/ i'[t] = 0 /\ pc'[t] = "sweep"
      BY <2>9 DEF empty_scan, TypeOK
    <3>2. QED BY <2>1, <3>1, Bounds DEF Loops
  <2>10. ASSUME empty_free(t) PROVE Own
    <3>1. pc[t] = "sweep" /\ i'[t] = i[t] /\ pc'[t] = "sweep"
      BY <2>10 DEF empty_free, TypeOK
    <3>2. QED BY <3>1 DEF Loops
  <2>11. ASSUME empty_return(t) PROVE Own
    <3>1. pc[t] = "sweep" /\ i'[t] = i[t] /\ pc'[t] = "op" /\ scanned'[t] = {} /\ limit'[t] = 0
      BY <2>11 DEF empty_return, TypeOK
    <3>2. QED BY <3>1 DEF Loops
  <2>12. Own
    BY <1>3, <2>2, <2>3, <2>4, <2>5, <2>6, <2>7, <2>8, <2>9, <2>10, <2>11 DEF retire
  <2>13. QED BY <1>3, <2>12, OthersKeep DEF Loops
<1>4. QED BY <1>1, <1>2, <1>3

(* The time stamp is odd during a round, *)
LEMMA NextParity ==
  ASSUME TypeOK, Locals, OnePlace, Parity, NEW t \in Tid, client(t) \/ retire(t) \/ signal(t)
  PROVE  Parity'
<1> USE DEF goto, records, reserved, stamps, loWm, signals, reading, emptying
<1>1. CASE client(t)
  BY <1>1, ClientStep DEF Parity, Calm, Round
<1>2. CASE hi_announce(t)
  <2>1. /\ pc[t] = "announce" /\ pc' = [pc EXCEPT ![t] = "publish"]
        /\ announcedTS' = [announcedTS EXCEPT ![t] = announcedTS[t] + 1]
    BY <1>2 DEF hi_announce
  <2>2. announcedTS[t] \in Nat /\ announcedTS[t] % 2 = 0
    BY <2>1 DEF TypeOK, Parity, Round
  <2>3. (announcedTS[t] + 1) % 2 = 1
    BY <2>2
  <2>4. QED BY <2>1, <2>3 DEF TypeOK, Parity, Round
<1>3. CASE hi_confirm(t)
  <2>1. /\ pc[t] = "confirm" /\ pc' = [pc EXCEPT ![t] = "scan"]
        /\ announcedTS' = [announcedTS EXCEPT ![t] = announcedTS[t] + 1]
    BY <1>3 DEF hi_confirm
  <2>2. announcedTS[t] \in Nat /\ announcedTS[t] % 2 = 1
    BY <2>1 DEF TypeOK, Parity, Round
  <2>3. (announcedTS[t] + 1) % 2 = 0
    BY <2>2
  <2>4. QED BY <2>1, <2>3 DEF TypeOK, Parity, Round
<1>4. CASE hi_publish(t) \/ hi_ping(t)
  <2>1. /\ pc[t] \in Round /\ UNCHANGED announcedTS
        /\ \E x \in Round : pc' = [pc EXCEPT ![t] = x]
    BY <1>4 DEF hi_publish, hi_ping, Round
  <2>2. QED BY <2>1 DEF TypeOK, Parity
<1>5. CASE retire_push(t) \/ lo_save(t) \/ lo_check(t) \/ empty_scan(t) \/ empty_free(t)
             \/ empty_return(t)
  <2>1. /\ pc[t] \notin Round /\ UNCHANGED announcedTS
        /\ \E x \in {"announce", "save", "check", "op", "scan", "sweep"} :
              pc' = [pc EXCEPT ![t] = x]
    BY <1>5
    DEF retire_push, lo_save, lo_check, empty_scan, empty_free, empty_return, Round
  <2>2. QED BY <2>1 DEF TypeOK, Parity, Round
<1>6. CASE signal(t)
  BY <1>6 DEF signal, handler_start, handler_publish, handler_return, Parity
<1>7. QED BY <1>1, <1>2, <1>3, <1>4, <1>5, <1>6 DEF retire

(* the flag is down past the low watermark, *)
LEMMA NextFlags ==
  ASSUME TypeOK, Locals, Loops, OnePlace, Flags, NEW t \in Tid,
         client(t) \/ retire(t) \/ signal(t)
  PROVE  Flags'
<1> USE DEF goto, records, reserved, stamps, loWm, signals, reading, emptying, Round
<1>1. CASE client(t)
  BY <1>1, ClientStep DEF Flags, Calm
<1>2. CASE signal(t)
  BY <1>2 DEF signal, handler_start, handler_publish, handler_return, Flags
<1>3. CASE retire(t)
  <2> DEFINE Own ==
               /\ pc'[t] \in Round \union {"announce"} => firstLoEntryFlag'[t]
               /\ pc'[t] = "check" => ~firstLoEntryFlag'[t]
               /\ pc'[t] = "save" => (firstLoEntryFlag'[t] <=> i'[t] = 0)
  <2>1. ASSUME retire_push(t) PROVE Own
    <3>1. i[t] = 0 /\ i'[t] = i[t]
      BY <2>1 DEF retire_push, Loops
    <3>2. \/ pc'[t] = "announce" /\ firstLoEntryFlag'[t] = TRUE
          \/ pc'[t] = "save" /\ firstLoEntryFlag[t] /\ firstLoEntryFlag' = firstLoEntryFlag
          \/ pc'[t] = "check" /\ ~firstLoEntryFlag[t] /\ firstLoEntryFlag' = firstLoEntryFlag
          \/ pc'[t] = "op"
      BY <2>1 DEF retire_push, resetLoWmMetaData, TypeOK
    <3>3. QED BY <3>1, <3>2
  <2>2. ASSUME hi_announce(t) \/ hi_publish(t) \/ hi_ping(t) \/ hi_confirm(t) PROVE Own
    <3>1. pc[t] \in Round \union {"announce"} /\ firstLoEntryFlag' = firstLoEntryFlag
      BY <2>2 DEF hi_announce, hi_publish, hi_ping, hi_confirm
    <3>2. pc'[t] \in Round \union {"scan"}
      BY <2>2 DEF hi_announce, hi_publish, hi_ping, hi_confirm, TypeOK
    <3>3. QED BY <3>1, <3>2 DEF Flags
  <2>3. ASSUME lo_save(t) PROVE Own
    <3>1. i[t] \in Nat /\ firstLoEntryFlag'[t] = FALSE
      BY <2>3 DEF lo_save, TypeOK
    <3>2. (pc'[t] = "save" /\ i'[t] = i[t] + 1) \/ pc'[t] = "check"
      BY <2>3 DEF lo_save, TypeOK
    <3>3. QED BY <3>1, <3>2
  <2>4. ASSUME lo_check(t) PROVE Own
    <3>1. /\ pc[t] = "check" /\ firstLoEntryFlag' = firstLoEntryFlag
          /\ pc'[t] \in {"check", "scan", "op"}
      BY <2>4 DEF lo_check, countRetire, TypeOK
    <3>2. QED BY <3>1 DEF Flags
  <2>5. ASSUME empty_scan(t) \/ empty_free(t) \/ empty_return(t) PROVE Own
    <3>1. pc'[t] \in {"scan", "sweep", "op"}
      BY <2>5 DEF empty_scan, empty_free, empty_return, TypeOK
    <3>2. QED BY <3>1
  <2>6. Own
    BY <1>3, <2>1, <2>2, <2>3, <2>4, <2>5 DEF retire
  <2>7. QED BY <1>3, <2>6, OthersKeep DEF Flags
<1>4. QED BY <1>1, <1>2, <1>3

-------------------------------------------------------------------------------
(* retire puts one record behind its list, *)
LEMMA PushStep ==
  ASSUME TypeOK, Locals, NEW t \in Tid, retire_push(t)
  PROVE  /\ obj[t] \in Node /\ pc[t] = "retire"
         /\ Len(retired'[t]) = Len(retired[t]) + 1 /\ Len(retired[t]) \in Nat
         /\ \A j \in 1 .. Len(retired[t]) : retired'[t][j] = retired[t][j]
         /\ retired'[t][Len(retired[t]) + 1] = obj[t]
         /\ UNCHANGED <<cell, pool, local_slots, slots, announcedTS, savedTS, pending, handler>>
<1>1. /\ pc[t] = "retire" /\ retired' = [retired EXCEPT ![t] = Append(retired[t], obj[t])]
      /\ UNCHANGED <<cell, pool, local_slots, slots, announcedTS, savedTS, pending, handler>>
  BY DEF retire_push, goto, records, reserved, stamps, signals, loWm, resetLoWmMetaData,
         countRetire
<1>2. obj[t] \in Node
  BY <1>1 DEF Locals, TypeOK, Pointer
<1>3. retired[t] \in Seq(Node) /\ Len(retired[t]) \in Nat
  BY ListHoldsRecords
<1>4. retired'[t] = Append(retired[t], obj[t])
  BY <1>1 DEF TypeOK
<1>5. /\ Len(Append(retired[t], obj[t])) = Len(retired[t]) + 1
      /\ \A j \in 1 .. Len(retired[t]) : Append(retired[t], obj[t])[j] = retired[t][j]
      /\ Append(retired[t], obj[t])[Len(retired[t]) + 1] = obj[t]
  BY <1>2, <1>3, AppendProperties
<1>6. QED BY <1>1, <1>2, <1>3, <1>4, <1>5

(* and empty takes one out of the part it may free. *)
LEMMA FreeStep ==
  ASSUME TypeOK, NEW t \in Tid, empty_free(t)
  PROVE  /\ pc[t] = "sweep" /\ pc' = pc /\ Len(retired[t]) \in Nat
         /\ Len(retired'[t]) = Len(retired[t]) - 1
         /\ limit'[t] = limit[t] - 1 /\ limit[t] \in Nat
         /\ \E k \in 1 .. limit[t] :
               /\ k \in 1 .. Len(retired[t]) /\ retired[t][k] \notin scanned[t]
               /\ pool' = pool \union {retired[t][k]}
               /\ \A j \in 1 .. Len(retired[t]) - 1 :
                     retired'[t][j] = IF j < k THEN retired[t][j] ELSE retired[t][j + 1]
         /\ UNCHANGED <<cell, local_slots, slots, announcedTS, mypublishingTS, myscannedTS,
                        savedTS, firstLoEntryFlag, numRetiresSinceLoWatermark,
                        retire_bag_size_when_entered_loWm, pending, handler, obj, i,
                        scanned, ref>>
<1>1. /\ pc[t] = "sweep" /\ pc' = [pc EXCEPT ![t] = "sweep"]
      /\ limit' = [limit EXCEPT ![t] = limit[t] - 1]
      /\ UNCHANGED <<cell, local_slots, slots, announcedTS, mypublishingTS, myscannedTS,
                     savedTS, firstLoEntryFlag, numRetiresSinceLoWatermark,
                     retire_bag_size_when_entered_loWm, pending, handler, obj, i,
                     scanned, ref>>
  BY DEF empty_free, goto, poolAdd, reserved, stamps, loWm, signals, reading
<1>2. PICK k \in 1 .. limit[t] :
         /\ retired[t][k] \notin scanned[t]
         /\ pool' = pool \union {retired[t][k]}
         /\ retired' = [retired EXCEPT ![t] = RemoveAt(retired[t], k)]
  BY DEF empty_free, reclaimable, conflict, poolAdd
<1>3. pc' = pc /\ limit'[t] = limit[t] - 1 /\ limit[t] \in Nat /\ limit[t] <= Len(retired[t])
  BY <1>1 DEF TypeOK
<1>4. retired[t] \in Seq(Node) /\ Len(retired[t]) \in Nat
  BY ListHoldsRecords
<1>5. k \in 1 .. Len(retired[t])
  BY <1>3, <1>4
<1>6. retired'[t] = RemoveAt(retired[t], k)
  BY <1>2 DEF TypeOK
<1>7. /\ Len(RemoveAt(retired[t], k)) = Len(retired[t]) - 1
      /\ \A j \in 1 .. Len(retired[t]) - 1 :
            RemoveAt(retired[t], k)[j] = IF j < k THEN retired[t][j] ELSE retired[t][j + 1]
  BY <1>4, <1>5, RemoveAtProperties
<1>8. QED BY <1>1, <1>2, <1>3, <1>4, <1>5, <1>6, <1>7

(* The other steps of retire leave the lists alone. *)
LEMMA KeepsLists ==
  ASSUME TypeOK, NEW t \in Tid,
         \/ hi_announce(t) \/ hi_publish(t) \/ hi_ping(t) \/ hi_confirm(t)
         \/ lo_save(t) \/ lo_check(t) \/ empty_scan(t) \/ empty_return(t)
  PROVE  UNCHANGED <<cell, pool, retired, obj, ref, local_slots>>
BY DEF hi_announce, hi_publish, hi_ping, hi_confirm, lo_save, lo_check, empty_scan,
       empty_return, records, reserved

(* The retires past the low watermark are counted, *)
LEMMA NextBooks ==
  ASSUME TypeOK, Locals, Loops, Flags, OnePlace, Books, NEW t \in Tid,
         client(t) \/ retire(t) \/ signal(t)
  PROVE  Books'
<1> USE DEF goto, records, reserved, stamps, loWm, signals, reading, emptying
<1>1. CASE client(t)
  BY <1>1, ClientStep DEF Books, bag, counted, Calm
<1>2. CASE signal(t)
  BY <1>2 DEF signal, handler_start, handler_publish, handler_return, Books, bag, counted
<1>3. CASE retire(t)
  <2> DEFINE Own ==
               /\ firstLoEntryFlag'[t] => bag(t)' = 0 /\ counted(t)' = 0
               /\ ~firstLoEntryFlag'[t] =>
                     EmptyFreq \div 2 < bag(t)' /\ Len(retired'[t]) < EmptyFreq
               /\ ~firstLoEntryFlag'[t] /\ pc'[t] # "sweep" => bag(t)' <= Len(retired'[t])
               /\ pc'[t] = "save" =>
                     /\ EmptyFreq \div 2 < Len(retired'[t]) /\ Len(retired'[t]) < EmptyFreq
                     /\ counted(t)' = 0
                     /\ ~firstLoEntryFlag'[t] => bag(t)' = Len(retired'[t])
               /\ pc'[t] = "check" => Len(retired'[t]) = bag(t)' + counted(t)'
               /\ pc'[t] \in Calm /\ ~firstLoEntryFlag'[t] =>
                     Len(retired'[t]) + 1 = bag(t)' + counted(t)'
             Kept == /\ firstLoEntryFlag'[t] = firstLoEntryFlag[t]
                     /\ bag(t)' = bag(t) /\ counted(t)' = counted(t)
  <2>1. bag(t) \in Nat /\ counted(t) \in Nat /\ EmptyFreq \in Nat /\ EmptyFreq \div 2 \in Nat
    BY Bounds, Half DEF TypeOK, bag, counted
  <2>2. ASSUME retire_push(t) PROVE Own
    <3>1. Len(retired'[t]) = Len(retired[t]) + 1 /\ Len(retired[t]) \in Nat /\ pc[t] = "retire"
      BY <2>2, PushStep
    <3>2. \/ /\ pc'[t] = "announce" /\ firstLoEntryFlag'[t]
             /\ bag(t)' = 0 /\ counted(t)' = 0
          \/ /\ Len(retired[t]) + 1 < EmptyFreq /\ Len(retired[t]) + 1 > EmptyFreq \div 2
             /\ firstLoEntryFlag[t] /\ pc'[t] = "save" /\ Kept
          \/ /\ Len(retired[t]) + 1 < EmptyFreq /\ ~firstLoEntryFlag[t] /\ pc'[t] = "check"
             /\ Kept
          \/ /\ Len(retired[t]) + 1 < EmptyFreq /\ pc'[t] = "op" /\ bag(t)' = bag(t)
             /\ firstLoEntryFlag'[t] = firstLoEntryFlag[t]
             /\ counted(t)' = IF firstLoEntryFlag[t] THEN counted(t) ELSE counted(t) + 1
      <4>1. CASE isOutOfPatience(Len(retired[t]) + 1)
        BY <2>2, <4>1 DEF retire_push, resetLoWmMetaData, bag, counted, TypeOK
      <4>2. CASE ~isOutOfPatience(Len(retired[t]) + 1)
        <5>1. Len(retired[t]) + 1 < EmptyFreq
          BY <2>1, <3>1, <4>2 DEF isOutOfPatience
        <5>2. CASE isPastLoWatermark(t, Len(retired[t]) + 1)
          BY <2>2, <4>2, <5>1, <5>2
          DEF retire_push, isPastLoWatermark, bag, counted, TypeOK
        <5>3. CASE ~isPastLoWatermark(t, Len(retired[t]) + 1)
          BY <2>2, <4>2, <5>1, <5>3 DEF retire_push, countRetire, bag, counted, TypeOK
        <5>4. QED BY <5>2, <5>3
      <4>3. QED BY <4>1, <4>2
    <3>3. QED BY <2>1, <3>1, <3>2 DEF Books, Calm
  <2>3. ASSUME hi_announce(t) \/ hi_publish(t) \/ hi_ping(t) \/ hi_confirm(t) PROVE Own
    <3>1. /\ pc[t] \in Round \union {"announce"} /\ pc'[t] \in Round \union {"scan"}
          /\ Kept /\ retired' = retired
      BY <2>3
      DEF hi_announce, hi_publish, hi_ping, hi_confirm, Round, bag, counted, TypeOK
    <3>2. QED BY <2>1, <3>1 DEF Books, Flags, Round, Calm
  <2>4. ASSUME lo_save(t) PROVE Own
    <3>1. /\ pc[t] = "save" /\ ~firstLoEntryFlag'[t] /\ bag(t)' = Len(retired[t])
          /\ counted(t)' = counted(t) /\ retired' = retired /\ pc'[t] \in {"save", "check"}
      BY <2>4 DEF lo_save, bag, counted, TypeOK
    <3>2. Len(retired[t]) \in Nat
      BY ListHoldsRecords
    <3>3. QED BY <2>1, <3>1, <3>2 DEF Books, Calm
  <2>5. ASSUME lo_check(t) PROVE Own
    <3>1. /\ pc[t] = "check" /\ retired' = retired /\ bag(t)' = bag(t)
          /\ firstLoEntryFlag'[t] = firstLoEntryFlag[t]
          /\ \/ pc'[t] \in {"scan", "check"} /\ counted(t)' = counted(t)
             \/ /\ pc'[t] = "op"
                /\ counted(t)' = IF firstLoEntryFlag[t] THEN counted(t) ELSE counted(t) + 1
      BY <2>5 DEF lo_check, countRetire, bag, counted, TypeOK
    <3>2. Len(retired[t]) \in Nat /\ ~firstLoEntryFlag[t]
      BY <3>1, ListHoldsRecords DEF Flags
    <3>3. QED BY <2>1, <3>1, <3>2 DEF Books, Calm
  <2>6. ASSUME empty_scan(t) PROVE Own
    <3>1. pc[t] = "scan" /\ pc'[t] \in {"scan", "sweep"} /\ Kept /\ retired' = retired
      BY <2>6 DEF empty_scan, bag, counted, TypeOK
    <3>2. QED BY <2>1, <3>1 DEF Books, Calm
  <2>7. ASSUME empty_free(t) PROVE Own
    <3>1. /\ pc[t] = "sweep" /\ pc'[t] = "sweep" /\ Kept
          /\ Len(retired'[t]) = Len(retired[t]) - 1 /\ Len(retired[t]) \in Nat
      BY <2>7, FreeStep DEF bag, counted
    <3>2. QED BY <2>1, <3>1 DEF Books, Calm
  <2>8. ASSUME empty_return(t) PROVE Own
    <3>1. pc'[t] = "op" /\ firstLoEntryFlag'[t] /\ bag(t)' = 0 /\ counted(t)' = 0
      BY <2>8 DEF empty_return, resetLoWmMetaData, bag, counted, TypeOK
    <3>2. QED BY <3>1
  <2>9. Own
    BY <1>3, <2>2, <2>3, <2>4, <2>5, <2>6, <2>7, <2>8 DEF retire
  <2>10. QED BY <1>3, <2>9, OthersKeep DEF Books, bag, counted
<1>4. QED BY <1>1, <1>2, <1>3

(* a record is in one place, *)
LEMMA NextOnePlace ==
  ASSUME TypeOK, Locals, OnePlace, NEW t \in Tid, client(t) \/ retire(t) \/ signal(t)
  PROVE  OnePlace'
<1> USE DEF OnePlace
<1>1. CASE endOp(t) \/ read_load(t) \/ reserve(t) \/ read_validate(t) \/ signal(t)
             \/ \E c \in Cell, s \in slotsOf(t) : read_call(t, s, c)
  <2>1. UNCHANGED <<cell, pool, retired, obj>>
    BY <1>1
    DEF endOp, read_load, reserve, read_validate, read_call, signal, handler_start,
        handler_publish, handler_return, records
  <2>2. QED BY <2>1 DEF LinksDisjoint, RetiringDisjoint, RetiredDisjoint, InList
<1>2. ASSUME NEW c \in Cell, insert(t, c) PROVE OnePlace'
  <2>1. PICK n \in pool : cell' = [cell EXCEPT ![c] = n] /\ pool' = pool \ {n}
    BY <1>2 DEF insert, link
  <2>2. UNCHANGED <<retired, obj>> /\ n \in Node /\ n # NULL
    BY <1>2, LinkedRecordsAssumption DEF insert, TypeOK, RecordsTypeOK
  <2>3. \A d \in Cell : cell'[d] = cell[d] \/ (d = c /\ cell'[d] = n)
    BY <2>1 DEF TypeOK, RecordsTypeOK
  <2>4. LinksDisjoint'
    BY <2>1, <2>2, <2>3 DEF LinksDisjoint
  <2>5. RetiringDisjoint'
    BY <2>1, <2>2, <2>3 DEF RetiringDisjoint, InList
  <2>6. RetiredDisjoint'
    BY <2>1, <2>2, <2>3 DEF RetiredDisjoint
  <2>7. QED BY <2>4, <2>5, <2>6
<1>3. ASSUME NEW c \in Cell, erase(t, c) PROVE OnePlace'
  <2>1. /\ cell[c] # NULL /\ cell' = [cell EXCEPT ![c] = NULL]
        /\ obj' = [obj EXCEPT ![t] = cell[c]] /\ pc[t] = "op" /\ UNCHANGED <<pool, retired>>
    BY <1>3 DEF erase, unlink, goto
  <2>2. \A d \in Cell : (cell'[d] = cell[d] /\ d # c) \/ (d = c /\ cell'[d] = NULL)
    BY <2>1 DEF TypeOK, RecordsTypeOK
  <2>3. \A u \in Tid : (obj'[u] = obj[u] /\ u # t) \/ (u = t /\ obj'[u] = cell[c])
    BY <2>1 DEF TypeOK
  <2>4. LinksDisjoint'
    BY <2>1, <2>2 DEF LinksDisjoint
  <2>5. RetiredDisjoint'
    <3>1. \A u \in Tid : \A j \in 1 .. Len(retired[u]) : retired[u][j] # NULL
      BY ListHoldsRecords
    <3>2. QED BY <2>1, <2>2, <3>1 DEF RetiredDisjoint
  <2>6. RetiringDisjoint'
    <3>1. /\ cell[c] \notin pool /\ \A d \in Cell : cell'[d] # cell[c]
          /\ \A u \in Tid : ~InList(u, cell[c]) /\ obj[u] # cell[c]
      BY <2>1, <2>2 DEF LinksDisjoint, RetiredDisjoint, RetiringDisjoint, InList
    <3>2. \A u \in Tid : \A n : InList(u, n)' = InList(u, n)
      BY <2>1 DEF InList
    <3>3. QED BY <2>1, <2>2, <2>3, <3>1, <3>2 DEF RetiringDisjoint
  <2>7. QED BY <2>4, <2>5, <2>6
<1>4. CASE retire_push(t)
  <2> DEFINE N == Len(retired[t])
  <2>1. /\ UNCHANGED <<cell, pool>> /\ N \in Nat /\ Len(retired'[t]) = N + 1
        /\ \A j \in 1 .. N : retired'[t][j] = retired[t][j]
        /\ retired'[t][N + 1] = obj[t] /\ obj[t] # NULL
    BY <1>4, PushStep DEF Locals
  <2>2. \A u \in Tid : u # t => retired'[u] = retired[u] /\ obj'[u] = obj[u]
    BY <1>4, OthersKeep DEF retire
  <2>3. obj'[t] = NULL
    BY <1>4 DEF retire_push, TypeOK
  <2> HIDE DEF N
  <2>4. /\ obj[t] \notin pool /\ \A c \in Cell : cell[c] # obj[t]
        /\ \A u \in Tid : u # t => obj[u] # obj[t]
        /\ \A u \in Tid : \A j \in 1 .. Len(retired[u]) : retired[u][j] # obj[t]
    BY <2>1 DEF RetiringDisjoint, InList
  <2>5. \A j \in 1 .. N + 1 : j \in 1 .. N \/ j = N + 1
    BY <2>1
  <2>6. LinksDisjoint'
    BY <2>1 DEF LinksDisjoint
  <2>7. RetiringDisjoint'
    <3> SUFFICES ASSUME NEW u \in Tid, obj'[u] # NULL
                 PROVE  /\ obj'[u] \notin pool'
                        /\ \A c \in Cell : cell'[c] # obj'[u]
                        /\ \A v \in Tid : ~InList(v, obj[u])' /\ (obj'[v] = obj'[u] => v = u)
      BY <2>2, <2>3 DEF RetiringDisjoint, InList
    <3>1. u # t /\ obj'[u] = obj[u] /\ obj[u] # NULL
      BY <2>2, <2>3
    <3>2. \A v \in Tid : \A j \in 1 .. Len(retired'[v]) : retired'[v][j] # obj[u]
      BY <2>1, <2>2, <2>4, <2>5, <3>1 DEF RetiringDisjoint, InList, N
    <3>3. QED BY <2>1, <2>2, <2>3, <3>1, <3>2 DEF RetiringDisjoint, InList
  <2>8. RetiredDisjoint'
    <3> SUFFICES ASSUME NEW u \in Tid, NEW j \in 1 .. Len(retired'[u])
                 PROVE  /\ retired'[u][j] \notin pool'
                        /\ \A c \in Cell : cell'[c] # retired'[u][j]
                        /\ \A v \in Tid : \A k \in 1 .. Len(retired'[v]) :
                              retired'[v][k] = retired'[u][j] => v = u /\ k = j
      BY DEF RetiredDisjoint
    <3>1. \/ j \in 1 .. Len(retired[u]) /\ retired'[u][j] = retired[u][j]
          \/ u = t /\ j = N + 1 /\ retired'[u][j] = obj[t]
      BY <2>1, <2>2, <2>5 DEF N
    <3>2. ASSUME NEW v \in Tid, NEW k \in 1 .. Len(retired'[v])
          PROVE  \/ k \in 1 .. Len(retired[v]) /\ retired'[v][k] = retired[v][k]
                 \/ v = t /\ k = N + 1 /\ retired'[v][k] = obj[t]
      BY <2>1, <2>2, <2>5 DEF N
    <3>3. QED BY <2>1, <2>4, <3>1, <3>2 DEF RetiredDisjoint
  <2>9. QED BY <2>6, <2>7, <2>8
<1>5. CASE \/ hi_announce(t) \/ hi_publish(t) \/ hi_ping(t) \/ hi_confirm(t)
           \/ lo_save(t) \/ lo_check(t) \/ empty_scan(t) \/ empty_return(t)
  <2>1. UNCHANGED <<cell, pool, retired, obj>>
    BY <1>5, KeepsLists
  <2>2. QED BY <2>1 DEF LinksDisjoint, RetiringDisjoint, RetiredDisjoint, InList
<1>6. CASE empty_free(t)
  <2>1. /\ UNCHANGED <<cell, obj>> /\ Len(retired[t]) \in Nat
        /\ Len(retired'[t]) = Len(retired[t]) - 1
    BY <1>6, FreeStep
  <2>2. PICK k \in 1 .. Len(retired[t]) :
           /\ pool' = pool \union {retired[t][k]}
           /\ \A j \in 1 .. Len(retired[t]) - 1 :
                 retired'[t][j] = IF j < k THEN retired[t][j] ELSE retired[t][j + 1]
    BY <1>6, FreeStep
  <2>3. \A u \in Tid : u # t => retired'[u] = retired[u]
    BY <1>6, OthersKeep DEF retire
  <2> DEFINE old(u, j) == IF u = t /\ j >= k THEN j + 1 ELSE j
  <2>4. ASSUME NEW u \in Tid, NEW j \in 1 .. Len(retired'[u])
        PROVE  /\ old(u, j) \in 1 .. Len(retired[u]) /\ retired'[u][j] = retired[u][old(u, j)]
               /\ u = t => old(u, j) # k
    <3>1. CASE u = t
      BY <2>1, <2>2, <3>1
    <3>2. CASE u # t
      BY <2>3, <3>2
    <3>3. QED BY <3>1, <3>2
  <2>5. \A j, m \in Nat, u \in Tid : old(u, j) = old(u, m) => j = m
    OBVIOUS
  <2>6. \A u \in Tid : \A j \in 1 .. Len(retired'[u]) : j \in Nat
    OBVIOUS
  <2> HIDE DEF old
  <2>7. /\ \A c \in Cell : cell[c] # retired[t][k]
        /\ \A u \in Tid : obj[u] # retired[t][k] \/ obj[u] = NULL
    BY DEF RetiredDisjoint, RetiringDisjoint, InList
  <2>8. LinksDisjoint'
    BY <2>1, <2>2, <2>7 DEF LinksDisjoint
  <2>9. RetiringDisjoint'
    <3>1. \A u \in Tid : obj'[u] # NULL => obj'[u] \notin pool'
      BY <2>1, <2>2, <2>7 DEF RetiringDisjoint
    <3>2. ASSUME NEW u \in Tid, obj[u] # NULL, NEW v \in Tid PROVE ~InList(v, obj[u])'
      <4>1. ~InList(v, obj[u])
        BY <3>2 DEF RetiringDisjoint
      <4>2. obj'[u] = obj[u]
        BY <2>1
      <4>3. QED BY <2>4, <4>1, <4>2 DEF InList
    <3>3. QED BY <2>1, <3>1, <3>2 DEF RetiringDisjoint
  <2>10. RetiredDisjoint'
    <3> SUFFICES ASSUME NEW u \in Tid, NEW j \in 1 .. Len(retired'[u])
                 PROVE  /\ retired'[u][j] \notin pool'
                        /\ \A c \in Cell : cell'[c] # retired'[u][j]
                        /\ \A v \in Tid : \A m \in 1 .. Len(retired'[v]) :
                              retired'[v][m] = retired'[u][j] => v = u /\ m = j
      BY DEF RetiredDisjoint
    <3>1. retired'[u][j] \notin pool' /\ \A c \in Cell : cell'[c] # retired'[u][j]
      <4>1. /\ old(u, j) \in 1 .. Len(retired[u]) /\ retired'[u][j] = retired[u][old(u, j)]
            /\ u = t => old(u, j) # k
        BY <2>4
      <4>2. retired[u][old(u, j)] # retired[t][k]
        BY <4>1 DEF RetiredDisjoint
      <4>3. /\ retired[u][old(u, j)] \notin pool
            /\ \A c \in Cell : cell[c] # retired[u][old(u, j)]
        BY <4>1 DEF RetiredDisjoint
      <4>4. QED BY <2>1, <2>2, <4>1, <4>2, <4>3
    <3>2. ASSUME NEW v \in Tid, NEW m \in 1 .. Len(retired'[v]), retired'[v][m] = retired'[u][j]
          PROVE  v = u /\ m = j
      <4>1. retired[v][old(v, m)] = retired[u][old(u, j)]
        BY <2>4, <3>2
      <4>2. v = u /\ old(v, m) = old(u, j)
        BY <2>4, <4>1 DEF RetiredDisjoint
      <4>3. QED BY <2>5, <2>6, <4>2
    <3>3. QED BY <3>1, <3>2
  <2>11. QED BY <2>8, <2>9, <2>10
<1>7. QED
  BY <1>1, <1>2, <1>3, <1>4, <1>5, <1>6 DEF client, retire

-------------------------------------------------------------------------------
(* Slots of a thread are its own, whichever index names them. *)
LEMMA OwnSlot ==
  ASSUME NEW t \in Tid, NEW u \in Tid, NEW k \in Index, slotOf(u, k) \in slotsOf(t)
  PROVE  u = t
BY OneOwner DEF slotsOf, Index

(* A thread uses what its local slots name, *)
LEMMA NextLocalProtects ==
  ASSUME TypeOK, Locals, LocalProtects, NEW t \in Tid, client(t) \/ retire(t) \/ signal(t)
  PROVE  LocalProtects'
<1> USE DEF goto, records, reserved, stamps, loWm, signals, reading, emptying, LocalProtects
<1>1. CASE endOp(t)
  BY <1>1 DEF endOp
<1>2. CASE reserve(t)
  <2>1. idx[t] \in Slot /\ ref[idx[t]] = NULL /\ ref' = ref
    BY <1>2 DEF reserve, Locals, TypeOK
  <2>2. \A s \in Slot : s # idx[t] => local_slots'[s] = local_slots[s]
    BY <1>2 DEF reserve, TypeOK
  <2>3. QED BY <2>1, <2>2
<1>3. CASE read_validate(t)
  <2>1. /\ idx[t] \in slotsOf(t) /\ local_slots[idx[t]] = ret[t] /\ local_slots' = local_slots
        /\ \A s \in Slot : ref'[s] = ref[s] \/ (s = idx[t] /\ ref'[s] = ret[t])
    BY <1>3 DEF read_validate, Locals, TypeOK
  <2>2. \E k \in Index : idx[t] = slotOf(t, k)
    BY <2>1 DEF slotsOf, Index
  <2>3. QED BY <2>1, <2>2
<1>4. CASE \E c \in Cell, s \in slotsOf(t) : read_call(t, s, c)
  BY <1>4 DEF read_call, TypeOK
<1>5. CASE read_load(t) \/ (\E c \in Cell : insert(t, c) \/ erase(t, c)) \/ signal(t)
  <2>1. UNCHANGED <<ref, local_slots>>
    BY <1>5
    DEF read_load, insert, erase, signal, handler_start, handler_publish, handler_return
  <2>2. QED BY <2>1
<1>6. CASE retire_push(t)
  <2>1. local_slots' = local_slots /\ \A s \in Slot : ref'[s] # NULL => ref'[s] = ref[s]
    BY <1>6 DEF retire_push
  <2>2. QED BY <2>1
<1>7. CASE retire(t) /\ ~retire_push(t)
  <2>1. UNCHANGED <<ref, local_slots>>
    BY <1>7, KeepsLists, FreeStep DEF retire
  <2>2. QED BY <2>1
<1>8. QED BY <1>1, <1>2, <1>3, <1>4, <1>5, <1>6, <1>7 DEF client

(* has no record of its own list in use, *)
LEMMA NextOwnDone ==
  ASSUME TypeOK, Locals, OnePlace, OwnDone, NEW t \in Tid, client(t) \/ retire(t) \/ signal(t)
  PROVE  OwnDone'
<1>1. CASE client(t)
  <2>1. retired' = retired /\ \A s \in Slot : ref'[s] # ref[s] => \A u \in Tid : ~InList(u, ref'[s])
    BY <1>1, ClientStep
  <2>2. QED BY <2>1, SlotInRange DEF OwnDone, InList
<1>2. CASE signal(t)
  <2>1. UNCHANGED <<ref, retired>>
    BY <1>2 DEF signal, handler_start, handler_publish, handler_return
  <2>2. QED BY <2>1 DEF OwnDone
<1>3. CASE retire_push(t)
  <2>1. \A u \in Tid : u # t => retired'[u] = retired[u]
    BY <1>3, OthersKeep DEF retire
  <2>2. \A j \in 1 .. Len(retired'[t]) : retired'[t][j] = obj[t] \/
           (j \in 1 .. Len(retired[t]) /\ retired'[t][j] = retired[t][j])
    BY <1>3, PushStep
  <2>3. ref' = [s \in Slot |-> IF s \in slotsOf(t) /\ ref[s] = obj[t] THEN NULL ELSE ref[s]]
    BY <1>3 DEF retire_push
  <2>4. /\ obj[t] # NULL
        /\ \A u \in Tid : \A j \in 1 .. Len(retired[u]) : retired[u][j] # NULL
    BY <1>3, PushStep, ListHoldsRecords, LinkedRecordsAssumption
  <2>5. QED BY <2>1, <2>2, <2>3, <2>4, SlotInRange DEF OwnDone
<1>4. CASE \/ hi_announce(t) \/ hi_publish(t) \/ hi_ping(t) \/ hi_confirm(t)
           \/ lo_save(t) \/ lo_check(t) \/ empty_scan(t) \/ empty_return(t)
  <2>1. UNCHANGED <<ref, retired>>
    BY <1>4, KeepsLists
  <2>2. QED BY <2>1 DEF OwnDone
<1>5. CASE empty_free(t)
  <2>1. ref' = ref /\ \A u \in Tid : u # t => retired'[u] = retired[u]
    BY <1>5, FreeStep, OthersKeep DEF retire
  <2>2. \A j \in 1 .. Len(retired'[t]) : \E m \in 1 .. Len(retired[t]) :
           retired'[t][j] = retired[t][m]
    <3>1. PICK k \in 1 .. Len(retired[t]) :
             \A j \in 1 .. Len(retired[t]) - 1 :
                retired'[t][j] = IF j < k THEN retired[t][j] ELSE retired[t][j + 1]
      BY <1>5, FreeStep
    <3>2. Len(retired'[t]) = Len(retired[t]) - 1 /\ Len(retired[t]) \in Nat
      BY <1>5, FreeStep
    <3>3. \A j \in 1 .. Len(retired[t]) - 1 :
             j \in 1 .. Len(retired[t]) /\ j + 1 \in 1 .. Len(retired[t])
      BY <3>2
    <3>4. QED BY <3>1, <3>2, <3>3
  <2>3. QED BY <2>1, <2>2 DEF OwnDone
<1>6. QED BY <1>1, <1>2, <1>3, <1>4, <1>5 DEF retire

(* and publishes its slots at the start of a round. *)
LEMMA NextOwnPublished ==
  ASSUME TypeOK, Locals, Loops, OnePlace, OwnPublished, NEW t \in Tid,
         client(t) \/ retire(t) \/ signal(t)
  PROVE  OwnPublished'
<1> USE DEF goto, records, reserved, stamps, loWm, signals, reading, emptying
<1>1. CASE client(t)
  <2>1. /\ UNCHANGED <<slots, i>> /\ pc'[t] \in Calm
        /\ \A u \in Tid : u # t => pc'[u] = pc[u]
        /\ \A s \in Slot : local_slots'[s] # local_slots[s] => s \in slotsOf(t)
    BY <1>1, ClientStep
  <2>2. \A u \in Tid, k \in Index :
           u # t => local_slots'[slotOf(u, k)] = local_slots[slotOf(u, k)]
    BY <2>1, SlotInRange, OwnSlot
  <2>3. QED BY <2>1, <2>2 DEF OwnPublished, Calm
<1>2. CASE signal(t)
  <2>1. /\ UNCHANGED <<pc, i, local_slots>>
        /\ \A s \in Slot : slots'[s] = slots[s] \/ slots'[s] = local_slots[s]
    BY <1>2 DEF signal, handler_start, handler_publish, handler_return, TypeOK
  <2>2. QED BY <2>1, SlotInRange DEF OwnPublished
<1>3. CASE hi_publish(t)
  <2>1. pc[t] = "publish" /\ i[t] \in Nat /\ local_slots' = local_slots /\ i[t] <= SlotsPerThread
    BY <1>3 DEF hi_publish, TypeOK, Loops
  <2>2. \A u \in Tid : u # t => pc'[u] = pc[u] /\ i'[u] = i[u]
    BY <1>3, OthersKeep DEF retire
  <2>3. CASE i[t] < SlotsPerThread
    <3>1. /\ slots' = [slots EXCEPT ![slotOf(t, i[t])] = local_slots[slotOf(t, i[t])]]
          /\ pc'[t] = "publish" /\ i'[t] = i[t] + 1
      BY <1>3, <2>3 DEF hi_publish, TypeOK
    <3>2. \A s \in Slot : slots'[s] = IF s = slotOf(t, i[t]) THEN local_slots[s] ELSE slots[s]
      BY <3>1 DEF TypeOK
    <3>3. \A k \in Index : k < i[t] + 1 => k < i[t] \/ k = i[t]
      BY <2>1 DEF Index
    <3>4. QED BY <2>1, <2>2, <3>1, <3>2, <3>3, SlotInRange DEF OwnPublished
  <2>4. CASE ~(i[t] < SlotsPerThread)
    <3>1. slots' = slots /\ pc'[t] = "ping"
      BY <1>3, <2>4 DEF hi_publish, TypeOK
    <3>2. \A k \in Index : k < i[t]
      BY <2>1, <2>4, Bounds DEF Index
    <3>3. QED BY <2>1, <2>2, <3>1, <3>2 DEF OwnPublished
  <2>5. QED BY <2>3, <2>4
<1>4. CASE hi_announce(t)
  <2>1. /\ pc'[t] = "publish" /\ UNCHANGED <<slots, local_slots>> /\ i'[t] = 0
        /\ \A u \in Tid : u # t => pc'[u] = pc[u] /\ i'[u] = i[u]
    BY <1>4, OthersKeep DEF hi_announce, Loops, TypeOK, retire
  <2>2. \A k \in Index : ~(k < 0)
    BY DEF Index
  <2>3. QED BY <2>1, <2>2 DEF OwnPublished
<1>5. CASE hi_ping(t)
  <2>1. /\ pc[t] = "ping" /\ pc'[t] \in {"ping", "confirm"} /\ UNCHANGED <<slots, local_slots>>
        /\ \A u \in Tid : u # t => pc'[u] = pc[u] /\ i'[u] = i[u]
    BY <1>5, OthersKeep, ZenonT(30) DEF hi_ping, TypeOK, retire
  <2>2. QED BY <2>1 DEF OwnPublished
<1>6. CASE \/ retire_push(t) \/ hi_confirm(t) \/ lo_save(t) \/ lo_check(t)
           \/ empty_scan(t) \/ empty_free(t) \/ empty_return(t)
  <2>1. pc'[t] \notin Round /\ UNCHANGED <<slots, local_slots>>
    BY <1>6, SMTT(30)
    DEF retire_push, hi_confirm, lo_save, lo_check, empty_scan, empty_free, empty_return,
        TypeOK, Round
  <2>2. \A u \in Tid : u # t => pc'[u] = pc[u] /\ i'[u] = i[u]
    BY <1>6, OthersKeep DEF retire
  <2>3. QED BY <2>1, <2>2 DEF OwnPublished, Round
<1>7. QED BY <1>1, <1>2, <1>3, <1>4, <1>5, <1>6 DEF retire

-------------------------------------------------------------------------------
(* A list whose records were all found in slots is no longer than they are *)
(* many, since no record is in it twice.                                   *)
LEMMA ListOfScanned ==
  ASSUME TypeOK, OnePlace, NEW t \in Tid, NEW S, IsFiniteSet(S),
         \A j \in 1 .. Len(retired[t]) : retired[t][j] \in S
  PROVE  Len(retired[t]) <= Cardinality(S)
<1> DEFINE N == Len(retired[t])
           f == [j \in 1 .. N |-> retired[t][j]]
<1>1. N \in Nat
  BY ListHoldsRecords
<1>2. f \in Injection(1 .. N, S)
  <2>1. f \in [1 .. N -> S]
    OBVIOUS
  <2>2. \A j, k \in 1 .. N : f[j] = f[k] => j = k
    BY DEF OnePlace, RetiredDisjoint
  <2>3. QED BY <2>1, <2>2 DEF Injection, IsInjective
<1> HIDE DEF N, f
<1>3. Cardinality(1 .. N) <= Cardinality(S)
  BY <1>2, FS_Injection
<1>4. Cardinality(1 .. N) = N
  BY <1>1, FS_Interval
<1>5. QED BY <1>3, <1>4 DEF N

(* A set grows by at most one when at most one is added. *)
LEMMA AtMostOneMore ==
  ASSUME NEW S, IsFiniteSet(S), NEW x, NEW T, T = S \/ T = S \union {x}
  PROVE  IsFiniteSet(T) /\ Cardinality(T) <= Cardinality(S) + 1
<1>1. Cardinality(S) \in Nat
  BY FS_CardinalityType
<1>2. /\ IsFiniteSet(S \union {x})
      /\ Cardinality(S \union {x}) = IF x \in S THEN Cardinality(S) ELSE Cardinality(S) + 1
  BY FS_AddElement
<1>3. CASE T = S
  <2>1. Cardinality(S) <= Cardinality(S) + 1
    BY <1>1
  <2>2. QED BY <1>3, <2>1, Zenon
<1>4. CASE T = S \union {x}
  <2>1. Cardinality(S \union {x}) <= Cardinality(S) + 1
    BY <1>1, <1>2
  <2>2. QED BY <1>2, <1>4, <2>1, Zenon
<1>5. QED BY <1>3, <1>4

(* No list outgrows a full one, or the slots and one more. *)
LEMMA NextLengths ==
  ASSUME TypeOK, Locals, Loops, Flags, Books, OnePlace, Lengths, NEW t \in Tid,
         client(t) \/ retire(t) \/ signal(t)
  PROVE  Lengths'
<1> USE DEF goto, records, reserved, stamps, loWm, signals, reading, emptying
<1>1. CASE client(t)
  BY <1>1, ClientStep DEF Lengths, Calm
<1>2. CASE signal(t)
  BY <1>2 DEF signal, handler_start, handler_publish, handler_return, Lengths
<1>3. CASE retire(t)
  <2> DEFINE Own ==
               /\ Len(retired'[t]) <= EmptyFreq \/ Len(retired'[t]) <= NumSlots + 1
               /\ pc'[t] \in Calm => Len(retired'[t]) < EmptyFreq \/ Len(retired'[t]) <= NumSlots
               /\ pc'[t] = "sweep" /\ firstLoEntryFlag'[t] => limit'[t] = Len(retired'[t])
               /\ IsFiniteSet(scanned'[t])
               /\ pc'[t] = "scan" => Cardinality(scanned'[t]) <= i'[t]
               /\ pc'[t] = "sweep" => Cardinality(scanned'[t]) <= NumSlots
  <2>1. /\ Len(retired[t]) \in Nat /\ IsFiniteSet(scanned[t]) /\ Cardinality(scanned[t]) \in Nat
        /\ i[t] \in Nat /\ EmptyFreq \in Nat /\ NumSlots \in Nat
    BY ListHoldsRecords, FS_CardinalityType, Bounds DEF Lengths, TypeOK
  <2>2. ASSUME retire_push(t) PROVE Own
    <3>1. Len(retired'[t]) = Len(retired[t]) + 1 /\ pc[t] = "retire" /\ scanned'[t] = scanned[t]
      BY <2>2, PushStep DEF retire_push
    <3>2. /\ pc'[t] \in {"announce", "save", "check", "op"}
          /\ pc'[t] = "op" => ~isOutOfPatience(Len(retired[t]) + 1)
      BY <2>2 DEF retire_push, TypeOK
    <3>3. QED BY <2>1, <3>1, <3>2 DEF Lengths, Calm, isOutOfPatience
  <2>3. ASSUME hi_announce(t) \/ hi_publish(t) \/ hi_ping(t) \/ lo_save(t) PROVE Own
    <3>1. /\ UNCHANGED <<retired, scanned>>
          /\ pc'[t] \in {"publish", "ping", "confirm", "save", "check"}
      BY <2>3 DEF hi_announce, hi_publish, hi_ping, lo_save, TypeOK
    <3>2. QED BY <2>1, <3>1 DEF Lengths, Calm
  <2>4. ASSUME hi_confirm(t) \/ lo_check(t) PROVE Own
    <3>1. /\ UNCHANGED <<retired, scanned>> /\ scanned[t] = {} /\ Cardinality({}) = 0
          /\ pc'[t] = "scan" => i'[t] = 0
      BY <2>4, FS_EmptySet DEF hi_confirm, lo_check, Loops, TypeOK
    <3>2. /\ pc'[t] \in {"scan", "check", "op"}
          /\ pc'[t] = "op" => pc[t] = "check"
      BY <2>4 DEF hi_confirm, lo_check, TypeOK
    <3>3. pc'[t] = "op" => Len(retired[t]) < EmptyFreq
      BY <3>2 DEF Flags, Books
    <3>4. QED BY <2>1, <3>1, <3>2, <3>3 DEF Lengths, Calm
  <2>5. ASSUME empty_scan(t) PROVE Own
    <3> DEFINE S == scanned[t] \union ({slots[i[t]]} \ {NULL})
    <3>1. IsFiniteSet(S) /\ Cardinality(S) <= Cardinality(scanned[t]) + 1
      <4>1. S = scanned[t] \/ S = scanned[t] \union {slots[i[t]]}
        OBVIOUS
      <4> HIDE DEF S
      <4>2. QED BY <2>1, <4>1, AtMostOneMore
    <3>2. /\ scanned'[t] = S /\ retired' = retired /\ pc[t] = "scan"
          /\ firstLoEntryFlag' = firstLoEntryFlag
          /\ \/ pc'[t] = "scan" /\ i'[t] = i[t] + 1
             \/ pc'[t] = "sweep" /\ limit'[t] = sweepLimit(t)
      BY <2>5 DEF empty_scan, TypeOK
    <3>3. Cardinality(S) \in Nat /\ Cardinality(S) <= i[t] + 1 /\ i[t] < NumSlots
      BY <2>1, <3>1, <3>2, FS_CardinalityType DEF Lengths, Loops
    <3> HIDE DEF S
    <3>4. QED BY <2>1, <3>1, <3>2, <3>3 DEF Lengths, Calm, sweepLimit
  <2>6. ASSUME empty_free(t) PROVE Own
    <3>1. /\ Len(retired'[t]) = Len(retired[t]) - 1 /\ pc'[t] = "sweep" /\ pc[t] = "sweep"
          /\ limit'[t] = limit[t] - 1 /\ UNCHANGED <<scanned, firstLoEntryFlag>>
      BY <2>6, FreeStep
    <3>2. QED BY <2>1, <3>1 DEF Lengths, Calm
  <2>7. ASSUME empty_return(t) PROVE Own
    <3>1. /\ pc[t] = "sweep" /\ pc'[t] = "op" /\ retired' = retired /\ scanned'[t] = {}
          /\ IsFiniteSet({})
          /\ \A k \in 1 .. limit[t] : retired[t][k] \in scanned[t]
      BY <2>7, FS_EmptySet DEF empty_return, reclaimable, conflict, TypeOK
    <3>2. CASE firstLoEntryFlag[t]
      <4>1. Len(retired[t]) <= Cardinality(scanned[t])
        BY <2>1, <3>1, <3>2, ListOfScanned DEF Lengths
      <4>2. QED BY <2>1, <3>1, <4>1 DEF Lengths
    <3>3. CASE ~firstLoEntryFlag[t]
      BY <2>1, <3>1, <3>3 DEF Books
    <3>4. QED BY <3>2, <3>3
  <2>8. Own
    BY <1>3, <2>2, <2>3, <2>4, <2>5, <2>6, <2>7 DEF retire
  <2>9. QED BY <1>3, <2>8, OthersKeep DEF Lengths
<1>4. QED BY <1>1, <1>2, <1>3

(* A round begins when the thread has published all its own slots, *)
LEMMA PublishStep ==
  ASSUME TypeOK, Loops, NEW t \in Tid, hi_publish(t)
  PROVE  /\ pc[t] = "publish" /\ i[t] \in Nat
         /\ \/ /\ i[t] \in Index /\ pc'[t] = "publish" /\ mypublishingTS' = mypublishingTS
               /\ \A s \in Slot : slots'[s] = IF s = slotOf(t, i[t]) THEN local_slots[s]
                                                                   ELSE slots[s]
            \/ pc'[t] = "ping" /\ i'[t] = 0 /\ slots' = slots
         /\ \A s \in Slot : slots'[s] \in {slots[s], local_slots[s]}
         /\ \A u \in Tid : mypublishingTS'[u] \in {mypublishingTS[u], mypublishingTS[u] + 1}
         /\ UNCHANGED <<announcedTS, myscannedTS, savedTS, firstLoEntryFlag,
                        retire_bag_size_when_entered_loWm, pending, handler, scanned, limit>>
<1> USE DEF goto, records, reserved, stamps, loWm, signals, reading, emptying
<1>1. /\ pc[t] = "publish" /\ i[t] \in Nat
      /\ UNCHANGED <<announcedTS, myscannedTS, savedTS, firstLoEntryFlag,
                     retire_bag_size_when_entered_loWm, pending, handler, scanned, limit>>
  BY DEF hi_publish, TypeOK
<1>2. CASE i[t] < SlotsPerThread
  <2>1. /\ slots' = [slots EXCEPT ![slotOf(t, i[t])] = local_slots[slotOf(t, i[t])]]
        /\ mypublishingTS' = mypublishingTS /\ pc' = [pc EXCEPT ![t] = "publish"]
    BY <1>2 DEF hi_publish
  <2>2. i[t] \in Index
    BY <1>1, <1>2, Bounds DEF Index
  <2>3. /\ pc'[t] = "publish"
        /\ \A s \in Slot : slots'[s] = IF s = slotOf(t, i[t]) THEN local_slots[s] ELSE slots[s]
    BY <2>1 DEF TypeOK
  <2>4. QED BY <1>1, <2>1, <2>2, <2>3
<1>3. CASE ~(i[t] < SlotsPerThread)
  <2>1. /\ mypublishingTS' = [mypublishingTS EXCEPT ![t] = @ + 1] /\ slots' = slots
        /\ pc' = [pc EXCEPT ![t] = "ping"] /\ i' = [i EXCEPT ![t] = 0]
    BY <1>3 DEF hi_publish
  <2>2. pc'[t] = "ping" /\ i'[t] = 0
    BY <2>1 DEF TypeOK
  <2>3. \A u \in Tid : mypublishingTS'[u] \in {mypublishingTS[u], mypublishingTS[u] + 1}
    BY <2>1 DEF TypeOK
  <2>4. QED BY <1>1, <2>1, <2>2, <2>3
<1>4. QED BY <1>2, <1>3

(* and signals the others one by one. *)
LEMMA PingStep ==
  ASSUME TypeOK, Loops, NEW t \in Tid, hi_ping(t)
  PROVE  /\ pc[t] = "ping" /\ pc'[t] \in {"ping", "confirm"}
         /\ \A v \in Tid : Signalled(t, v)' => Signalled(t, v) \/ pending'[v]
         /\ \A v \in Tid : pending[v] => pending'[v]
         /\ UNCHANGED <<slots, announcedTS, mypublishingTS, myscannedTS, savedTS,
                        firstLoEntryFlag, retire_bag_size_when_entered_loWm, handler,
                        scanned, limit>>
<1> USE DEF goto, records, reserved, stamps, loWm, reading
<1>1. /\ pc[t] = "ping" /\ pending' = [pending EXCEPT ![i[t]] = @ \/ i[t] # t]
      /\ UNCHANGED <<slots, announcedTS, mypublishingTS, myscannedTS, savedTS,
                     firstLoEntryFlag, retire_bag_size_when_entered_loWm, handler,
                     scanned, limit>>
  BY DEF hi_ping
<1>2. i[t] \in Nat /\ i[t] < NumProcess /\ i[t] \in Tid
  <2>1. i[t] \in 0 .. NumSlots /\ i[t] < NumProcess
    BY <1>1 DEF Loops, TypeOK
  <2>2. QED BY <2>1, Bounds DEF Tid
<1>3. \A v \in Tid : (pending[v] => pending'[v]) /\ (v = i[t] /\ v # t => pending'[v])
  BY <1>1, <1>2 DEF TypeOK
<1>4. \/ pc' = [pc EXCEPT ![t] = "ping"] /\ i' = [i EXCEPT ![t] = i[t] + 1]
      \/ /\ pc' = [pc EXCEPT ![t] = "confirm"] /\ ~(i[t] + 1 < NumProcess)
  BY DEF hi_ping
<1>5. \/ pc'[t] = "ping" /\ i'[t] = i[t] + 1
      \/ pc'[t] = "confirm" /\ ~(i[t] + 1 < NumProcess)
  BY <1>4 DEF TypeOK
<1>6. \A v \in Tid : (pc'[t] = "confirm" \/ (pc'[t] = "ping" /\ v < i'[t])) => v < i[t] \/ v = i[t]
  BY <1>2, <1>5, Bounds DEF Tid
<1>7. QED BY <1>1, <1>2, <1>3, <1>5, <1>6 DEF Signalled

(* Whoever is signalled publishes after the round was announced, *)
LEMMA NextAnswers ==
  ASSUME TypeOK, Locals, Loops, OnePlace, Answers, NEW t \in Tid,
         client(t) \/ retire(t) \/ signal(t)
  PROVE  Answers'
<1> USE DEF goto, records, reserved, stamps, loWm, signals, reading, emptying
<1>0. \A u, v \in Tid : myscannedTS[u][v] \in Nat /\ mypublishingTS[v] \in Nat /\ handler[v] \in Nat
  BY DEF TypeOK
<1>1. CASE client(t)
  BY <1>1, ClientStep DEF Answers, Signalled, Calm
<1>2. CASE handler_start(t)
  <2>1. /\ UNCHANGED <<pc, i, myscannedTS, mypublishingTS>> /\ handler'[t] = 1
        /\ \A u \in Tid : u # t => pending'[u] = pending[u] /\ handler'[u] = handler[u]
    BY <1>2 DEF handler_start, TypeOK
  <2>2. QED BY <2>1 DEF Answers, Signalled
<1>3. CASE handler_publish(t)
  <2>1. /\ UNCHANGED <<pc, i, myscannedTS, mypublishingTS, pending>> /\ handler'[t] > 0
        /\ \A u \in Tid : u # t => handler'[u] = handler[u]
    BY <1>0, <1>3, Bounds DEF handler_publish, TypeOK
  <2>2. QED BY <2>1 DEF Answers, Signalled
<1>4. CASE handler_return(t)
  <2>1. /\ UNCHANGED <<pc, i, myscannedTS, pending>>
        /\ mypublishingTS'[t] = mypublishingTS[t] + 1
        /\ \A u \in Tid : u # t => handler'[u] = handler[u] /\ mypublishingTS'[u] = mypublishingTS[u]
    BY <1>4 DEF handler_return, TypeOK
  <2>2. QED BY <1>0, <2>1 DEF Answers, Signalled
<1>5. CASE hi_announce(t)
  <2>1. /\ pc'[t] = "publish" /\ myscannedTS'[t] = mypublishingTS
        /\ UNCHANGED <<mypublishingTS, pending, handler>>
        /\ \A u \in Tid : u # t => pc'[u] = pc[u] /\ i'[u] = i[u] /\ myscannedTS'[u] = myscannedTS[u]
    BY <1>5, OthersKeep DEF hi_announce, TypeOK, retire
  <2>2. QED BY <1>0, <2>1 DEF Answers, Signalled
<1>6. CASE hi_publish(t)
  <2>1. \A u \in Tid : u # t => pc'[u] = pc[u] /\ i'[u] = i[u]
    BY <1>6, OthersKeep DEF retire
  <2>2. /\ UNCHANGED <<myscannedTS, pending, handler>>
        /\ pc'[t] = "publish" \/ (pc'[t] = "ping" /\ i'[t] = 0)
    BY <1>6, PublishStep
  <2>3. \A u \in Tid : mypublishingTS'[u] \in {mypublishingTS[u], mypublishingTS[u] + 1}
    BY <1>6, PublishStep
  <2>4. \A v \in Tid : ~(v < 0)
    BY DEF Tid
  <2>5. \A u, v \in Tid : Signalled(u, v)' => Signalled(u, v)
    BY <2>1, <2>2, <2>4 DEF Signalled
  <2>6. QED BY <1>0, <2>2, <2>3, <2>5 DEF Answers
<1>7. CASE hi_ping(t)
  <2>1. \A u \in Tid : u # t => pc'[u] = pc[u] /\ i'[u] = i[u]
    BY <1>7, OthersKeep DEF retire
  <2>2. \A u, v \in Tid : Signalled(u, v)' => Signalled(u, v) \/ pending'[v]
    BY <1>7, <2>1, PingStep DEF Signalled
  <2>3. /\ UNCHANGED <<mypublishingTS, myscannedTS, handler>>
        /\ \A v \in Tid : pending[v] => pending'[v]
    BY <1>7, PingStep
  <2>4. QED BY <2>2, <2>3 DEF Answers
<1>8. CASE \/ retire_push(t) \/ hi_confirm(t) \/ lo_save(t) \/ lo_check(t)
           \/ empty_scan(t) \/ empty_free(t) \/ empty_return(t)
  <2>1. pc'[t] \notin Round /\ UNCHANGED <<mypublishingTS, myscannedTS, pending, handler>>
    BY <1>8, SMTT(30)
    DEF retire_push, hi_confirm, lo_save, lo_check, empty_scan, empty_free, empty_return,
        TypeOK, Round
  <2>2. \A u \in Tid : u # t => pc'[u] = pc[u] /\ i'[u] = i[u]
    BY <1>8, OthersKeep DEF retire
  <2>3. QED BY <2>1, <2>2 DEF Answers, Signalled, Round
<1>9. QED BY <1>1, <1>2, <1>3, <1>4, <1>5, <1>6, <1>7, <1>8 DEF retire, signal

(* so that all have when the signals are delivered before the round ends. *)
LEMMA NextAllPublished ==
  ASSUME TypeOK, Locals, Loops, Flags, OnePlace, Answers, AllPublished, PromptDelivery, NEW t \in Tid,
         client(t) \/ retire(t) \/ signal(t)
  PROVE  AllPublished'
<1> USE DEF goto, records, reserved, stamps, loWm, signals, reading, emptying
<1>0. \A u, v \in Tid : myscannedTS[u][v] \in Nat /\ mypublishingTS[v] \in Nat
  BY DEF TypeOK
<1>1. CASE client(t)
  BY <1>1, ClientStep DEF AllPublished, Calm
<1>2. CASE signal(t)
  <2>1. /\ UNCHANGED <<pc, i, myscannedTS, firstLoEntryFlag>>
        /\ \A u \in Tid : mypublishingTS'[u] \in {mypublishingTS[u], mypublishingTS[u] + 1}
    BY <1>2 DEF signal, handler_start, handler_publish, handler_return, TypeOK
  <2>2. QED BY <1>0, <2>1 DEF AllPublished
<1>3. CASE retire(t)
  <2>1. \A u \in Tid : u # t =>
           /\ pc'[u] = pc[u] /\ i'[u] = i[u] /\ myscannedTS'[u] = myscannedTS[u]
           /\ firstLoEntryFlag'[u] = firstLoEntryFlag[u]
    BY <1>3, OthersKeep
  <2>2. \A u \in Tid : mypublishingTS'[u] \in {mypublishingTS[u], mypublishingTS[u] + 1}
    <3>1. CASE hi_publish(t)
      BY <3>1, PublishStep
    <3>2. CASE ~hi_publish(t)
      <4>1. mypublishingTS' = mypublishingTS
        BY <1>3, <3>2, FreeStep
        DEF retire, retire_push, hi_announce, hi_ping, hi_confirm, lo_save, lo_check,
            empty_scan, empty_return
      <4>2. QED BY <4>1
    <3>3. QED BY <3>1, <3>2
  <2>3. ASSUME pc'[t] = "scan", i'[t] = 0, firstLoEntryFlag'[t], NEW u \in Tid, u # t
        PROVE  mypublishingTS'[u] > myscannedTS'[t][u]
    <3>1. CASE hi_confirm(t)
      <4>1. /\ pc[t] = "confirm" /\ UNCHANGED <<mypublishingTS, myscannedTS>>
            /\ ~pending[u] /\ handler[u] = 0
        BY <2>3, <3>1 DEF hi_confirm
      <4>2. QED BY <1>0, <2>3, <4>1 DEF Answers, Signalled
    <3>2. CASE lo_check(t)
      <4>1. pc[t] = "check" /\ firstLoEntryFlag' = firstLoEntryFlag
        BY <3>2 DEF lo_check, countRetire
      <4>2. QED BY <2>3, <4>1 DEF Flags
    <3>3. CASE empty_scan(t)
      <4>1. \/ pc' = [pc EXCEPT ![t] = "scan"] /\ i' = [i EXCEPT ![t] = i[t] + 1]
            \/ pc' = [pc EXCEPT ![t] = "sweep"]
        BY <3>3 DEF empty_scan
      <4>2. DOMAIN pc = Tid /\ i \in [Tid -> 0 .. NumSlots]
        BY DEF TypeOK
      <4>3. i[t] \in Nat /\ i'[t] = i[t] + 1
        BY <2>3, <4>1, <4>2
      <4>4. QED BY <2>3, <4>3
    <3>4. CASE ~(hi_confirm(t) \/ lo_check(t) \/ empty_scan(t))
      <4>1. \E x \in {"announce", "save", "check", "op", "publish", "ping", "confirm", "sweep"} :
               pc' = [pc EXCEPT ![t] = x]
        BY <1>3, <3>4
        DEF retire, retire_push, hi_announce, hi_publish, hi_ping, lo_save, empty_free,
            empty_return
      <4>2. QED BY <2>3, <4>1 DEF TypeOK
    <3>5. QED BY <3>1, <3>2, <3>3, <3>4
  <2>4. QED BY <1>0, <2>1, <2>2, <2>3 DEF AllPublished
<1>4. QED BY <1>1, <1>2, <1>3

-------------------------------------------------------------------------------
(* What the handler does to the slots of its thread. *)
LEMMA SignalStep ==
  ASSUME TypeOK, NEW t \in Tid, signal(t)
  PROVE  /\ UNCHANGED <<cell, pool, local_slots, ref, retired, announcedTS, myscannedTS, savedTS,
                        firstLoEntryFlag, numRetiresSinceLoWatermark,
                        retire_bag_size_when_entered_loWm, pc, i, scanned, limit, obj>>
         /\ \A s \in Slot : slots'[s] \in {slots[s], local_slots[s]}
         /\ \A v \in Tid : \A k \in Index :
               Coming(v, k) => Coming(v, k)' \/ slots'[slotOf(v, k)] = local_slots[slotOf(v, k)]
<1> USE DEF records, reserved, stamps, loWm, signals, reading, emptying
<1>1. /\ UNCHANGED <<cell, pool, local_slots, ref, retired, announcedTS, myscannedTS, savedTS,
                     firstLoEntryFlag, numRetiresSinceLoWatermark,
                     retire_bag_size_when_entered_loWm, pc, i, scanned, limit, obj>>
      /\ \A s \in Slot : slots'[s] \in {slots[s], local_slots[s]}
  BY DEF signal, handler_start, handler_publish, handler_return, TypeOK
<1>2. SUFFICES ASSUME NEW v \in Tid, NEW k \in Index, Coming(v, k)
               PROVE  Coming(v, k)' \/ slots'[slotOf(v, k)] = local_slots[slotOf(v, k)]
  BY <1>1
<1>3. handler[v] \in Nat /\ handler[t] \in Nat /\ k \in Nat /\ k + 1 <= SlotsPerThread
  BY Bounds DEF TypeOK, Index
<1>4. CASE handler_start(t)
  <2>1. /\ handler'[t] = 1
        /\ \A u \in Tid : u # t => pending'[u] = pending[u] /\ handler'[u] = handler[u]
    BY <1>4 DEF handler_start, TypeOK
  <2>2. QED BY <1>2, <1>3, <2>1 DEF Coming
<1>5. CASE handler_publish(t)
  <2>1. /\ handler'[t] = handler[t] + 1 /\ pending' = pending
        /\ \A u \in Tid : u # t => handler'[u] = handler[u]
        /\ slots' = [slots EXCEPT ![slotOf(t, handler[t] - 1)] =
                        local_slots[slotOf(t, handler[t] - 1)]]
    BY <1>5 DEF handler_publish, TypeOK
  <2>2. CASE v = t /\ k = handler[t] - 1
    <3>1. slots'[slotOf(v, k)] = local_slots[slotOf(v, k)]
      BY <2>1, <2>2, SlotInRange DEF TypeOK
    <3>2. QED BY <3>1
  <2>3. CASE ~(v = t /\ k = handler[t] - 1)
    BY <1>2, <1>3, <2>1, <2>3 DEF Coming
  <2>4. QED BY <2>2, <2>3
<1>6. CASE handler_return(t)
  <2>1. /\ handler[t] = SlotsPerThread + 1 /\ pending' = pending
        /\ \A u \in Tid : u # t => handler'[u] = handler[u]
    BY <1>6 DEF handler_return, TypeOK
  <2>2. QED BY <1>2, <1>3, <2>1, Bounds DEF Coming
<1>7. QED BY <1>4, <1>5, <1>6 DEF signal

(* What a thread uses stays published, and what is coming comes. *)
LEMMA StillPublished ==
  ASSUME TypeOK, Locals, Loops, OnePlace, LocalProtects, NEW t \in Tid,
         client(t) \/ retire(t) \/ signal(t),
         NEW v \in Tid, NEW k \in Index, NEW n \in Node, ref[slotOf(v, k)] = n
  PROVE  /\ slots[slotOf(v, k)] = n => slots'[slotOf(v, k)] = n
         /\ Coming(v, k) => Coming(v, k)' \/ slots'[slotOf(v, k)] = n
<1>1. slotOf(v, k) \in Slot /\ local_slots[slotOf(v, k)] = n
  BY SlotInRange, LinkedRecordsAssumption DEF LocalProtects
<1>2. CASE client(t)
  BY <1>2, ClientStep DEF Coming
<1>3. CASE signal(t)
  BY <1>1, <1>3, SignalStep
<1>4. CASE hi_publish(t)
  BY <1>1, <1>4, PublishStep DEF Coming
<1>5. CASE hi_ping(t)
  BY <1>5, PingStep DEF Coming
<1>6. CASE \/ retire_push(t) \/ hi_announce(t) \/ hi_confirm(t) \/ lo_save(t) \/ lo_check(t)
           \/ empty_scan(t) \/ empty_return(t)
  <2>1. UNCHANGED <<slots, pending, handler>>
    BY <1>6
    DEF retire_push, hi_announce, hi_confirm, lo_save, lo_check, empty_scan, empty_return,
        reserved, signals
  <2>2. QED BY <2>1 DEF Coming
<1>7. CASE empty_free(t)
  BY <1>7, FreeStep DEF Coming
<1>8. QED BY <1>2, <1>3, <1>4, <1>5, <1>6, <1>7 DEF retire

(* A thread begins to use no record of a list, and only retire extends it. *)
LEMMA SameUse ==
  ASSUME TypeOK, Locals, Loops, OnePlace, NEW t \in Tid, client(t) \/ retire(t) \/ signal(t),
         NEW p \in Tid, NEW j \in 1 .. Len(retired'[p]), NEW s \in Slot,
         ref'[s] = retired'[p][j]
  PROVE  /\ ref[s] = ref'[s]
         /\ \/ \E m \in 1 .. Len(retired[p]) : retired[p][m] = retired'[p][j]
            \/ p = t /\ retire_push(t)
         /\ ~(p = t /\ empty_free(t)) /\ j \in 1 .. Len(retired[p]) =>
               retired'[p][j] = retired[p][j]
<1>1. CASE client(t)
  <2>1. retired' = retired /\ (ref'[s] # ref[s] => \A u \in Tid : ~InList(u, ref'[s]))
    BY <1>1, ClientStep
  <2>2. QED BY <2>1 DEF InList
<1>2. CASE signal(t)
  BY <1>2, SignalStep
<1>3. CASE retire(t) /\ p # t
  <2>1. retired'[p] = retired[p]
    BY <1>3, OthersKeep
  <2>2. \A m \in 1 .. Len(retired[p]) : retired[p][m] # NULL
    BY ListHoldsRecords
  <2>3. ref'[s] # NULL => ref'[s] = ref[s]
    <3>1. CASE retire_push(t)
      BY <3>1 DEF retire_push
    <3>2. CASE ~retire_push(t)
      BY <1>3, <3>2, KeepsLists, FreeStep DEF retire
    <3>3. QED BY <3>1, <3>2
  <2>4. QED BY <2>1, <2>2, <2>3
<1>4. CASE retire_push(t) /\ p = t
  <2>1. /\ \A m \in 1 .. Len(retired[t]) : retired'[t][m] = retired[t][m]
        /\ retired'[t][j] # NULL
    <3>1. /\ Len(retired'[t]) = Len(retired[t]) + 1 /\ Len(retired[t]) \in Nat
          /\ \A m \in 1 .. Len(retired[t]) : retired'[t][m] = retired[t][m]
          /\ retired'[t][Len(retired[t]) + 1] = obj[t] /\ obj[t] # NULL
      BY <1>4, PushStep, LinkedRecordsAssumption
    <3>2. j \in 1 .. Len(retired[t]) \/ j = Len(retired[t]) + 1
      BY <1>4, <3>1
    <3>3. QED BY <3>1, <3>2, ListHoldsRecords
  <2>2. ref'[s] # NULL => ref'[s] = ref[s]
    BY <1>4 DEF retire_push
  <2>3. QED BY <1>4, <2>1, <2>2
<1>5. CASE empty_free(t) /\ p = t
  <2>1. ref' = ref /\ Len(retired'[t]) = Len(retired[t]) - 1 /\ Len(retired[t]) \in Nat
    BY <1>5, FreeStep
  <2>2. retired'[t][j] = retired[t][j] \/ retired'[t][j] = retired[t][j + 1]
    BY <1>5, <2>1, FreeStep
  <2>3. j \in 1 .. Len(retired[t]) /\ j + 1 \in 1 .. Len(retired[t])
    BY <1>5, <2>1
  <2>4. QED BY <1>5, <2>1, <2>2, <2>3
<1>6. CASE \/ hi_announce(t) \/ hi_publish(t) \/ hi_ping(t) \/ hi_confirm(t)
           \/ lo_save(t) \/ lo_check(t) \/ empty_scan(t) \/ empty_return(t)
  BY <1>6, KeepsLists
<1>7. QED BY <1>1, <1>2, <1>3, <1>4, <1>5, <1>6 DEF retire

(* A thread counts as signalled from the step that signals it. *)
LEMMA NewSignals ==
  ASSUME TypeOK, Locals, Loops, OnePlace, NEW t \in Tid, client(t) \/ retire(t) \/ signal(t),
         NEW p \in Tid, NEW v \in Tid, Signalled(p, v)'
  PROVE  (Signalled(p, v) \/ (p = t /\ pending'[v])) /\ ~(p = t /\ retire_push(t))
<1> USE DEF goto
<1>1. CASE client(t)
  BY <1>1, ClientStep DEF Signalled, Calm
<1>2. CASE signal(t)
  <2>1. UNCHANGED <<pc, i>> /\ pc[p] \in {"ping", "confirm"}
    BY <1>2, SignalStep DEF Signalled
  <2>2. p = t => ~retire_push(t)
    BY <2>1 DEF retire_push
  <2>3. QED BY <2>1, <2>2 DEF Signalled
<1>3. CASE retire(t) /\ p # t
  BY <1>3, OthersKeep DEF Signalled
<1>4. CASE hi_publish(t) /\ p = t
  <2>1. pc'[t] = "publish" \/ (pc'[t] = "ping" /\ i'[t] = 0)
    BY <1>4, PublishStep
  <2>2. ~(v < 0)
    BY DEF Tid
  <2>3. QED BY <1>4, <2>1, <2>2 DEF Signalled
<1>5. CASE hi_ping(t) /\ p = t
  <2>1. pc[t] = "ping" /\ (Signalled(t, v)' => Signalled(t, v) \/ pending'[v])
    BY <1>5, PingStep
  <2>2. QED BY <1>5, <2>1 DEF retire_push
<1>6. CASE /\ p = t
           /\ \/ hi_announce(t) \/ retire_push(t) \/ hi_confirm(t) \/ lo_save(t) \/ lo_check(t)
              \/ empty_scan(t) \/ empty_free(t) \/ empty_return(t)
  <2>1. \E x \in {"publish", "announce", "save", "check", "op", "scan", "sweep"} :
           pc' = [pc EXCEPT ![t] = x]
    BY <1>6
    DEF hi_announce, retire_push, hi_confirm, lo_save, lo_check, empty_scan, empty_free,
        empty_return
  <2>2. pc'[t] \notin {"ping", "confirm"}
    BY <2>1 DEF TypeOK
  <2>3. QED BY <1>6, <2>2 DEF Signalled
<1>7. QED BY <1>1, <1>2, <1>3, <1>4, <1>5, <1>6 DEF retire

(* A record of the list that pings are sent for is published in answer, *)
LEMMA NextOwnRound ==
  ASSUME TypeOK, Locals, Loops, OnePlace, LocalProtects, OwnRound, NEW t \in Tid,
         client(t) \/ retire(t) \/ signal(t)
  PROVE  OwnRound'
<1> SUFFICES ASSUME NEW p \in Tid, NEW v \in Tid, NEW k \in Index,
                    NEW j \in 1 .. Len(retired'[p]), Signalled(p, v)',
                    ref'[slotOf(v, k)] = retired'[p][j]
             PROVE  slots'[slotOf(v, k)] = retired'[p][j] \/ Coming(v, k)'
  BY DEF OwnRound
<1> DEFINE n == retired'[p][j]
<1>1. slotOf(v, k) \in Slot
  BY SlotInRange
<1>2. (Signalled(p, v) \/ pending'[v]) /\ ~(p = t /\ retire_push(t))
  BY NewSignals
<1>3. ref[slotOf(v, k)] = n /\ \E m \in 1 .. Len(retired[p]) : retired[p][m] = n
  BY <1>1, <1>2, SameUse
<1>4. n \in Node
  BY <1>3, ListHoldsRecords
<1> HIDE DEF n
<1>5. CASE Signalled(p, v)
  <2>1. slots[slotOf(v, k)] = n \/ Coming(v, k)
    BY <1>3, <1>5 DEF OwnRound
  <2>2. /\ slots[slotOf(v, k)] = n => slots'[slotOf(v, k)] = n
        /\ Coming(v, k) => Coming(v, k)' \/ slots'[slotOf(v, k)] = n
    BY <1>3, <1>4, StillPublished
  <2>3. QED BY <2>1, <2>2 DEF n
<1>6. CASE pending'[v]
  BY <1>6 DEF Coming
<1>7. QED BY <1>2, <1>5, <1>6

-------------------------------------------------------------------------------
(* Every step keeps the invariant. *)
LEMMA NextIInv == IInv /\ [Next]_vars => IInv'
<1> SUFFICES ASSUME IInv, [Next]_vars PROVE IInv'
  OBVIOUS
<1>1. /\ TypeOK /\ Locals /\ Loops /\ Parity /\ Flags /\ Books /\ OnePlace /\ LocalProtects
      /\ OwnDone /\ OwnPublished /\ Lengths /\ OwnRound /\ Answers
      /\ PromptDelivery => AllPublished
  BY DEF IInv, Structure
<1>2. ASSUME NEW t \in Tid, client(t) \/ retire(t) \/ signal(t) PROVE IInv'
  <2>1. TypeOK'
    BY <1>1, <1>2, ClientTypeOK, RetireTypeOK, SignalTypeOK
  <2>2. Locals' /\ Loops' /\ Parity' /\ Flags' /\ Books' /\ OnePlace' /\ LocalProtects'
    BY <1>1, <1>2, NextLocals, NextLoops, NextParity, NextFlags, NextBooks, NextOnePlace,
       NextLocalProtects
  <2>3. OwnDone' /\ OwnPublished' /\ Lengths' /\ OwnRound' /\ Answers'
    BY <1>1, <1>2, NextOwnDone, NextOwnPublished, NextLengths, NextOwnRound, NextAnswers
  <2>4. PromptDelivery => AllPublished'
    BY <1>1, <1>2, NextAllPublished
  <2>5. QED BY <2>1, <2>2, <2>3, <2>4 DEF IInv, Structure
<1>3. CASE UNCHANGED vars
  <2> USE <1>3 DEF vars, records, reserved, stamps, loWm, signals, reading, emptying
  <2>1. TypeOK'
    BY <1>1 DEF TypeOK, RecordsTypeOK
  <2>2. Locals' /\ Loops' /\ Parity' /\ Flags' /\ LocalProtects' /\ OwnDone' /\ OwnPublished'
    BY <1>1 DEF Locals, Loops, Parity, Flags, LocalProtects, OwnDone, OwnPublished
  <2>3. Books' /\ Lengths'
    BY <1>1 DEF Books, bag, counted, Lengths
  <2>4. OnePlace'
    BY <1>1 DEF OnePlace, LinksDisjoint, RetiringDisjoint, RetiredDisjoint, InList
  <2>5. OwnRound' /\ Answers' /\ (PromptDelivery => AllPublished')
    BY <1>1 DEF OwnRound, Answers, AllPublished, Signalled, Coming
  <2>6. QED BY <2>1, <2>2, <2>3, <2>4, <2>5 DEF IInv, Structure
<1>4. QED BY <1>2, <1>3 DEF Next

(* The inductive invariant, of HazardPtrPOP as it is: whether signals are  *)
(* delivered in time or not.                                               *)
THEOREM Invariance == Spec => []IInv
<1>1. Init => IInv
  BY InitIInv
<1>2. IInv /\ [Next]_vars => IInv'
  BY NextIInv
<1>3. QED BY <1>1, <1>2, PTL DEF Spec

(* Every variable holds what the code can store in it. *)
THEOREM TypeCorrect == Spec => []TypeOK
<1>1. IInv => TypeOK
  BY DEF IInv, Structure
<1>2. QED BY <1>1, Invariance, PTL

(* A record is linked once, or retired by one thread once, or free: no     *)
(* thread frees what another has, and none frees a record twice.           *)
THEOREM SinglePlace == Spec => []OnePlace
<1>1. IInv => OnePlace
  BY DEF IInv, Structure
<1>2. QED BY <1>1, Invariance, PTL

(* Past the low watermark, empty may free what the list held on entry and  *)
(* nothing that was retired since: every retire is counted.                *)
THEOREM EntryLimit == Spec => []LimitAtEntry
<1>1. IInv => LimitAtEntry
  BY DEF IInv, Structure, Books, LimitAtEntry, Calm, bag, counted
<1>2. QED BY <1>1, Invariance, PTL

(* No list grows beyond a full one, or beyond the slots and one more, even *)
(* when a thread never leaves its operation or its signals are late.       *)
THEOREM Bounded == Spec => []BoundedGarbage
<1>1. IInv => BoundedGarbage
  <2> SUFFICES ASSUME IInv, NEW t \in Tid
               PROVE  Len(retired[t]) <= Max({EmptyFreq, NumSlots + 1})
    BY DEF BoundedGarbage
  <2>1. Len(retired[t]) \in Nat /\ EmptyFreq \in Nat /\ NumSlots + 1 \in Nat
    BY ListHoldsRecords, Bounds DEF IInv, Structure
  <2>2. Len(retired[t]) <= EmptyFreq \/ Len(retired[t]) <= NumSlots + 1
    BY DEF IInv, Lengths
  <2>3. QED BY <2>1, <2>2, MaxOfTwo
<1>2. QED BY <1>1, Invariance, PTL

(* When the signals of a round are delivered before it ends, every other   *)
(* thread has published before the thread that pinged begins its scan.     *)
THEOREM AllAnswered == PromptDelivery => (Spec => []AllPublished)
<1>1. IInv => (PromptDelivery => AllPublished)
  BY DEF IInv
<1>2. CASE PromptDelivery
  <2>1. IInv => AllPublished
    BY <1>1, <1>2
  <2>2. Spec => []AllPublished
    BY <2>1, Invariance, PTL
  <2>3. QED BY <2>2
<1>3. CASE ~PromptDelivery
  BY <1>3
<1>4. QED BY <1>2, <1>3

-------------------------------------------------------------------------------
(* Past the low watermark, the entry is as it was, or the time stamp has   *)
(* just been saved.                                                        *)
LEMMA WaitingStep ==
  ASSUME TypeOK, Locals, Loops, Flags, Books, OnePlace, NEW t \in Tid,
         client(t) \/ retire(t) \/ signal(t),
         NEW p \in Tid, NEW u \in Tid, Waiting(p, u)'
  PROVE  /\ ~(p = t /\ empty_free(t))
         /\ \/ /\ Waiting(p, u) /\ bag(p)' = bag(p) /\ bag(p) <= Len(retired[p])
               /\ savedTS'[p][u] = savedTS[p][u]
            \/ savedTS'[p][u] = announcedTS'[u]
<1> USE DEF goto, records, reserved, stamps, loWm, signals, reading, emptying
<1> DEFINE Kept == /\ bag(p)' = bag(p) /\ savedTS'[p][u] = savedTS[p][u]
<1>0. ~firstLoEntryFlag[p] /\ pc[p] # "sweep" => bag(p) <= Len(retired[p])
  BY DEF Books
<1>1. CASE client(t)
  <2>1. Kept /\ UNCHANGED <<i, firstLoEntryFlag>> /\ pc[t] \in Calm /\ pc'[t] \in Calm
        /\ \A w \in Tid : w # t => pc'[w] = pc[w]
    BY <1>1, ClientStep DEF bag
  <2>2. ~empty_free(t)
    BY <2>1 DEF empty_free, Calm
  <2>3. QED BY <1>0, <2>1, <2>2 DEF Waiting, Calm
<1>2. CASE signal(t)
  <2>1. Kept /\ UNCHANGED <<i, firstLoEntryFlag, pc>>
    BY <1>2, SignalStep DEF bag
  <2>2. p = t => ~empty_free(t)
    BY <2>1 DEF empty_free, Waiting
  <2>3. QED BY <1>0, <2>1, <2>2 DEF Waiting
<1>3. CASE retire(t) /\ p # t
  BY <1>0, <1>3, OthersKeep DEF Waiting, bag
<1>4. CASE retire_push(t) /\ p = t
  <2>1. pc[t] = "retire" /\ ~firstLoEntryFlag'[t]
    BY <1>4 DEF retire_push, Waiting
  <2>2. UNCHANGED loWm \/ countRetire(t)
    BY <1>4, <2>1 DEF retire_push, resetLoWmMetaData, TypeOK
  <2>3. Kept /\ firstLoEntryFlag' = firstLoEntryFlag
    BY <1>4, <2>2 DEF countRetire, bag
  <2>4. ~empty_free(t)
    BY <2>1 DEF empty_free
  <2>5. QED BY <1>0, <1>4, <2>1, <2>3, <2>4 DEF Waiting
<1>5. CASE (hi_announce(t) \/ hi_publish(t) \/ hi_ping(t) \/ hi_confirm(t)) /\ p = t
  <2>1. pc[t] \in Round \union {"announce"} /\ firstLoEntryFlag' = firstLoEntryFlag
    BY <1>5 DEF hi_announce, hi_publish, hi_ping, hi_confirm, Round
  <2>2. QED BY <1>5, <2>1 DEF Flags, Waiting
<1>6. CASE lo_save(t) /\ p = t
  <2>1. /\ pc[t] = "save" /\ savedTS' = [savedTS EXCEPT ![t][i[t]] = announcedTS[i[t]]]
        /\ announcedTS' = announcedTS
        /\ retire_bag_size_when_entered_loWm' =
              [retire_bag_size_when_entered_loWm EXCEPT ![t] = Len(retired[t])]
    BY <1>6 DEF lo_save
  <2>2. i[t] \in 0 .. NumSlots /\ i[t] < NumProcess
    BY <2>1 DEF TypeOK, Loops
  <2>3. i[t] \in Tid
    BY <2>2, Bounds DEF Tid
  <2>4. \/ pc' = [pc EXCEPT ![t] = "save"] /\ i' = [i EXCEPT ![t] = i[t] + 1]
        \/ pc' = [pc EXCEPT ![t] = "check"] /\ ~(i[t] + 1 < NumProcess)
    BY <1>6 DEF lo_save
  <2>5. \/ pc'[t] = "save" /\ i'[t] = i[t] + 1
        \/ pc'[t] = "check" /\ ~(i[t] + 1 < NumProcess)
    BY <2>4 DEF TypeOK
  <2>6. u < i[t] \/ u = i[t]
    BY <1>6, <2>2, <2>5, Bounds DEF Waiting, Tid
  <2>7. ~empty_free(t)
    BY <2>1 DEF empty_free
  <2>8. CASE u = i[t]
    BY <1>6, <2>1, <2>3, <2>7, <2>8 DEF TypeOK
  <2>9. CASE u < i[t]
    <3>1. ~firstLoEntryFlag[t]
      BY <2>1, <2>2, <2>9 DEF Flags, Tid
    <3>2. bag(t) = Len(retired[t]) /\ bag(t)' = Len(retired[t])
      BY <2>1, <3>1 DEF Books, bag, TypeOK
    <3>3. savedTS'[t][u] = savedTS[t][u]
      BY <2>1, <2>2, <2>3, <2>9 DEF TypeOK, Tid
    <3>4. QED BY <1>0, <1>6, <2>1, <2>7, <2>9, <3>1, <3>2, <3>3 DEF Waiting
  <2>10. QED BY <2>6, <2>8, <2>9
<1>7. CASE lo_check(t) /\ p = t
  <2>1. pc[t] = "check" /\ Kept /\ ~empty_free(t)
    BY <1>7 DEF lo_check, countRetire, bag, empty_free
  <2>2. QED BY <1>0, <1>7, <2>1 DEF Flags, Waiting
<1>8. CASE (empty_scan(t) \/ empty_free(t)) /\ p = t
  <2>1. \E x \in {"scan", "sweep"} : pc' = [pc EXCEPT ![t] = x]
    BY <1>8 DEF empty_scan, empty_free
  <2>2. QED BY <1>8, <2>1 DEF Waiting, TypeOK
<1>9. CASE empty_return(t) /\ p = t
  BY <1>9 DEF empty_return, resetLoWmMetaData, Waiting, TypeOK
<1>10. QED BY <1>1, <1>2, <1>3, <1>4, <1>5, <1>6, <1>7, <1>8, <1>9 DEF retire

(* A time stamp grows with the announcement and with the end of a round. *)
LEMMA Announced ==
  ASSUME TypeOK, Locals, Loops, OnePlace, NEW t \in Tid, client(t) \/ retire(t) \/ signal(t),
         NEW u \in Tid
  PROVE  \/ announcedTS'[u] = announcedTS[u]
         \/ /\ announcedTS'[u] = announcedTS[u] + 1 /\ u = t
            /\ \/ hi_announce(t) /\ pc[t] = "announce" /\ pc'[t] = "publish"
               \/ hi_confirm(t) /\ pc[t] = "confirm" /\ pc'[t] = "scan"
<1>1. CASE client(t)
  BY <1>1, ClientStep
<1>2. CASE signal(t)
  BY <1>2, SignalStep
<1>3. CASE retire(t) /\ u # t
  BY <1>3, OthersKeep
<1>4. CASE (hi_announce(t) \/ hi_confirm(t)) /\ u = t
  BY <1>4 DEF hi_announce, hi_confirm, goto, TypeOK
<1>5. CASE retire(t) /\ ~(hi_announce(t) \/ hi_confirm(t))
  <2>1. announcedTS' = announcedTS
    BY <1>5, FreeStep
    DEF retire, retire_push, hi_publish, hi_ping, lo_save, lo_check, empty_scan,
        empty_return, stamps
  <2>2. QED BY <2>1
<1>6. QED BY <1>1, <1>2, <1>3, <1>4, <1>5

(* A round that has been confirmed has its answers. *)
LEMMA ConfirmStep ==
  ASSUME TypeOK, OwnPublished, LocalProtects, PromptDelivery, NEW t \in Tid, hi_confirm(t)
  PROVE  /\ \A v \in Tid : \A k \in Index : v # t => Signalled(t, v) /\ ~Coming(v, k)
         /\ \A k \in Index : ref[slotOf(t, k)] # NULL => slots[slotOf(t, k)] = ref[slotOf(t, k)]
         /\ UNCHANGED <<slots, ref, retired, pending, handler, firstLoEntryFlag,
                        retire_bag_size_when_entered_loWm>>
         /\ pc[t] = "confirm" /\ pc'[t] = "scan"
<1>1. /\ pc[t] = "confirm" /\ pc' = [pc EXCEPT ![t] = "scan"]
      /\ \A v \in Tid \ {t} : ~pending[v] /\ handler[v] = 0
      /\ UNCHANGED <<slots, ref, retired, pending, handler, firstLoEntryFlag,
                     retire_bag_size_when_entered_loWm>>
  BY DEF hi_confirm, goto, reserved, signals, loWm
<1>2. \A v \in Tid : \A k \in Index : v # t => Signalled(t, v) /\ ~Coming(v, k)
  BY <1>1 DEF Signalled, Coming
<1>3. \A k \in Index : slots[slotOf(t, k)] = local_slots[slotOf(t, k)] /\ slotOf(t, k) \in Slot
  BY <1>1, SlotInRange DEF OwnPublished
<1>4. QED BY <1>1, <1>2, <1>3 DEF LocalProtects, TypeOK

(* What was in the list on entry stays covered round by round. *)
LEMMA NextLowRound ==
  ASSUME PromptDelivery, LowWatermarkSound, IInv, IInv', LowRound, NEW t \in Tid,
         client(t) \/ retire(t) \/ signal(t)
  PROVE  LowRound'
<1>1. /\ TypeOK /\ Locals /\ Loops /\ Parity /\ Flags /\ Books /\ OnePlace /\ LocalProtects
      /\ OwnDone /\ OwnPublished
  BY DEF IInv, Structure
<1>2. TypeOK' /\ Parity' /\ Books'
  BY DEF IInv, Structure
<1> SUFFICES ASSUME NEW p \in Tid, NEW u \in Tid, NEW v \in Tid, NEW k \in Index,
                    NEW j \in 1 .. bag(p)', Waiting(p, u)',
                    ref'[slotOf(v, k)] = retired'[p][j]
             PROVE  /\ announcedTS'[u] >= savedTS'[p][u] + 2 =>
                          slots'[slotOf(v, k)] = retired'[p][j]
                    /\ announcedTS'[u] = savedTS'[p][u] + 1 =>
                          /\ Signalled(u, v)' =>
                                slots'[slotOf(v, k)] = retired'[p][j] \/ Coming(v, k)'
                          /\ v = u /\ pc'[u] \notin Round => slots'[slotOf(v, k)] = retired'[p][j]
  BY DEF LowRound
<1> DEFINE n == retired'[p][j]
           s == slotOf(v, k)
<1>3. /\ announcedTS[u] \in Nat /\ announcedTS'[u] \in Nat
      /\ savedTS[p][u] \in Nat /\ savedTS'[p][u] \in Nat
  BY <1>1, <1>2 DEF TypeOK
<1>4. CASE savedTS'[p][u] = announcedTS'[u]
  BY <1>3, <1>4
<1>5. CASE savedTS'[p][u] # announcedTS'[u]
  <2>1. /\ ~(p = t /\ empty_free(t)) /\ Waiting(p, u) /\ bag(p)' = bag(p)
        /\ bag(p) <= Len(retired[p]) /\ savedTS'[p][u] = savedTS[p][u]
    BY <1>1, <1>5, WaitingStep
  <2>2. j \in 1 .. Len(retired[p]) /\ j \in 1 .. bag(p) /\ j \in 1 .. Len(retired'[p])
    <3>1. bag(p)' <= Len(retired'[p])
      BY <1>2 DEF Waiting, Books
    <3>2. Len(retired[p]) \in Nat /\ Len(retired'[p]) \in Nat /\ bag(p) \in Nat
      <4>1. retired'[p] \in Seq(Node)
        BY <1>2 DEF TypeOK
      <4>2. bag(p) \in 0 .. EmptyFreq - 1
        BY <1>1 DEF TypeOK, bag
      <4>3. QED BY <1>1, <4>1, <4>2, ListHoldsRecords, LenProperties, Bounds
    <3>3. QED BY <2>1, <3>1, <3>2
  <2>3. s \in Slot /\ ref[s] = n /\ retired[p][j] = n /\ n \in Node /\ n # NULL
    BY <1>1, <2>1, <2>2, SlotInRange, SameUse, ListHoldsRecords
  <2>4. /\ announcedTS[u] >= savedTS[p][u] + 2 => slots[s] = n
        /\ announcedTS[u] = savedTS[p][u] + 1 =>
              /\ Signalled(u, v) => slots[s] = n \/ Coming(v, k)
              /\ v = u /\ pc[u] \notin Round => slots[s] = n
    BY <2>1, <2>2, <2>3 DEF LowRound
  <2>5. /\ slots[s] = n => slots'[s] = n
        /\ Coming(v, k) => Coming(v, k)' \/ slots'[s] = n
    BY <1>1, <2>3, StillPublished
  <2> HIDE DEF n, s
  <2>6. CASE announcedTS'[u] = announcedTS[u]
    <3>1. Signalled(u, v)' => Signalled(u, v) \/ Coming(v, k)'
      BY <1>1, NewSignals DEF Coming
    <3>2. pc'[u] \notin Round => pc[u] \notin Round
      BY <1>1, <1>2, <2>6 DEF Parity
    <3>3. QED BY <2>1, <2>4, <2>5, <2>6, <3>1, <3>2 DEF n, s
  <2>7. CASE /\ announcedTS'[u] = announcedTS[u] + 1 /\ u = t
             /\ hi_announce(t) /\ pc[t] = "announce" /\ pc'[t] = "publish"
    <3>1. ~Signalled(u, v)' /\ pc'[u] \in Round
      BY <2>7 DEF Signalled, Round
    <3>2. announcedTS[u] % 2 = 0
      BY <1>1, <2>7 DEF Parity, Round
    <3>3. CASE announcedTS[u] = savedTS[p][u] + 1
      <4>1. p # u
        BY <1>1, <2>1, <2>7 DEF Flags, Waiting
      <4>2. savedTS[p][u] % 2 # 0
        BY <1>3, <3>2, <3>3
      <4>3. NumProcess <= 2
        BY <4>2 DEF LowWatermarkSound
      <4>4. v = p \/ v = u
        BY <4>1, <4>3, Bounds DEF Tid
      <4>5. v # p
        BY <1>1, <2>2, <2>3 DEF OwnDone, s
      <4>6. slots[s] = n
        BY <2>4, <2>7, <3>3, <4>4, <4>5 DEF Round
      <4>7. QED BY <2>5, <3>1, <4>6 DEF n, s
    <3>4. CASE announcedTS[u] # savedTS[p][u] + 1
      <4>1. announcedTS'[u] >= savedTS'[p][u] + 2 => announcedTS[u] >= savedTS[p][u] + 2
        BY <1>3, <2>1, <2>7, <3>4
      <4>2. QED BY <2>4, <2>5, <3>1, <4>1 DEF n, s
    <3>5. QED BY <3>3, <3>4
  <2>8. CASE /\ announcedTS'[u] = announcedTS[u] + 1 /\ u = t
             /\ hi_confirm(t) /\ pc[t] = "confirm" /\ pc'[t] = "scan"
    <3>1. ~Signalled(u, v)' /\ (v # u => Signalled(u, v) /\ ~Coming(v, k))
      BY <1>1, <2>8, ConfirmStep DEF Signalled
    <3>2. v = u => slots[s] = n
      BY <1>1, <2>3, <2>8, ConfirmStep DEF s
    <3>3. announcedTS'[u] >= savedTS'[p][u] + 2 =>
             announcedTS[u] >= savedTS[p][u] + 2 \/ announcedTS[u] = savedTS[p][u] + 1
      BY <1>3, <2>1, <2>8
    <3>4. QED BY <2>4, <2>5, <3>1, <3>2, <3>3 DEF n, s
  <2>9. QED BY <1>1, <2>6, <2>7, <2>8, Announced
<1>6. QED BY <1>4, <1>5

(* empty reads one slot a step, *)
LEMMA ScanStep ==
  ASSUME TypeOK, Loops, NEW t \in Tid, empty_scan(t)
  PROVE  /\ pc[t] = "scan" /\ i[t] \in Slot
         /\ pc'[t] \in {"scan", "sweep"} /\ toSweep(t)' = toSweep(t)
         /\ \A s \in Slot : Passed(t, s)' => Passed(t, s) \/ s = i[t]
         /\ \A n : n \in scanned[t] \/ (n = slots[i[t]] /\ n # NULL) => n \in scanned'[t]
         /\ UNCHANGED <<slots, ref, retired>>
<1> USE DEF goto, reserved, loWm
<1>1. /\ pc[t] = "scan" /\ UNCHANGED <<slots, ref, retired>>
      /\ scanned' = [scanned EXCEPT ![t] = @ \union ({slots[i[t]]} \ {NULL})]
      /\ UNCHANGED <<firstLoEntryFlag, retire_bag_size_when_entered_loWm>>
  BY DEF empty_scan
<1>2. i[t] \in 0 .. NumSlots /\ i[t] < NumSlots
  BY <1>1 DEF TypeOK, Loops
<1>3. \/ pc' = [pc EXCEPT ![t] = "scan"] /\ i' = [i EXCEPT ![t] = i[t] + 1]
      \/ /\ pc' = [pc EXCEPT ![t] = "sweep"] /\ limit' = [limit EXCEPT ![t] = sweepLimit(t)]
         /\ ~(i[t] + 1 < NumSlots)
  BY DEF empty_scan
<1>4. \/ pc'[t] = "scan" /\ i'[t] = i[t] + 1
      \/ pc'[t] = "sweep" /\ limit'[t] = sweepLimit(t) /\ ~(i[t] + 1 < NumSlots)
  BY <1>3 DEF TypeOK
<1>5. toSweep(t)' = toSweep(t)
  BY <1>1, <1>4 DEF toSweep, sweepLimit
<1>6. \A s \in Slot : Passed(t, s)' => Passed(t, s) \/ s = i[t]
  BY <1>1, <1>2, <1>4, Bounds DEF Passed, Slot
<1>7. \A n : n \in scanned[t] \/ (n = slots[i[t]] /\ n # NULL) => n \in scanned'[t]
  BY <1>1 DEF TypeOK
<1>8. QED BY <1>1, <1>2, <1>4, <1>5, <1>6, <1>7, Bounds DEF Slot

(* and the part of the list it may free lies in the list. *)
LEMMA SweepInList ==
  ASSUME TypeOK, Books, NEW t \in Tid, pc[t] \in {"scan", "sweep"}
  PROVE  toSweep(t) \in Nat /\ toSweep(t) <= Len(retired[t])
<1>1. Len(retired[t]) \in Nat
  BY ListHoldsRecords
<1>2. limit[t] \in Nat /\ limit[t] <= Len(retired[t])
  BY DEF TypeOK
<1>3. bag(t) \in 0 .. EmptyFreq - 1
  BY DEF TypeOK, bag
<1>4. pc[t] = "scan" /\ ~firstLoEntryFlag[t] => bag(t) <= Len(retired[t])
  BY DEF Books
<1>5. bag(t) \in Nat
  BY <1>3, Bounds
<1>6. QED BY <1>1, <1>2, <1>4, <1>5 DEF toSweep, sweepLimit, bag

(* A thread empties its list after its own round, or after that of another *)
(* one which began and ended since the low watermark.                      *)
LEMMA ScanBegins ==
  ASSUME PromptDelivery, IInv, LowRound, NEW t \in Tid, client(t) \/ retire(t) \/ signal(t),
         NEW p \in Tid, pc[p] \notin {"scan", "sweep"}, pc'[p] \in {"scan", "sweep"},
         NEW v \in Tid, NEW k \in Index, NEW j \in 1 .. toSweep(p)', j \in 1 .. Len(retired[p]),
         ref[slotOf(v, k)] = retired[p][j]
  PROVE  slots[slotOf(v, k)] = retired[p][j] /\ pc'[p] = "scan" /\ i'[p] = 0
<1>1. /\ TypeOK /\ Locals /\ Loops /\ Flags /\ OnePlace /\ LocalProtects /\ OwnDone
      /\ OwnPublished /\ OwnRound
  BY DEF IInv, Structure
<1>2. retire(t) /\ p = t
  <2>1. CASE client(t)
    <3>1. pc'[t] \in Calm /\ \A w \in Tid : w # t => pc'[w] = pc[w]
      BY <1>1, <2>1, ClientStep
    <3>2. QED BY <3>1 DEF Calm
  <2>2. CASE signal(t)
    BY <1>1, <2>2, SignalStep
  <2>3. CASE retire(t) /\ p # t
    BY <1>1, <2>3, OthersKeep
  <2>4. QED BY <2>1, <2>2, <2>3
<1>3. hi_confirm(t) \/ (lo_check(t) /\ pc'[t] = "scan")
  <2>1. CASE \/ retire_push(t) \/ hi_announce(t) \/ hi_publish(t) \/ hi_ping(t) \/ lo_save(t)
             \/ empty_return(t)
    <3>1. \E x \in {"announce", "save", "check", "op", "publish", "ping", "confirm"} :
             pc' = [pc EXCEPT ![t] = x]
      BY <2>1
      DEF retire_push, hi_announce, hi_publish, hi_ping, lo_save, empty_return, goto
    <3>2. QED BY <1>1, <1>2, <3>1 DEF TypeOK
  <2>2. CASE lo_check(t)
    <3>1. \E x \in {"scan", "check", "op"} : pc' = [pc EXCEPT ![t] = x]
      BY <2>2 DEF lo_check, goto
    <3>2. QED BY <1>1, <1>2, <2>2, <3>1 DEF TypeOK
  <2>3. CASE empty_scan(t) \/ empty_free(t)
    BY <1>2, <2>3 DEF empty_scan, empty_free, goto
  <2>4. QED BY <1>2, <2>1, <2>2, <2>3 DEF retire
<1>4. CASE hi_confirm(t)
  <2>1. /\ pc'[t] = "scan" /\ i[t] = 0
        /\ \A w \in Tid : \A m \in Index : w # t => Signalled(t, w) /\ ~Coming(w, m)
    BY <1>1, <1>4, ConfirmStep DEF Loops
  <2>2. i' = i
    BY <1>4 DEF hi_confirm, emptying
  <2>3. v # t
    BY <1>1, <1>2 DEF OwnDone
  <2>4. slots[slotOf(v, k)] = retired[t][j]
    BY <1>1, <1>2, <2>1, <2>3 DEF OwnRound
  <2>5. QED BY <1>2, <2>1, <2>2, <2>4
<1>5. CASE lo_check(t) /\ pc'[t] = "scan"
  <2>1. /\ pc[t] = "check" /\ ~firstLoEntryFlag[t] /\ i[t] \in 0 .. NumSlots
        /\ i[t] < NumProcess
    BY <1>1, <1>5 DEF lo_check, goto, Flags, Loops, TypeOK
  <2>2. i[t] \in Tid
    BY <2>1, Bounds DEF Tid
  <2>3. /\ pingedSince(t, i[t]) /\ i' = [i EXCEPT ![t] = 0] /\ UNCHANGED loWm
    BY <1>1, <1>5 DEF lo_check, goto, TypeOK
  <2>4. toSweep(t)' = bag(t)
    BY <1>5, <2>1, <2>3 DEF toSweep, sweepLimit, bag, loWm
  <2>5. Waiting(t, i[t])
    BY <2>1 DEF Waiting
  <2>6. slots[slotOf(v, k)] = retired[t][j]
    BY <1>2, <2>2, <2>3, <2>4, <2>5 DEF LowRound, pingedSince
  <2>7. QED BY <1>1, <1>2, <1>5, <2>3, <2>6 DEF TypeOK
<1>6. QED BY <1>3, <1>4, <1>5

(* What may be freed and is used is in its slot, and found there. *)
LEMMA NextScanCovered ==
  ASSUME PromptDelivery, IInv, IInv', LowRound, ScanCovered, NEW t \in Tid,
         client(t) \/ retire(t) \/ signal(t)
  PROVE  ScanCovered'
<1>1. /\ TypeOK /\ Locals /\ Loops /\ Books /\ OnePlace /\ LocalProtects
  BY DEF IInv, Structure
<1>2. TypeOK' /\ Books'
  BY DEF IInv, Structure
<1> SUFFICES ASSUME NEW p \in Tid, NEW s \in Slot, NEW j \in 1 .. toSweep(p)',
                    pc'[p] \in {"scan", "sweep"}, ref'[s] = retired'[p][j]
             PROVE  slots'[s] = ref'[s] /\ (Passed(p, s)' => ref'[s] \in scanned'[p])
  BY DEF ScanCovered
<1> DEFINE n == retired'[p][j]
<1>3. j \in 1 .. Len(retired'[p])
  <2>1. toSweep(p)' \in Nat /\ toSweep(p)' <= Len(retired'[p])
    <3>1. retired'[p] \in Seq(Node)
      BY <1>2 DEF TypeOK
    <3>2. Len(retired'[p]) \in Nat
      BY <3>1, LenProperties
    <3>3. limit'[p] \in Nat /\ limit'[p] <= Len(retired'[p])
      BY <1>2 DEF TypeOK
    <3>4. bag(p)' \in 0 .. EmptyFreq - 1
      BY <1>2 DEF TypeOK, bag
    <3>5. pc'[p] = "scan" /\ ~firstLoEntryFlag'[p] => bag(p)' <= Len(retired'[p])
      BY <1>2 DEF Books
    <3>6. bag(p)' \in Nat
      BY <3>4, Bounds
    <3>7. QED BY <3>2, <3>3, <3>5, <3>6 DEF toSweep, sweepLimit, bag
  <2>2. Len(retired'[p]) \in Nat
    <3>1. retired'[p] \in Seq(Node)
      BY <1>2 DEF TypeOK
    <3>2. QED BY <3>1, LenProperties
  <2>3. QED BY <2>1, <2>2
<1>4. ~(p = t /\ retire_push(t))
  <2>1. retire_push(t) => \E x \in {"announce", "save", "check", "op"} : pc' = [pc EXCEPT ![t] = x]
    BY DEF retire_push, goto
  <2>2. QED BY <1>1, <2>1 DEF TypeOK
<1>5. /\ ref[s] = n /\ ref'[s] = n
      /\ \E m \in 1 .. Len(retired[p]) : retired[p][m] = n
      /\ ~(p = t /\ empty_free(t)) /\ j \in 1 .. Len(retired[p]) => retired[p][j] = n
  BY <1>1, <1>3, <1>4, SameUse
<1>6. n \in Node /\ n # NULL
  BY <1>1, <1>5, ListHoldsRecords
<1>7. PICK v \in Tid, k \in Index : s = slotOf(v, k)
  BY <1>1, <1>5, <1>6 DEF LocalProtects
<1>8. slots[s] = n => slots'[s] = n
  BY <1>1, <1>5, <1>6, <1>7, StillPublished
<1> HIDE DEF n
<1>9. CASE pc[p] \notin {"scan", "sweep"}
  <2>1. ~(p = t /\ empty_free(t))
    BY <1>9 DEF empty_free, goto
  <2>2. j \in 1 .. Len(retired[p])
    <3>1. retired'[p] = retired[p]
      <4>1. CASE client(t)
        BY <1>1, <4>1, ClientStep
      <4>2. CASE signal(t)
        BY <1>1, <4>2, SignalStep
      <4>3. CASE retire(t) /\ p # t
        BY <1>1, <4>3, OthersKeep
      <4>4. CASE retire(t) /\ p = t
        BY <1>1, <1>4, <2>1, <4>4, KeepsLists DEF retire
      <4>5. QED BY <4>1, <4>2, <4>3, <4>4
    <3>2. QED BY <1>3, <3>1
  <2>3. retired[p][j] = n
    BY <1>5, <2>1, <2>2
  <2>4. slots[s] = n /\ pc'[p] = "scan" /\ i'[p] = 0
    BY <1>5, <1>7, <1>9, <2>2, <2>3, ScanBegins
  <2>5. ~Passed(p, s)'
    <3>1. ~(s < 0)
      BY DEF Slot
    <3>2. QED BY <2>4, <3>1 DEF Passed
  <2>6. QED BY <1>5, <1>8, <2>4, <2>5
<1>10. CASE pc[p] \in {"scan", "sweep"}
  <2>1. ASSUME p # t \/ ~retire(t) PROVE slots'[s] = n /\ (Passed(p, s)' => n \in scanned'[p])
    <3>1. /\ UNCHANGED <<pc[p], i[p], limit[p], retired[p], scanned[p], firstLoEntryFlag[p],
                         retire_bag_size_when_entered_loWm[p]>>
      <4>1. CASE client(t)
        <5>1. /\ pc[t] \in Calm /\ (p # t => pc'[p] = pc[p])
              /\ UNCHANGED <<i, limit, retired, scanned, firstLoEntryFlag,
                             retire_bag_size_when_entered_loWm>>
          BY <1>1, <4>1, ClientStep
        <5>2. QED BY <1>10, <5>1 DEF Calm
      <4>2. CASE signal(t)
        BY <1>1, <4>2, SignalStep
      <4>3. CASE retire(t) /\ p # t
        BY <1>1, <4>3, OthersKeep
      <4>4. QED BY <2>1, <4>1, <4>2, <4>3
    <3>2. j \in 1 .. toSweep(p) /\ j \in 1 .. Len(retired[p]) /\ (Passed(p, s)' = Passed(p, s))
      BY <1>3, <3>1 DEF toSweep, sweepLimit, Passed
    <3>3. retired[p][j] = n
      BY <3>1 DEF n
    <3>4. slots[s] = n /\ (Passed(p, s) => n \in scanned[p])
      BY <1>5, <1>10, <3>2, <3>3 DEF ScanCovered
    <3>5. QED BY <1>8, <3>1, <3>2, <3>4
  <2>2. ASSUME p = t, empty_scan(t) PROVE slots'[s] = n /\ (Passed(p, s)' => n \in scanned'[p])
    <3>1. /\ toSweep(t)' = toSweep(t) /\ UNCHANGED <<slots, ref, retired>>
          /\ Passed(t, s)' => Passed(t, s) \/ s = i[t]
          /\ n \in scanned[t] \/ (n = slots[i[t]] /\ n # NULL) => n \in scanned'[t]
      BY <1>1, <2>2, ScanStep
    <3>2. slots[s] = n /\ (Passed(t, s) => n \in scanned[t])
      BY <1>5, <1>10, <2>2, <3>1 DEF ScanCovered, n
    <3>3. QED BY <1>6, <2>2, <3>1, <3>2
  <2>3. ASSUME p = t, empty_free(t) PROVE slots'[s] = n /\ (Passed(p, s)' => n \in scanned'[p])
    <3>1. /\ pc[t] = "sweep" /\ pc' = pc /\ limit'[t] = limit[t] - 1 /\ limit[t] \in Nat
          /\ Len(retired[t]) \in Nat /\ Len(retired'[t]) = Len(retired[t]) - 1
          /\ UNCHANGED <<slots, ref, scanned>>
      BY <1>1, <2>3, FreeStep
    <3>2. retired'[t][j] = retired[t][j] \/ retired'[t][j] = retired[t][j + 1]
      BY <1>1, <1>3, <2>3, <3>1, FreeStep
    <3>3. j \in 1 .. limit[t] /\ j + 1 \in 1 .. limit[t]
      <4>1. toSweep(t)' = limit[t] - 1
        BY <3>1 DEF toSweep
      <4>2. QED BY <2>3, <3>1, <4>1
    <3>4. \E m \in 1 .. toSweep(t) : retired[t][m] = n
      BY <2>3, <3>1, <3>2, <3>3 DEF toSweep, n
    <3>5. slots[s] = n /\ (Passed(t, s) => n \in scanned[t])
      BY <1>5, <1>10, <2>3, <3>4 DEF ScanCovered
    <3>6. QED BY <2>3, <3>1, <3>5 DEF Passed
  <2>4. p = t /\ retire(t) => empty_scan(t) \/ empty_free(t)
    <3>1. (\/ retire_push(t) \/ hi_announce(t) \/ hi_publish(t) \/ hi_ping(t)
           \/ hi_confirm(t) \/ lo_save(t) \/ lo_check(t)) =>
             pc[t] \in {"retire", "announce", "publish", "ping", "confirm", "save", "check"}
      BY DEF retire_push, hi_announce, hi_publish, hi_ping, hi_confirm, lo_save, lo_check, goto
    <3>2. empty_return(t) => pc'[t] = "op"
      BY <1>1 DEF empty_return, goto, TypeOK
    <3>3. QED BY <1>10, <3>1, <3>2 DEF retire
  <2>5. QED BY <1>5, <2>1, <2>2, <2>3, <2>4
<1>11. QED BY <1>9, <1>10

(* No record is freed that somebody uses. *)
LEMMA NextNoUseAfterFree ==
  ASSUME IInv, ScanCovered, NoUseAfterFree, NEW t \in Tid, client(t) \/ retire(t) \/ signal(t)
  PROVE  NoUseAfterFree'
<1>1. /\ TypeOK /\ Locals /\ OnePlace /\ LocalProtects /\ Books
  BY DEF IInv, Structure
<1>2. CASE client(t)
  BY <1>1, <1>2, ClientStep DEF NoUseAfterFree
<1>3. CASE signal(t)
  BY <1>1, <1>3, SignalStep DEF NoUseAfterFree
<1>4. CASE retire_push(t)
  <2>1. pool' = pool /\ NULL \notin pool
    BY <1>1, <1>4, PushStep, LinkedRecordsAssumption DEF TypeOK, RecordsTypeOK
  <2>2. \A s \in Slot : ref'[s] = ref[s] \/ ref'[s] = NULL
    BY <1>4 DEF retire_push
  <2>3. QED BY <2>1, <2>2 DEF NoUseAfterFree
<1>5. CASE \/ hi_announce(t) \/ hi_publish(t) \/ hi_ping(t) \/ hi_confirm(t)
           \/ lo_save(t) \/ lo_check(t) \/ empty_scan(t) \/ empty_return(t)
  <2>1. UNCHANGED <<pool, ref>>
    BY <1>1, <1>5, KeepsLists
  <2>2. QED BY <2>1 DEF NoUseAfterFree
<1>6. CASE empty_free(t)
  <2>1. PICK k \in 1 .. limit[t] :
           retired[t][k] \notin scanned[t] /\ pool' = pool \union {retired[t][k]}
    BY <1>1, <1>6, FreeStep
  <2>2. pc[t] = "sweep" /\ ref' = ref
    BY <1>1, <1>6, FreeStep
  <2>3. \A s \in Slot : ref[s] # retired[t][k]
    BY <2>1, <2>2 DEF ScanCovered, toSweep, Passed
  <2>4. QED BY <2>1, <2>2, <2>3 DEF NoUseAfterFree
<1>7. QED BY <1>2, <1>3, <1>4, <1>5, <1>6 DEF retire

(* Safety goes from one step to the next. *)
LEMMA NextSafe ==
  ASSUME PromptDelivery
  PROVE  IInv /\ IInv' /\ LowWatermarkSound /\ Safe /\ [Next]_vars => Safe'
<1> SUFFICES ASSUME IInv, IInv', LowWatermarkSound, Safe, [Next]_vars PROVE Safe'
  OBVIOUS
<1>1. ASSUME NEW t \in Tid, client(t) \/ retire(t) \/ signal(t) PROVE Safe'
  BY <1>1, NextLowRound, NextScanCovered, NextNoUseAfterFree DEF Safe
<1>2. CASE UNCHANGED vars
  <2> USE <1>2 DEF vars, records, reserved, stamps, loWm, signals, emptying
  <2>1. LowRound'
    BY DEF Safe, LowRound, Waiting, Signalled, Coming, bag
  <2>2. ScanCovered' /\ NoUseAfterFree'
    BY DEF Safe, ScanCovered, toSweep, sweepLimit, Passed, NoUseAfterFree
  <2>3. QED BY <2>1, <2>2 DEF Safe
<1>3. QED BY <1>1, <1>2 DEF Next

(* When signals are delivered before the pinging loop ends, and unless a   *)
(* third thread has seen the time stamp of a round that was on, no record  *)
(* is freed that a thread has read and still protects.                     *)
THEOREM Safety ==
  PromptDelivery => (Spec /\ []LowWatermarkSound => []NoUseAfterFree)
<1>1. Init => Safe
  BY InitIInv
<1>2. Safe => NoUseAfterFree
  BY DEF Safe
<1>3. CASE PromptDelivery
  <2>1. IInv /\ IInv' /\ LowWatermarkSound /\ Safe /\ [Next]_vars => Safe'
    BY <1>3, NextSafe
  <2>2. Spec /\ []LowWatermarkSound => []NoUseAfterFree
    BY <1>1, <1>2, <2>1, Invariance, PTL DEF Spec
  <2>3. QED BY <2>2
<1>4. CASE ~PromptDelivery
  BY <1>4
<1>5. QED BY <1>3, <1>4

(* Two threads need no such proviso. *)
THEOREM SafetyOfTwo ==
  PromptDelivery /\ NumProcess <= 2 => (Spec => []NoUseAfterFree)
<1>1. CASE PromptDelivery /\ NumProcess <= 2
  <2>1. LowWatermarkSound
    BY <1>1 DEF LowWatermarkSound
  <2>2. Spec /\ []LowWatermarkSound => []NoUseAfterFree
    BY <1>1, Safety
  <2>3. Spec => []NoUseAfterFree
    BY <2>1, <2>2, PTL
  <2>4. QED BY <2>3
<1>2. CASE ~(PromptDelivery /\ NumProcess <= 2)
  BY <1>2
<1>3. QED BY <1>1, <1>2

-------------------------------------------------------------------------------
(* HazardPtrPOP implements SafeReclamation. *)
Shared == <<pool, cell, retired, ref>>

(* What neither links, lists nor uses change is a stutter of the contract. *)
LEMMA SharedStutters ==
  ASSUME UNCHANGED Shared
  PROVE  UNCHANGED Contract!vars
BY DEF Shared, Contract!vars, status, held, Linked

(* A slot belongs to one thread. *)
LEMMA SlotsApart ==
  ASSUME NEW t \in Tid, NEW u \in Tid, NEW s \in slotsOf(t), s \in slotsOf(u)
  PROVE  t = u /\ s \in Slot
<1>1. PICK k \in Index : s = slotOf(t, k)
  BY DEF slotsOf, Index
<1>2. slotOf(t, k) \in slotsOf(u)
  BY <1>1
<1>3. QED BY <1>1, <1>2, OwnSlot, SlotInRange

(* A record is in one place: what the contract says of it, by the place. *)
LEMMA Placed ==
  ASSUME TypeOK, OnePlace, NEW n \in Node
  PROVE  /\ n \in pool => status[n] = "free"
         /\ \A c \in Cell : cell[c] = n => status[n] = "linked"
         /\ \A t \in Tid : obj[t] = n => status[n] = "unlinked"
         /\ \A t \in Tid : InList(t, n) => status[n] = "retired"
<1>1. n # NULL
  BY LinkedRecordsAssumption
<1>2. n \in pool => status[n] = "free"
  BY DEF status
<1>3. ASSUME NEW c \in Cell, cell[c] = n PROVE status[n] = "linked"
  <2>1. n \notin pool /\ n \in Linked
    BY <1>1, <1>3 DEF OnePlace, LinksDisjoint, Linked
  <2>2. QED BY <2>1 DEF status
<1>4. ASSUME NEW t \in Tid, obj[t] = n PROVE status[n] = "unlinked"
  <2>1. n \notin pool /\ n \notin Linked /\ \A u \in Tid : ~InList(u, n)
    BY <1>1, <1>4 DEF OnePlace, RetiringDisjoint, Linked
  <2>2. QED BY <2>1 DEF status, Contains, InList
<1>5. ASSUME NEW t \in Tid, InList(t, n) PROVE status[n] = "retired"
  <2>1. n \notin pool /\ n \notin Linked
    BY <1>5 DEF OnePlace, RetiredDisjoint, Linked, InList
  <2>2. QED BY <1>5, <2>1 DEF status, Contains, InList
<1>6. QED BY <1>2, <1>3, <1>4, <1>5

(* Each client step is a step of the contract, *)
LEMMA ClientRefines ==
  ASSUME TypeOK, Locals, OnePlace, NEW t \in Tid, client(t)
  PROVE  Contract!Next \/ UNCHANGED Contract!vars
<1> USE DEF goto, records, reserved, stamps, loWm, signals, reading, emptying
<1>0. NULL \notin Node /\ ref \in [Slot -> Pointer] /\ held' \in [Tid -> SUBSET Node]
  BY LinkedRecordsAssumption DEF TypeOK, held
<1>1. CASE read_load(t) \/ reserve(t)
  BY <1>1, SharedStutters DEF Shared, read_load, reserve
<1>2. CASE endOp(t)
  <2>1. UNCHANGED status
    BY <1>2 DEF endOp, status, Linked
  <2>2. \A s \in Slot : ref'[s] = IF s \in slotsOf(t) THEN NULL ELSE ref[s]
    BY <1>2 DEF endOp
  <2>3. \A u \in Tid : \A s \in slotsOf(u) : s \in Slot
    BY SlotsApart
  <2>4. \A u \in Tid : held'[u] \subseteq held[u]
    BY <1>0, <2>2, <2>3 DEF held
  <2>5. Contract!Drop
    BY <1>0, <2>1, <2>4 DEF Contract!Drop
  <2>6. QED BY <2>5 DEF Contract!Next
<1>3. ASSUME NEW c \in Cell, NEW s \in slotsOf(t), read_call(t, s, c) PROVE Contract!Next
  <2>1. UNCHANGED status
    BY <1>3 DEF read_call, status, Linked
  <2>2. ref' = [ref EXCEPT ![s] = NULL] /\ s \in Slot
    BY <1>3, SlotsApart DEF read_call
  <2>3. \A u \in Tid : \A r \in slotsOf(u) : r \in Slot
    BY SlotsApart
  <2>4. \A r \in Slot : ref'[r] = IF r = s THEN NULL ELSE ref[r]
    BY <1>0, <2>2
  <2>5. \A u \in Tid : held'[u] \subseteq held[u]
    BY <1>0, <2>3, <2>4 DEF held
  <2>6. Contract!Drop
    BY <1>0, <2>1, <2>5 DEF Contract!Drop
  <2>7. QED BY <2>6 DEF Contract!Next
<1>4. CASE read_validate(t)
  <2> DEFINE n == ret[t]
             s == idx[t]
  <2>1. UNCHANGED status /\ UNCHANGED <<pool, cell, retired>>
    BY <1>4 DEF read_validate, status, Linked
  <2>2. src[t] \in Cell /\ s \in slotsOf(t) /\ s \in Slot /\ ref[s] = NULL /\ n \in Pointer
    BY <1>4 DEF read_validate, Locals, TypeOK
  <2>3. CASE cell[src[t]] = n /\ n # NULL
    <3>1. n \in Node /\ ref' = [ref EXCEPT ![s] = n]
      BY <1>4, <2>2, <2>3 DEF read_validate, Pointer
    <3>2. \A r \in Slot : ref'[r] = IF r = s THEN n ELSE ref[r]
      BY <1>0, <3>1
    <3>3. status[n] = "linked"
      BY <2>2, <2>3, <3>1, Placed
    <3>4. \A u \in Tid : \A r \in slotsOf(u) : r \in Slot /\ (r = s => u = t)
      BY <2>2, SlotsApart
    <3> HIDE DEF n, s
    <3>5. \A u \in Tid : u # t => held'[u] = held[u]
      BY <3>2, <3>4 DEF held
    <3>6. held'[t] = held[t] \union {n}
      BY <1>0, <2>2, <3>1, <3>2, <3>4 DEF held
    <3>7. held' = [held EXCEPT ![t] = @ \union {n}]
      BY <3>5, <3>6 DEF held
    <3>8. Contract!Hold(t, n)
      BY <2>1, <3>3, <3>7 DEF Contract!Hold
    <3>9. QED BY <3>1, <3>8 DEF Contract!Next
  <2>4. CASE ~(cell[src[t]] = n /\ n # NULL)
    <3>1. ref' = ref
      BY <1>0, <1>4, <2>2, <2>4 DEF read_validate
    <3>2. QED BY <2>1, <3>1, SharedStutters DEF Shared
  <2>5. QED BY <2>3, <2>4
<1>5. ASSUME NEW c \in Cell, insert(t, c) PROVE Contract!Next
  <2>1. PICK n \in pool : cell' = [cell EXCEPT ![c] = n] /\ pool' = pool \ {n}
    BY <1>5 DEF insert, link
  <2>2. n \in Node /\ cell[c] = NULL /\ UNCHANGED <<retired, held>>
    BY <1>5 DEF insert, link, held, TypeOK, RecordsTypeOK
  <2>3. status[n] = "free"
    BY <2>2, Placed
  <2>4. status' = [status EXCEPT ![n] = "linked"]
    <3>1. \A m \in Node : m \in pool' <=> m \in pool /\ m # n
      BY <2>1
    <3>2. \A m \in Node : m \in Linked' <=> m \in Linked \/ m = n
      BY <2>1, <2>2, LinkedRecordsAssumption DEF Linked, TypeOK, RecordsTypeOK
    <3>3. QED BY <2>1, <2>2, <3>1, <3>2 DEF status
  <2>5. Contract!Link(n)
    BY <2>2, <2>3, <2>4 DEF Contract!Link, Contract!move
  <2>6. QED BY <2>2, <2>5 DEF Contract!Next
<1>6. ASSUME NEW c \in Cell, erase(t, c) PROVE Contract!Next
  <2> DEFINE n == cell[c]
  <2>1. n \in Node /\ n # NULL /\ n \notin pool /\ \A u \in Tid : ~InList(u, n)
    <3>1. n \in Node /\ n # NULL
      BY <1>6 DEF erase, TypeOK, RecordsTypeOK
    <3>2. n \notin pool
      BY <3>1 DEF OnePlace, LinksDisjoint
    <3>3. \A u \in Tid : ~InList(u, n)
      BY DEF OnePlace, RetiredDisjoint, InList
    <3>4. QED BY <3>1, <3>2, <3>3
  <2>2. /\ cell' = [cell EXCEPT ![c] = NULL] /\ UNCHANGED <<pool, retired, held>>
        /\ n \in held[t]
    BY <1>6, <2>1 DEF erase, unlink, held
  <2>3. status[n] = "linked"
    BY <2>1, Placed
  <2>4. status' = [status EXCEPT ![n] = "unlinked"]
    <3>1. \A m \in Node : m \in Linked' <=> m \in Linked /\ m # n
      BY <2>1, <2>2, LinkedRecordsAssumption
      DEF Linked, TypeOK, RecordsTypeOK, OnePlace, LinksDisjoint
    <3>2. QED BY <2>1, <2>2, <3>1 DEF status, Contains, InList
  <2>5. Contract!Unlink(t, n)
    BY <2>2, <2>3, <2>4 DEF Contract!Unlink, Contract!move
  <2>6. QED BY <2>1, <2>5 DEF Contract!Next
<1>7. QED BY <1>1, <1>2, <1>3, <1>4, <1>5, <1>6 DEF client

(* retire is that of the contract, *)
LEMMA PushRefines ==
  ASSUME TypeOK, Locals, OnePlace, NEW t \in Tid, retire_push(t)
  PROVE  Contract!Next
<1> DEFINE n == obj[t]
<1>1. n \in Node /\ pool' = pool /\ cell' = cell /\ n # NULL
  BY PushStep, LinkedRecordsAssumption
<1>2. n \notin pool /\ n \notin Linked /\ status[n] = "unlinked"
  BY <1>1, Placed DEF OnePlace, RetiringDisjoint, Linked
<1>3. \A u \in Tid : u # t => retired'[u] = retired[u]
  BY OthersKeep DEF retire
<1>4. /\ Len(retired'[t]) = Len(retired[t]) + 1 /\ Len(retired[t]) \in Nat
      /\ \A j \in 1 .. Len(retired[t]) : retired'[t][j] = retired[t][j]
      /\ retired'[t][Len(retired[t]) + 1] = n
  BY PushStep
<1> HIDE DEF n
<1>5. \A m : InList(t, m)' <=> InList(t, m) \/ m = n
  <2>1. \A j \in 1 .. Len(retired'[t]) : j \in 1 .. Len(retired[t]) \/ j = Len(retired[t]) + 1
    BY <1>4
  <2>2. \A j \in 1 .. Len(retired[t]) : j \in 1 .. Len(retired'[t])
    BY <1>4
  <2>3. Len(retired[t]) + 1 \in 1 .. Len(retired'[t])
    BY <1>4
  <2>4. QED BY <1>4, <2>1, <2>2, <2>3 DEF InList
<1>6. \A m : (\E u \in Tid : InList(u, m)') <=> (\E u \in Tid : InList(u, m)) \/ m = n
  BY <1>3, <1>5, ZenonT(30) DEF InList
<1>7. status' = [status EXCEPT ![n] = "retired"]
  BY <1>1, <1>2, <1>6 DEF status, Contains, InList, Linked
<1>8. ref' = [s \in Slot |-> IF s \in slotsOf(t) /\ ref[s] = n THEN NULL ELSE ref[s]]
  BY DEF retire_push, n
<1>9. \A u \in Tid : \A s \in slotsOf(u) : s \in Slot /\ (s \in slotsOf(t) => u = t)
  BY SlotsApart
<1>10. held' = [held EXCEPT ![t] = @ \ {n}]
  <2>1. \A u \in Tid : u # t => held'[u] = held[u]
    BY <1>8, <1>9 DEF held
  <2>2. held'[t] = held[t] \ {n}
    BY <1>8, <1>9, LinkedRecordsAssumption DEF held
  <2>3. QED BY <2>1, <2>2 DEF held
<1>11. Contract!Retire(t, n)
  BY <1>2, <1>7, <1>10 DEF Contract!Retire, Contract!move
<1>12. QED BY <1>1, <1>11 DEF Contract!Next

(* and what is freed nobody holds. *)
LEMMA FreeRefines ==
  ASSUME TypeOK, OnePlace, ScanCovered, NEW t \in Tid, empty_free(t)
  PROVE  Contract!Next
<1>1. /\ pc[t] = "sweep" /\ Len(retired[t]) \in Nat /\ Len(retired'[t]) = Len(retired[t]) - 1
      /\ UNCHANGED <<cell, ref>>
  BY FreeStep
<1>2. PICK k \in 1 .. limit[t] :
         /\ k \in 1 .. Len(retired[t]) /\ retired[t][k] \notin scanned[t]
         /\ pool' = pool \union {retired[t][k]}
         /\ \A j \in 1 .. Len(retired[t]) - 1 :
               retired'[t][j] = IF j < k THEN retired[t][j] ELSE retired[t][j + 1]
  BY FreeStep
<1> DEFINE n == retired[t][k]
<1>3. n \in Node /\ InList(t, n) /\ status[n] = "retired"
  BY <1>2, ListHoldsRecords, Placed DEF InList
<1>4. \A s \in Slot : ref[s] # n
  BY <1>1, <1>2 DEF ScanCovered, toSweep, Passed
<1>5. \A u \in Tid : n \notin held[u]
  BY <1>4, SlotsApart DEF held
<1>6. \A u \in Tid : u # t => retired'[u] = retired[u]
  BY OthersKeep DEF retire
<1>7. \A m : m # n => (InList(t, m)' <=> InList(t, m))
  <2>1. ASSUME NEW j \in 1 .. Len(retired'[t])
        PROVE  \E h \in 1 .. Len(retired[t]) : retired'[t][j] = retired[t][h]
    <3>1. j \in 1 .. Len(retired[t]) - 1
      BY <1>1
    <3>2. j \in 1 .. Len(retired[t]) /\ j + 1 \in 1 .. Len(retired[t])
      BY <1>1, <3>1
    <3>3. QED BY <1>2, <3>1, <3>2
  <2>2. ASSUME NEW j \in 1 .. Len(retired[t]), j # k
        PROVE  \E h \in 1 .. Len(retired'[t]) : retired'[t][h] = retired[t][j]
    <3>1. CASE j < k
      <4>1. j \in 1 .. Len(retired[t]) - 1 /\ j \in 1 .. Len(retired'[t])
        BY <1>1, <1>2, <3>1
      <4>2. QED BY <1>2, <3>1, <4>1
    <3>2. CASE ~(j < k)
      <4>1. /\ j - 1 \in 1 .. Len(retired[t]) - 1 /\ j - 1 \in 1 .. Len(retired'[t])
            /\ ~(j - 1 < k) /\ (j - 1) + 1 = j
        BY <1>1, <1>2, <2>2, <3>2
      <4>2. QED BY <1>2, <4>1
    <3>3. QED BY <3>1, <3>2
  <2>3. QED BY <2>1, <2>2 DEF InList
<1> HIDE DEF n
<1>8. \A m : m # n => ((\E u \in Tid : InList(u, m)') <=> \E u \in Tid : InList(u, m))
  BY <1>6, <1>7, ZenonT(30) DEF InList
<1>9. status' = [status EXCEPT ![n] = "free"]
  BY <1>1, <1>2, <1>3, <1>8, ZenonT(30) DEF status, Contains, InList, Linked, n
<1>10. Contract!Free(n)
  BY <1>1, <1>3, <1>5, <1>9 DEF Contract!Free, Contract!move, held
<1>11. QED BY <1>3, <1>10 DEF Contract!Next

(* Each step of the code is a step of the contract or stutters there. *)
LEMMA RefinementStep ==
  ASSUME IInv, Safe, [Next]_vars
  PROVE  [Contract!Next]_(Contract!vars)
<1>1. TypeOK /\ Locals /\ OnePlace /\ ScanCovered
  BY DEF IInv, Structure, Safe
<1>2. ASSUME NEW t \in Tid, signal(t) PROVE UNCHANGED Shared
  BY <1>1, <1>2, SignalStep DEF Shared
<1>3. ASSUME NEW t \in Tid, retire(t) PROVE Contract!Next \/ UNCHANGED Shared
  BY <1>1, <1>3, PushRefines, FreeRefines, KeepsLists DEF retire, Shared
<1>4. UNCHANGED vars => UNCHANGED Shared
  BY DEF vars, records, Shared
<1>5. QED BY <1>1, <1>2, <1>3, <1>4, ClientRefines, SharedStutters DEF Next

(* Under the same conditions as above, a record is freed when nobody holds *)
(* it: HazardPtrPOP keeps the promise of SafeReclamation.                  *)
THEOREM Refinement ==
  PromptDelivery => (Spec /\ []LowWatermarkSound => Reclamation)
<1>1. Init => Contract!Init
  <2> SUFFICES ASSUME Init PROVE Contract!Init
    OBVIOUS
  <2>1. pool = Node /\ ref = [s \in Slot |-> NULL]
    BY DEF Init, InitAt, RecordsInit
  <2>2. status = [n \in Node |-> "free"]
    BY <2>1 DEF status
  <2>3. \A t \in Tid : \A s \in slotsOf(t) : ref[s] = NULL
    BY <2>1, SlotsApart
  <2>4. held = [t \in Tid |-> {}]
    BY <2>3, LinkedRecordsAssumption DEF held
  <2>5. QED BY <2>2, <2>4 DEF Contract!Init
<1>2. Init => Safe
  BY InitIInv
<1>3. CASE PromptDelivery
  <2>1. IInv /\ IInv' /\ LowWatermarkSound /\ Safe /\ [Next]_vars => Safe'
    BY <1>3, NextSafe
  <2>2. Spec /\ []LowWatermarkSound => []Safe
    BY <1>2, <2>1, Invariance, PTL DEF Spec
  <2>3. Spec /\ []LowWatermarkSound => Contract!Spec
    BY <1>1, <2>2, RefinementStep, Invariance, PTL DEF Spec, Contract!Spec
  <2>4. QED BY <2>3 DEF Reclamation
<1>4. CASE ~PromptDelivery
  BY <1>4
<1>5. QED BY <1>3, <1>4
================================================================================
