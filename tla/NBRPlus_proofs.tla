----------------------------- MODULE NBRPlus_proofs -----------------------------
(***************************************************************************)
(* NBR+ keeps every record in one place, and frees none to which a thread  *)
(* may have a pointer: for any number of threads and records, any capacity *)
(* of the bags and any number of records that an operation may save.       *)
(*                                                                         *)
(* Freeing is safe for two threads, and for more when no thread saves an   *)
(* odd time stamp at the low watermark, LowWatermarkSound: the end of a    *)
(* round of signals and the start of the next would pass for a round       *)
(* (README, finding on three threads).                                     *)
(***************************************************************************)
EXTENDS NBRPlus, FiniteSetTheorems, SequenceTheorems, TLAPS

(* What is assumed of the constants, besides LinkedRecordsAssumption. *)
Parameters ==
    /\ MaxSaved \in Nat \ {0} /\ Capacity \in Nat /\ MaxTS \in Nat
    /\ LoFreqs \subseteq Nat \ {0} /\ \E most \in LoFreqs : \A freq \in LoFreqs : most >= freq

(* The steps of a round of signals, in which announcedTS is odd, those in  *)
(* which a list is emptied, and all steps of retire.                       *)
Round == {"signal", "signalled"}
Emptying == {"size", "collect", "sweep"}
Retire == {"retire", "announce", "save", "check", "add"} \union Round \union Emptying

Types ==
    /\ TypeOK
    /\ proposed \in [Tid -> Seq(Node)]
    /\ bookmark \in [Tid -> SUBSET Node]
    /\ \A t \in Tid : IsFiniteSet(retired[t])

(* The locals are alive exactly where the code uses them. *)
LocalsOf(t) ==
    /\ pc[t] \in Retire <=> obj[t] # NULL
    /\ pc[t] \notin {"signal", "save", "check", "size", "collect"} => i[t] = <<0, 0>>
    /\ pc[t] = "collect" => i[t][2] < sz[t]
    /\ pc[t] # "collect" => i[t][2] = 0 /\ sz[t] = 0
    /\ pc[t] \notin Emptying => freeable[t] = {} /\ scanned[t] = {}
    /\ freeable[t] \subseteq retired[t]
Locals == \A t \in Tid : LocalsOf(t)

(* A time stamp is odd in a round of its thread and at no other time.      *)
StampOf(t) ==
    /\ announcedTS[t] % 2 = IF pc[t] \in Round THEN 1 ELSE 0
    /\ pc[t] \in {"retire", "announce", "save", "check"} => announcedTS[t] + 2 <= MaxTS
    /\ pc[t] \in Round => announcedTS[t] + 1 <= MaxTS
Stamps ==
    \A t \in Tid :
        /\ StampOf(t)
        /\ savedTS[t][t] % 2 = 0
        /\ \A u \in Tid : savedTS[t][u] <= announcedTS[u]

(* Past the low watermark a bag holds what it held at the bookmark and     *)
(* what was counted since.                                                 *)
BookOf(t) ==
    /\ pc[t] = "check" => ~firstLoEntryFlag[t]
    /\ pc[t] = "save" =>
          /\ firstLoEntryFlag[t] <=> i[t][1] = 0
          /\ ~firstLoEntryFlag[t] => bookmark[t] = retired[t]
          /\ retired[t] # {}
    /\ pc[t] \in {"save", "check"} => Cardinality(retired[t]) <= Capacity
    /\ firstLoEntryFlag[t] => numRetiresSinceLoWatermark[t] = 0
    /\ ~firstLoEntryFlag[t] /\ pc[t] # "sweep" =>
          /\ bookmark[t] \subseteq retired[t]
          /\ Cardinality(retired[t]) = Cardinality(bookmark[t]) + numRetiresSinceLoWatermark[t]
          /\ Cardinality(retired[t]) <= Capacity + 1
          /\ pc[t] = "add" => Cardinality(retired[t]) <= Capacity
Books == \A t \in Tid : BookOf(t)

(* A record is linked once, or being retired by one thread, or in one bag, *)
(* or free. *)
LinksDisjoint ==
    \A c \in Cell : cell[c] # NULL =>
        cell[c] \notin pool /\ \A d \in Cell : cell[d] = cell[c] => d = c

RetiringDisjoint ==
    \A t \in Tid : obj[t] # NULL =>
        /\ obj[t] \notin pool
        /\ \A c \in Cell : cell[c] # obj[t]
        /\ \A u \in Tid : obj[t] \notin retired[u] /\ (obj[u] = obj[t] => u = t)

RetiredDisjoint ==
    \A t \in Tid : \A n \in retired[t] :
        /\ n \notin pool
        /\ \A c \in Cell : cell[c] # n
        /\ \A u \in Tid : n \in retired[u] => u = t

OnePlace == LinksDisjoint /\ RetiringDisjoint /\ RetiredDisjoint

(* Who may have a pointer to a record that was unlinked is in its read     *)
(* phase, or has saved the record.                                         *)
Uses ==
    \A n \in Node : \A u \in waiting[n] :
        pc[u] # "idle" /\ (pc[u] = "read" \/ n \in saved(u))

(* A signal has to come to v before n may be freed; it is not a matter of  *)
(* the thread that retires n itself.                                       *)
Due(v, n) == v \in waiting[n] /\ pc[v] = "read"

OwnDone == \A t \in Tid : \A n \in Node : n \in retired[t] \/ obj[t] = n => ~Due(t, n)

(* Thread t has sent v the signal of this round: it has come, or will.     *)
Signalled(t, v) == v # t /\ (pc[t] = "signalled" \/ (pc[t] = "signal" /\ v < i[t][1]))

HiRound ==
    \A t, v \in Tid : \A n \in retired[t] : Signalled(t, v) /\ Due(v, n) => pending[v]

(* Thread t is past the low watermark and has saved the time stamp of u.   *)
(* A u that has announced a round since has ended its read phase.          *)
Waiting(t, u) == ~firstLoEntryFlag[t] /\ (pc[t] = "save" => u < i[t][1])

Announcer ==
    \A t, u \in Tid : \A n \in bookmark[t] \intersect retired[t] :
        Waiting(t, u) /\ Due(u, n) => announcedTS[u] = savedTS[t][u]

IInv ==
    /\ Parameters /\ Types /\ Locals /\ Stamps /\ Books /\ OnePlace
    /\ Uses /\ OwnDone /\ HiRound /\ Announcer

(* The round of u that began after the snapshot has sent its signals to    *)
(* whom u has come to, and when it has ended nobody is due.                *)
LowRound ==
    \A t, u, v \in Tid : \A n \in bookmark[t] \intersect retired[t] :
        Waiting(t, u) /\ Due(v, n) =>
            /\ announcedTS[u] < savedTS[t][u] + 2
            /\ announcedTS[u] = savedTS[t][u] + 1 /\ Signalled(u, v) => pending[v]

(* What the copy of the saved records has, of those that may be freed.     *)
ScanCovered ==
    \A t \in Tid : pc[t] \in Emptying => \A n \in freeable[t] : \A v \in waiting[n] :
        /\ pc[t] = "sweep" \/ v < i[t][1] => n \in scanned[t]
        /\ pc[t] = "collect" /\ v = i[t][1] =>
              /\ sz[t] = Len(proposed[v])
              /\ \A k \in 1 .. i[t][2] : proposed[v][k] \in scanned[t]

Safe == LowRound /\ Neutralized /\ ScanCovered /\ NoUseAfterFree

(* Two threads, or no snapshot of a round that is on. *)
LowWatermarkSound == NumProcess <= 2 \/ \A t, u \in Tid : savedTS[t][u] % 2 = 0

-------------------------------------------------------------------------------
(* Where the loops are. *)
Pos == (0 .. NumProcess - 1) \X (0 .. MaxSaved - 1)

(* An index is a pair, and so is one in which a part has changed. *)
LEMMA PosProperties ==
  ASSUME NEW p \in Pos
  PROVE  /\ p[1] \in Tid /\ p[2] \in 0 .. MaxSaved - 1 /\ p = <<p[1], p[2]>>
         /\ \A a : [p EXCEPT ![1] = a] = <<a, p[2]>> /\ [p EXCEPT ![2] = a] = <<p[1], a>>
BY DEF Pos, Tid

(* What rand() can make the frequency is a number. *)
LEMMA MaxIsFreq == Parameters => Max(LoFreqs) \in LoFreqs
<1>1. Parameters => \E most \in LoFreqs : \A freq \in LoFreqs : most >= freq
  BY DEF Parameters
<1>2. QED BY <1>1 DEF Max

(* The types hold at the start. *)
LEMMA InitTypes == Parameters /\ Init => Types
<1> SUFFICES ASSUME Parameters, Init PROVE Types
  OBVIOUS
<1> USE DEF Init, RecordsInit
<1>1. Max(LoFreqs) \in LoFreqs
  BY MaxIsFreq
<1>2. 0 \in 0 .. NumProcess - 1 /\ 0 \in 0 .. MaxSaved - 1
  BY LinkedRecordsAssumption DEF Parameters
<1>3. i \in [Tid -> (0 .. NumProcess - 1) \X (0 .. MaxSaved - 1)]
  BY <1>2
<1>4. \A t \in Tid : IsFiniteSet(retired[t])
  BY FS_EmptySet
<1>5. <<>> \in Seq(Node) /\ Len(<<>>) = 0
  BY EmptySeq
<1>6. proposed \in [Tid -> Seq(Node)] /\ \A t \in Tid : Len(proposed[t]) <= MaxSaved
  BY <1>5 DEF Parameters
<1>7. QED BY <1>1, <1>3, <1>4, <1>6 DEF Types, TypeOK, RecordsTypeOK, Parameters

(* A bag and what is added to or taken from it. *)
LEMMA BagStep ==
  ASSUME NEW S, IsFiniteSet(S), NEW n
  PROVE  /\ Cardinality(S) \in Nat /\ IsFiniteSet(S \union {n}) /\ IsFiniteSet(S \ {n})
         /\ n \notin S => Cardinality(S \union {n}) = Cardinality(S) + 1
         /\ S # {} => Cardinality(S) > 0
BY FS_CardinalityType, FS_AddElement, FS_RemoveElement, FS_EmptySet

(* Past the low watermark fewer are counted than a full bag has. *)
LEMMA CountBound ==
  ASSUME Parameters, Types, Books, NEW t \in Tid, ~firstLoEntryFlag[t], pc[t] # "sweep"
  PROVE  numRetiresSinceLoWatermark[t] <= Capacity
<1>1. /\ bookmark[t] # {} /\ bookmark[t] \subseteq retired[t]
      /\ Cardinality(retired[t]) = Cardinality(bookmark[t]) + numRetiresSinceLoWatermark[t]
      /\ Cardinality(retired[t]) <= Capacity + 1
  BY DEF Books, BookOf, Types, TypeOK
<1>2. IsFiniteSet(bookmark[t]) /\ IsFiniteSet(retired[t])
  BY <1>1, FS_Subset DEF Types
<1>3. Cardinality(bookmark[t]) > 0 /\ Cardinality(bookmark[t]) \in Nat
  BY <1>1, <1>2, BagStep
<1>4. numRetiresSinceLoWatermark[t] \in Nat /\ Capacity \in Nat
  BY DEF Types, TypeOK, Parameters
<1>5. QED BY <1>1, <1>3, <1>4

(* What a thread has of its own: what no other thread's step changes, but  *)
(* for the signals that it is sent.                                        *)
Own(u) == <<proposed[u], retired[u], announcedTS[u], savedTS[u], firstLoEntryFlag[u],
            numRetiresSinceLoWatermark[u], bookmark[u], pc[u], obj[u], i[u], sz[u],
            scanned[u], freeable[u], restartable[u]>>

step(t) == client(t) \/ retire(t) \/ handler(t)

(* The loop index of a thread is a thread and a place in its list. *)
LEMMA At ==
  ASSUME Types, NEW t \in Tid
  PROVE  /\ i[t] \in Pos /\ i[t][1] \in Tid /\ i[t][2] \in 0 .. MaxSaved - 1
         /\ i[t] = <<i[t][1], i[t][2]>>
         /\ \A a : [i[t] EXCEPT ![1] = a] = <<a, i[t][2]>> /\ [i[t] EXCEPT ![2] = a] = <<i[t][1], a>>
<1>1. i[t] \in Pos
  BY DEF Types, TypeOK, Pos
<1>2. QED BY <1>1, PosProperties

(* The functions that steps update, without what relates them. *)
Shapes ==
    /\ restartable \in [Tid -> BOOLEAN] /\ retired \in [Tid -> SUBSET Node]
    /\ proposed \in [Tid -> Seq(Node)]
    /\ announcedTS \in [Tid -> 0 .. MaxTS] /\ savedTS \in [Tid -> [Tid -> 0 .. MaxTS]]
    /\ firstLoEntryFlag \in [Tid -> BOOLEAN]
    /\ numRetiresSinceLoWatermark \in [Tid -> 0 .. Capacity + 1]
    /\ bookmark \in [Tid -> SUBSET Node] /\ pending \in [Tid -> BOOLEAN]
    /\ obj \in [Tid -> Node \union {NULL}] /\ i \in [Tid -> Pos] /\ sz \in [Tid -> 0 .. MaxSaved]
    /\ scanned \in [Tid -> SUBSET Node] /\ freeable \in [Tid -> SUBSET Node]
    /\ pc = [v \in Tid |-> pc[v]]

(* The shapes of the variables follow from their types. *)
LEMMA ShapesHold == Types => Shapes
BY DEF Types, TypeOK, Pos, Shapes

(* A step leaves what the other threads have as it is, and takes no signal *)
(* from them.                                                              *)
LEMMA OthersKeep ==
  ASSUME Types, NEW t \in Tid, step(t), NEW u \in Tid, u # t
  PROVE  Own(u)' = Own(u) /\ (pending[u] => pending'[u])
<1> DEFINE G == Own(u)' = Own(u) /\ (pending[u] => pending'[u])
<1>0. Shapes
  BY ShapesHold
<1>0a. i[t][1] \in Tid
  BY At
<1> USE <1>0 DEF Shapes, Own, goto, loWm, emptying
<1>1. CASE startOp(t) \/ upgradeToWritePhase(t) \/ endOp(t)
  BY <1>1 DEF startOp, upgradeToWritePhase, endOp
<1>2. ASSUME NEW n \in Node, saveForWritePhase(t, n) PROVE G
  BY <1>2 DEF saveForWritePhase
<1>3. ASSUME NEW c \in Cell, insert(t, c) \/ erase(t, c) PROVE G
  BY <1>3 DEF insert, erase
<1>4. CASE handler(t)
  BY <1>4 DEF handler
<1>5. CASE retire_check(t) \/ retire_add(t)
  BY <1>5 DEF retire_check, retire_add
<1>6. CASE hi_announce(t) \/ hi_announceEnd(t)
  BY <1>6 DEF hi_announce, hi_announceEnd
<1>7. CASE hi_signal(t)
  BY <1>7, <1>0a DEF hi_signal
<1>8. CASE lo_save(t)
  BY <1>8 DEF lo_save
<1>9. CASE lo_check(t)
  BY <1>9 DEF lo_check
<1>10. CASE collect_size(t)
  BY <1>10 DEF collect_size, nextThread
<1>11. CASE collect_get(t)
  BY <1>11 DEF collect_get, nextThread
<1>12. CASE sendFreeableRecordsToPool(t) \/ reclaim_end(t)
  BY <1>12 DEF sendFreeableRecordsToPool, reclaim_end, resetLoWmMetaData
<1>13. QED BY <1>1, <1>2, <1>3, <1>4, <1>5, <1>6, <1>7, <1>8, <1>9, <1>10, <1>11, <1>12
           DEF step, client, retire

(* Every step keeps the types. *)
LEMMA TypesStep ==
  ASSUME Parameters, Types, Locals, Stamps, Books, OnePlace, NEW t \in Tid, step(t)
  PROVE  Types'
<1> DEFINE P == {"idle", "read", "write", "retire", "announce", "signal", "signalled",
                 "save", "check", "size", "collect", "sweep", "add"}
           Rest == /\ cell \in [Cell -> Node \union {NULL}] /\ pool \in SUBSET Node
                   /\ proposed \in [Tid -> Seq(Node)] /\ \A u \in Tid : Len(proposed[u]) <= MaxSaved
                   /\ retired \in [Tid -> SUBSET Node] /\ \A u \in Tid : IsFiniteSet(retired[u])
                   /\ announcedTS \in [Tid -> 0 .. MaxTS]
                   /\ savedTS \in [Tid -> [Tid -> 0 .. MaxTS]]
                   /\ numRetiresSinceLoWatermark \in [Tid -> 0 .. Capacity + 1]
                   /\ LoPathReclaimAttemptFreq \in [Tid -> LoFreqs]
                   /\ pending \in [Tid -> BOOLEAN]
                   /\ obj \in [Tid -> Node \union {NULL}]
                   /\ i \in [Tid -> Pos] /\ sz \in [Tid -> 0 .. MaxSaved]
                   /\ scanned \in [Tid -> SUBSET Node] /\ freeable \in [Tid -> SUBSET Node]
                   /\ waiting \in [Node -> SUBSET Tid]
           Flag == /\ firstLoEntryFlag \in [Tid -> BOOLEAN] /\ bookmark \in [Tid -> SUBSET Node]
                   /\ \A u \in Tid : firstLoEntryFlag[u] <=> bookmark[u] = {}
           Phase == /\ pc \in [Tid -> P] /\ restartable \in [Tid -> BOOLEAN]
                    /\ \A u \in Tid : restartable[u] <=> pc[u] = "read"
<1>a. Types <=> Rest /\ Flag /\ Phase
  BY DEF Types, TypeOK, RecordsTypeOK, Pos
<1>b. Types' <=> (Rest /\ Flag /\ Phase)'
  BY DEF Types, TypeOK, RecordsTypeOK, Pos
<1>c. Rest /\ Flag /\ Phase
  BY <1>a
<1>d. i[t] \in Pos /\ i[t][1] \in Tid /\ i[t][2] \in 0 .. MaxSaved - 1
  BY At
<1>e. <<0, 0>> \in Pos /\ (i[t][1] + 1 < NumProcess => <<i[t][1] + 1, 0>> \in Pos)
  BY <1>d, LinkedRecordsAssumption DEF Pos, Tid, Parameters
<1>f. i[t][1] + 1 < NumProcess => [i[t] EXCEPT ![1] = i[t][1] + 1] \in Pos
  BY <1>d, PosProperties, LinkedRecordsAssumption DEF Pos, Tid
<1>g. [i EXCEPT ![t] = <<0, 0>>] \in [Tid -> Pos]
  BY <1>c, <1>e
<1>h. i[t][1] + 1 < NumProcess =>
         /\ [i EXCEPT ![t][1] = i[t][1] + 1] \in [Tid -> Pos]
         /\ [i EXCEPT ![t] = <<i[t][1] + 1, 0>>] \in [Tid -> Pos]
  BY <1>c, <1>e, <1>f
<1> HIDE DEF P
<1> USE <1>c DEF goto, loWm, emptying, records
<1>1. ASSUME startOp(t) \/ upgradeToWritePhase(t) \/ endOp(t) \/ handler(t)
      PROVE  Rest' /\ Flag' /\ Phase'
  <2>1. \A S : dropAllBut(t, S) => waiting' \in [Node -> SUBSET Tid]
    BY DEF dropAllBut
  <2>2. CASE startOp(t)
    <3>1. <<>> \in Seq(Node) /\ Len(<<>>) = 0 /\ 0 <= MaxSaved
      BY EmptySeq DEF Parameters
    <3>2. proposed' \in [Tid -> Seq(Node)] /\ \A u \in Tid : Len(proposed'[u]) <= MaxSaved
      BY <2>2, <3>1 DEF startOp
    <3>3. Phase'
      BY <2>2 DEF startOp, P
    <3>4. QED BY <2>2, <3>2, <3>3 DEF startOp
  <2>3. CASE upgradeToWritePhase(t)
    <3>1. Phase'
      BY <2>3 DEF upgradeToWritePhase, P
    <3>2. QED BY <2>1, <2>3, <3>1 DEF upgradeToWritePhase
  <2>4. CASE endOp(t)
    <3>1. Phase'
      BY <2>4 DEF endOp, P
    <3>2. QED BY <2>1, <2>4, <3>1 DEF endOp
  <2>5. CASE handler(t)
    <3>1. Phase'
      <4>1. CASE restartable[t]
        <5>1. /\ restartable' = [restartable EXCEPT ![t] = FALSE]
              /\ pc' = [pc EXCEPT ![t] = "idle"]
          BY <2>5, <4>1 DEF handler
        <5>2. "idle" \in P
          BY DEF P
        <5>3. restartable' \in [Tid -> BOOLEAN] /\ pc' \in [Tid -> P]
          BY <5>1, <5>2
        <5>4. \A u \in Tid : restartable'[u] <=> pc'[u] = "read"
          BY <5>1
        <5>5. QED BY <5>3, <5>4
      <4>2. CASE ~restartable[t]
        BY <2>5, <4>2 DEF handler, P
      <4>3. QED BY <4>1, <4>2
    <3>2. waiting' \in [Node -> SUBSET Tid] /\ pending' \in [Tid -> BOOLEAN]
      BY <2>1, <2>5 DEF handler
    <3>3. QED BY <2>5, <3>1, <3>2 DEF handler
  <2>6. QED BY <1>1, <2>2, <2>3, <2>4, <2>5
<1>2. ASSUME NEW n \in Node, saveForWritePhase(t, n) PROVE Rest' /\ Flag' /\ Phase'
  <2>1. Append(proposed[t], n) \in Seq(Node) /\ Len(Append(proposed[t], n)) = Len(proposed[t]) + 1
    BY AppendProperties
  <2>2. Rest'
    BY <1>2, <2>1, LenProperties DEF saveForWritePhase, Parameters
  <2>3. QED BY <1>2, <2>2 DEF saveForWritePhase, P
<1>3. ASSUME NEW c \in Cell, insert(t, c) PROVE Rest' /\ Flag' /\ Phase'
  BY <1>3 DEF insert, link, P
<1>4. ASSUME NEW c \in Cell, erase(t, c) PROVE Rest' /\ Flag' /\ Phase'
  <2>1. cell[c] \in Node
    BY <1>4, ElementOfSeq DEF erase, saved, ToSet
  <2>2. Rest'
    BY <1>4, <2>1 DEF erase, unlink
  <2>3. Phase'
    BY <1>4 DEF erase, P
  <2>4. QED BY <1>4, <2>2, <2>3 DEF erase
<1>5. ASSUME retire_check(t) PROVE Rest' /\ Flag' /\ Phase'
  BY <1>5 DEF retire_check, P
<1>6. ASSUME retire_add(t) PROVE Rest' /\ Flag' /\ Phase'
  <2>1. obj[t] \in Node
    BY <1>6 DEF retire_add, Locals, LocalsOf, Retire
  <2>2. IsFiniteSet(retired[t] \union {obj[t]})
    BY BagStep
  <2>3. ~firstLoEntryFlag[t] => numRetiresSinceLoWatermark[t] + 1 \in 0 .. Capacity + 1
    <3>1. pc[t] # "sweep"
      BY <1>6 DEF retire_add
    <3>2. ~firstLoEntryFlag[t] => numRetiresSinceLoWatermark[t] <= Capacity
      BY <3>1, CountBound
    <3>3. numRetiresSinceLoWatermark[t] \in 0 .. Capacity + 1 /\ Capacity \in Nat
      BY DEF Parameters
    <3>4. QED BY <3>2, <3>3
  <2>4. numRetiresSinceLoWatermark' \in [Tid -> 0 .. Capacity + 1]
    BY <1>6, <2>3 DEF retire_add
  <2>5. Rest'
    BY <1>6, <2>1, <2>2, <2>4 DEF retire_add
  <2>6. QED BY <1>6, <2>5 DEF retire_add, P
<1>7. ASSUME hi_announce(t) \/ hi_announceEnd(t) PROVE Rest' /\ Flag' /\ Phase'
  <2>1. announcedTS[t] + 1 \in 0 .. MaxTS
    BY <1>7 DEF hi_announce, hi_announceEnd, Stamps, StampOf, Parameters, Round
  <2>2. announcedTS' \in [Tid -> 0 .. MaxTS]
    BY <1>7, <2>1 DEF hi_announce, hi_announceEnd
  <2>3. CASE hi_announce(t)
    <3>1. Phase'
      BY <2>3 DEF hi_announce, P
    <3>2. QED BY <2>2, <2>3, <3>1 DEF hi_announce
  <2>4. CASE hi_announceEnd(t)
    <3>1. Phase'
      BY <2>4 DEF hi_announceEnd, P
    <3>2. freeable' \in [Tid -> SUBSET Node]
      BY <2>4 DEF hi_announceEnd
    <3>3. QED BY <2>2, <2>4, <3>1, <3>2 DEF hi_announceEnd
  <2>5. QED BY <1>7, <2>3, <2>4
<1>8. ASSUME hi_signal(t) PROVE Rest' /\ Flag' /\ Phase'
  <2>1. i' \in [Tid -> Pos]
    BY <1>8, <1>g, <1>h DEF hi_signal
  <2>2. pending' \in [Tid -> BOOLEAN]
    BY <1>8 DEF hi_signal
  <2>3. Phase'
    BY <1>8 DEF hi_signal, P
  <2>4. QED BY <1>8, <2>1, <2>2, <2>3 DEF hi_signal
<1>9. ASSUME lo_save(t) PROVE Rest' /\ Flag' /\ Phase'
  <2>1. i' \in [Tid -> Pos]
    BY <1>9, <1>g, <1>h DEF lo_save
  <2>2. LoPathReclaimAttemptFreq' \in [Tid -> LoFreqs]
    BY <1>9 DEF lo_save
  <2>3. savedTS' \in [Tid -> [Tid -> 0 .. MaxTS]]
    BY <1>9, <1>d DEF lo_save
  <2>4. Phase'
    BY <1>9 DEF lo_save, P
  <2>5. retired[t] # {}
    BY <1>9 DEF lo_save, Books, BookOf
  <2>6. Flag'
    BY <1>9, <2>5 DEF lo_save
  <2>7. QED BY <1>9, <2>1, <2>2, <2>3, <2>4, <2>6 DEF lo_save
<1>10. ASSUME lo_check(t) PROVE Rest' /\ Flag' /\ Phase'
  <2>1. i' \in [Tid -> Pos]
    BY <1>10, <1>g, <1>h DEF lo_check
  <2>2. freeable' \in [Tid -> SUBSET Node]
    <3>1. [freeable EXCEPT ![t] = bookmark[t]] \in [Tid -> SUBSET Node]
      OBVIOUS
    <3>2. QED BY <1>10, <3>1 DEF lo_check, reclaimableLow
  <2>3. Phase'
    BY <1>10 DEF lo_check, P
  <2>4. QED BY <1>10, <2>1, <2>2, <2>3 DEF lo_check
<1>11. nextThread(t) /\ pc[t] \in P => i' \in [Tid -> Pos] /\ pc' \in [Tid -> P]
  BY <1>g, <1>h DEF nextThread, P
<1>12. ASSUME collect_size(t) PROVE Rest' /\ Flag' /\ Phase'
  <2>1. Len(proposed[i[t][1]]) \in 0 .. MaxSaved
    BY <1>d, LenProperties DEF Parameters
  <2>2. sz' \in [Tid -> 0 .. MaxSaved]
    BY <1>12, <2>1 DEF collect_size
  <2>3. i' \in [Tid -> Pos] /\ pc' \in [Tid -> P]
    BY <1>11, <1>12 DEF collect_size, P
  <2>4. pc' = [pc EXCEPT ![t] = pc'[t]] /\ pc'[t] # "read" /\ pc[t] # "read"
    BY <1>12, <2>3 DEF collect_size, nextThread
  <2>5. Phase'
    BY <1>12, <2>3, <2>4 DEF collect_size
  <2>6. QED BY <1>12, <2>2, <2>3, <2>5 DEF collect_size
<1>13. ASSUME collect_get(t) PROVE Rest' /\ Flag' /\ Phase'
  <2>1. sz' \in [Tid -> 0 .. MaxSaved]
    <3>1. [sz EXCEPT ![t] = 0] \in [Tid -> 0 .. MaxSaved]
      BY DEF Parameters
    <3>2. QED BY <1>13, <3>1 DEF collect_get
  <2>2. i' \in [Tid -> Pos] /\ pc' \in [Tid -> P]
    <3>1. CASE nextThread(t)
      BY <1>11, <1>13, <3>1 DEF P, collect_get
    <3>2. CASE ~nextThread(t)
      <4>1. /\ i[t][2] + 1 < sz[t] /\ i' = [i EXCEPT ![t][2] = i[t][2] + 1]
            /\ pc' = [pc EXCEPT ![t] = "collect"]
        BY <1>13, <3>2 DEF collect_get
      <4>2. [i[t] EXCEPT ![2] = i[t][2] + 1] = <<i[t][1], i[t][2] + 1>>
        BY <1>d, PosProperties
      <4>3. i[t][2] + 1 \in 0 .. MaxSaved - 1
        <5>1. sz[t] \in 0 .. MaxSaved /\ MaxSaved \in Nat
          BY DEF Parameters
        <5>2. \A a \in 0 .. MaxSaved - 1, b \in 0 .. MaxSaved : a + 1 < b => a + 1 \in 0 .. MaxSaved - 1
          BY <5>1
        <5>3. QED BY <1>d, <4>1, <5>1, <5>2
      <4>4. [i[t] EXCEPT ![2] = i[t][2] + 1] \in Pos
        BY <1>d, <4>2, <4>3 DEF Pos, Tid
      <4>5. QED BY <4>1, <4>4 DEF P
    <3>3. QED BY <3>1, <3>2
  <2>3. scanned' \in [Tid -> SUBSET Node]
    <3>1. \A k \in 1 .. Len(proposed[i[t][1]]) : proposed[i[t][1]][k] \in Node
      BY <1>d, ElementOfSeq
    <3>2. i[t][2] + 1 <= Len(proposed[i[t][1]]) => i[t][2] + 1 \in 1 .. Len(proposed[i[t][1]])
      BY <1>d, LenProperties
    <3>3. QED BY <1>13, <3>1, <3>2 DEF collect_get
  <2>4. pc' = [pc EXCEPT ![t] = pc'[t]] /\ pc'[t] # "read" /\ pc[t] # "read"
    BY <1>13, <2>2 DEF collect_get, nextThread
  <2>5. Phase'
    BY <1>13, <2>2, <2>4 DEF collect_get
  <2>6. QED BY <1>13, <2>1, <2>2, <2>3, <2>5 DEF collect_get
<1>14. ASSUME sendFreeableRecordsToPool(t) PROVE Rest' /\ Flag' /\ Phase'
  <2>1. PICK n \in freeable[t] : /\ pool' = pool \union {n} /\ UNCHANGED cell
                                 /\ retired' = [retired EXCEPT ![t] = @ \ {n}]
                                 /\ freeable' = [freeable EXCEPT ![t] = @ \ {n}]
    BY <1>14 DEF sendFreeableRecordsToPool, poolAdd
  <2>2. IsFiniteSet(retired[t] \ {n})
    BY BagStep
  <2>3. n \in Node
    BY <2>1
  <2>4. /\ pool' \in SUBSET Node /\ freeable' \in [Tid -> SUBSET Node]
        /\ retired' \in [Tid -> SUBSET Node] /\ \A u \in Tid : IsFiniteSet(retired'[u])
    BY <2>1, <2>2, <2>3
  <2>5. Phase'
    BY <1>14 DEF sendFreeableRecordsToPool, P
  <2>6. QED BY <1>14, <2>1, <2>4, <2>5 DEF sendFreeableRecordsToPool
<1>15. ASSUME reclaim_end(t) PROVE Rest' /\ Flag' /\ Phase'
  <2>1. savedTS' \in [Tid -> [Tid -> 0 .. MaxTS]]
    BY <1>15 DEF reclaim_end, resetLoWmMetaData, Parameters
  <2>2. numRetiresSinceLoWatermark' \in [Tid -> 0 .. Capacity + 1]
    BY <1>15 DEF reclaim_end, resetLoWmMetaData, Parameters
  <2>3. Phase'
    BY <1>15 DEF reclaim_end, P
  <2>4. Flag'
    BY <1>15 DEF reclaim_end, resetLoWmMetaData
  <2>5. QED BY <1>15, <2>1, <2>2, <2>3, <2>4 DEF reclaim_end, resetLoWmMetaData
<1>16. QED
  BY <1>b, <1>1, <1>2, <1>3, <1>4, <1>5, <1>6, <1>7, <1>8, <1>9, <1>10, <1>12, <1>13, <1>14, <1>15
  DEF step, client, retire

(* Every step keeps the locals alive where they are used. *)
LEMMA LocalsStep ==
  ASSUME Parameters, Types, Locals, Books, NEW t \in Tid, step(t)
  PROVE  Locals'
<1> DEFINE G == LocalsOf(t)'
<1>0. Shapes /\ LocalsOf(t) /\ i[t][1] \in Tid /\ i[t][2] \in 0 .. MaxSaved - 1
  BY ShapesHold, At DEF Locals
<1>a. \A a : [i[t] EXCEPT ![1] = a] = <<a, i[t][2]>> /\ [i[t] EXCEPT ![2] = a] = <<i[t][1], a>>
  BY At
<1>b. BookOf(t)
  BY DEF Books
<1>1. LocalsOf(t)'
  <2> USE <1>0 DEF Shapes, LocalsOf, goto, loWm, emptying, Retire, Round, Emptying
  <2>1. ASSUME startOp(t) \/ upgradeToWritePhase(t) \/ endOp(t) PROVE G
    BY <2>1 DEF startOp, upgradeToWritePhase, endOp
  <2>2. ASSUME NEW n \in Node, saveForWritePhase(t, n) PROVE G
    BY <2>2 DEF saveForWritePhase
  <2>3. ASSUME NEW c \in Cell, insert(t, c) PROVE G
    BY <2>3 DEF insert
  <2>4. ASSUME NEW c \in Cell, erase(t, c) PROVE G
    <3>1. cell[c] # NULL
      BY <2>4, ElementOfSeq, LinkedRecordsAssumption DEF erase, saved, ToSet
    <3>2. QED BY <2>4, <3>1 DEF erase
  <2>5. ASSUME handler(t) PROVE G
    <3>1. CASE restartable[t]
      <4>1. pc[t] = "read" /\ pc'[t] = "idle"
        BY <2>5, <3>1 DEF handler, Types, TypeOK
      <4>2. QED BY <2>5, <4>1 DEF handler
    <3>2. CASE ~restartable[t]
      BY <2>5, <3>2 DEF handler
    <3>3. QED BY <3>1, <3>2
  <2>6. ASSUME retire_check(t) PROVE G
    BY <2>6 DEF retire_check
  <2>7. ASSUME retire_add(t) PROVE G
    BY <2>7 DEF retire_add
  <2>8. ASSUME hi_announce(t) \/ hi_announceEnd(t) PROVE G
    BY <2>8 DEF hi_announce, hi_announceEnd
  <2>9. ASSUME hi_signal(t) PROVE G
    <3>1. i'[t] = <<0, 0>> \/ i'[t] = <<i[t][1] + 1, i[t][2]>>
      BY <2>9, <1>a DEF hi_signal
    <3>2. i'[t][2] = 0
      <4>1. i[t][2] = 0
        BY <2>9 DEF hi_signal
      <4>2. QED BY <3>1, <4>1
    <3>3. QED BY <2>9, <3>2 DEF hi_signal
  <2>10. ASSUME lo_save(t) PROVE G
    <3>1. i'[t] = <<0, 0>> \/ i'[t] = <<i[t][1] + 1, i[t][2]>>
      BY <2>10, <1>a DEF lo_save
    <3>2. i'[t][2] = 0
      <4>1. i[t][2] = 0
        BY <2>10 DEF lo_save
      <4>2. QED BY <3>1, <4>1
    <3>3. QED BY <2>10, <3>2 DEF lo_save
  <2>11. ASSUME lo_check(t) PROVE G
    <3>1. i'[t] = <<0, 0>> \/ i'[t] = <<i[t][1] + 1, i[t][2]>>
      BY <2>11, <1>a DEF lo_check
    <3>2. i'[t][2] = 0
      <4>1. i[t][2] = 0
        BY <2>11 DEF lo_check
      <4>2. QED BY <3>1, <4>1
    <3>3. CASE signalledSince(t, i[t][1])
      <4>1. ~firstLoEntryFlag[t] /\ bookmark[t] \subseteq retired[t]
        BY <2>11, <1>b DEF BookOf, lo_check
      <4>2. QED BY <2>11, <3>2, <3>3, <4>1 DEF lo_check, reclaimableLow
    <3>4. CASE ~signalledSince(t, i[t][1])
      BY <2>11, <3>2, <3>4 DEF lo_check
    <3>5. QED BY <3>3, <3>4
  <2>12. ASSUME collect_size(t) PROVE G
    BY <2>12 DEF collect_size, nextThread
  <2>13. ASSUME collect_get(t) PROVE G
    <3>1. CASE i[t][2] + 1 < sz[t]
      <4>1. i'[t] = <<i[t][1], i[t][2] + 1>> /\ pc'[t] = "collect" /\ sz'[t] = sz[t]
        BY <2>13, <3>1, <1>a DEF collect_get
      <4>2. i'[t][2] < sz'[t]
        BY <3>1, <4>1
      <4>3. /\ obj'[t] = obj[t] /\ freeable'[t] = freeable[t] /\ retired'[t] = retired[t]
            /\ pc[t] = "collect"
        BY <2>13 DEF collect_get
      <4>4. QED BY <4>1, <4>2, <4>3
    <3>2. CASE ~(i[t][2] + 1 < sz[t])
      <4>1. nextThread(t) /\ sz'[t] = 0 /\ pc[t] = "collect"
        BY <2>13, <3>2 DEF collect_get
      <4>2. pc'[t] \in {"size", "sweep"} /\ i'[t][2] = 0 /\ (pc'[t] = "sweep" => i'[t] = <<0, 0>>)
        BY <4>1 DEF nextThread
      <4>3. obj'[t] = obj[t] /\ freeable'[t] = freeable[t] /\ retired'[t] = retired[t]
        BY <2>13 DEF collect_get
      <4>4. QED BY <4>1, <4>2, <4>3
    <3>3. QED BY <3>1, <3>2
  <2>14. ASSUME sendFreeableRecordsToPool(t) PROVE G
    BY <2>14 DEF sendFreeableRecordsToPool
  <2>15. ASSUME reclaim_end(t) PROVE G
    BY <2>15 DEF reclaim_end, resetLoWmMetaData
  <2>16. QED BY <2>1, <2>2, <2>3, <2>4, <2>5, <2>6, <2>7, <2>8, <2>9, <2>10, <2>11, <2>12,
                <2>13, <2>14, <2>15 DEF step, client, retire
<1>2. ASSUME NEW u \in Tid, u # t PROVE LocalsOf(u)'
  BY <1>2, OthersKeep DEF Own, Locals, LocalsOf
<1>3. QED BY <1>1, <1>2 DEF Locals

(* Every step keeps the time stamps odd in rounds, and in their range. *)
LEMMA StampsStep ==
  ASSUME Parameters, Types, Types', Locals, Stamps, NEW t \in Tid, step(t)
  PROVE  Stamps'
<1> DEFINE G == /\ StampOf(t)'
                /\ announcedTS[t] <= announcedTS'[t]
                /\ \A u \in Tid : savedTS'[t][u] \in {0, savedTS[t][u], announcedTS[u]}
<1>0. Shapes /\ StampOf(t) /\ announcedTS[t] \in 0 .. MaxTS /\ i[t][1] \in Tid /\ MaxTS \in Nat
  BY ShapesHold, At DEF Stamps, Shapes, Parameters
<1>a. \A a \in Nat : (a % 2 = 0 => (a + 1) % 2 = 1) /\ (a % 2 = 1 => (a + 1) % 2 = 0)
  OBVIOUS
<1>1. G
  <2> USE <1>0 DEF Shapes, StampOf, goto, loWm, emptying, Round
  <2>1. ASSUME startOp(t) \/ upgradeToWritePhase(t) \/ endOp(t) PROVE G
    <3>1. announcedTS' = announcedTS /\ savedTS' = savedTS
      BY <2>1 DEF startOp, upgradeToWritePhase, endOp
    <3>2. pc[t] \in {"idle", "read", "write"} /\ pc'[t] \in {"idle", "read", "write"}
      BY <2>1 DEF startOp, upgradeToWritePhase, endOp
    <3>3. QED BY <3>1, <3>2
  <2>2. ASSUME NEW n \in Node, saveForWritePhase(t, n) PROVE G
    BY <2>2 DEF saveForWritePhase
  <2>3. ASSUME NEW c \in Cell, insert(t, c) \/ erase(t, c) PROVE G
    BY <2>3 DEF insert, erase
  <2>5. ASSUME handler(t) PROVE G
    <3>1. CASE restartable[t]
      <4>1. pc[t] = "read" /\ pc'[t] = "idle"
        BY <2>5, <3>1 DEF handler, Types, TypeOK
      <4>2. QED BY <2>5, <4>1 DEF handler
    <3>2. CASE ~restartable[t]
      BY <2>5, <3>2 DEF handler
    <3>3. QED BY <3>1, <3>2
  <2>6. ASSUME retire_check(t) \/ retire_add(t) PROVE G
    <3>1. announcedTS' = announcedTS /\ savedTS' = savedTS
      BY <2>6 DEF retire_check, retire_add
    <3>2. /\ pc[t] \in {"retire", "add"}
          /\ pc[t] = "add" => pc'[t] = "write"
          /\ pc[t] = "retire" => pc'[t] \in {"announce", "save", "check", "add"}
      BY <2>6 DEF retire_check, retire_add
    <3>3. QED BY <3>1, <3>2
  <2>8. ASSUME hi_announce(t) PROVE G
    <3>1. /\ pc[t] = "announce" /\ pc'[t] = "signal"
          /\ announcedTS'[t] = announcedTS[t] + 1 /\ savedTS' = savedTS
      BY <2>8 DEF hi_announce
    <3>2. announcedTS[t] \in Nat /\ announcedTS[t] % 2 = 0 /\ announcedTS[t] + 2 <= MaxTS
      BY <3>1
    <3>3. announcedTS'[t] % 2 = 1 /\ announcedTS'[t] + 1 <= MaxTS
      BY <3>1, <3>2, <1>a
    <3>4. QED BY <3>1, <3>2, <3>3
  <2>8a. ASSUME hi_announceEnd(t) PROVE G
    <3>1. /\ pc[t] = "signalled" /\ pc'[t] = "size"
          /\ announcedTS'[t] = announcedTS[t] + 1 /\ savedTS' = savedTS
      BY <2>8a DEF hi_announceEnd
    <3>2. announcedTS[t] \in Nat /\ announcedTS[t] % 2 = 1
      BY <3>1
    <3>3. announcedTS'[t] % 2 = 0
      BY <3>1, <3>2, <1>a
    <3>4. QED BY <3>1, <3>2, <3>3
  <2>9. ASSUME hi_signal(t) PROVE G
    BY <2>9 DEF hi_signal
  <2>10. ASSUME lo_save(t) PROVE G
    BY <2>10 DEF lo_save
  <2>11. ASSUME lo_check(t) PROVE G
    <3>1. announcedTS' = announcedTS /\ savedTS' = savedTS
      BY <2>11 DEF lo_check
    <3>2. pc[t] = "check" /\ pc'[t] \in {"check", "size", "add"}
      BY <2>11 DEF lo_check
    <3>3. QED BY <3>1, <3>2
  <2>12. ASSUME collect_size(t) PROVE G
    BY <2>12 DEF collect_size, nextThread
  <2>13. ASSUME collect_get(t) PROVE G
    <3>1. announcedTS' = announcedTS /\ savedTS' = savedTS
      BY <2>13 DEF collect_get
    <3>2. pc[t] = "collect" /\ pc'[t] \in {"collect", "size", "sweep"}
      BY <2>13 DEF collect_get, nextThread
    <3>3. QED BY <3>1, <3>2
  <2>14. ASSUME sendFreeableRecordsToPool(t) PROVE G
    BY <2>14 DEF sendFreeableRecordsToPool
  <2>15. ASSUME reclaim_end(t) PROVE G
    BY <2>15 DEF reclaim_end, resetLoWmMetaData
  <2>16. QED BY <2>1, <2>2, <2>3, <2>5, <2>6, <2>8, <2>8a, <2>9, <2>10, <2>11, <2>12,
                <2>13, <2>14, <2>15 DEF step, client, retire
<1>2. ASSUME NEW u \in Tid, u # t
      PROVE  StampOf(u)' /\ savedTS'[u] = savedTS[u] /\ announcedTS'[u] = announcedTS[u]
  BY <1>2, OthersKeep DEF Own, Stamps, StampOf
<1>3. Shapes'
  BY ShapesHold, PTL
<1>4. \A u \in Tid : savedTS'[u][u] % 2 = 0
  <2>1. savedTS[t][t] % 2 = 0 /\ 0 % 2 = 0
    BY DEF Stamps
  <2>2. \/ savedTS'[t][t] \in {0, savedTS[t][t]}
        \/ savedTS'[t][t] = announcedTS[t] /\ announcedTS[t] % 2 = 0
    <3>1. savedTS' = savedTS \/ pc[t] \in {"save", "sweep"}
      BY DEF step, client, retire, handler, startOp, upgradeToWritePhase, endOp, saveForWritePhase,
             insert, erase, retire_check, retire_add, hi_announce, hi_announceEnd, hi_signal, lo_save,
             lo_check, collect_size, collect_get, sendFreeableRecordsToPool, reclaim_end, loWm, goto
    <3>2. pc[t] \in {"save", "sweep"} => announcedTS[t] % 2 = 0
      BY <1>0 DEF StampOf, Round
    <3>3. QED BY <1>1, <3>1, <3>2
  <2>3. \A u \in Tid \ {t} : savedTS'[u][u] % 2 = 0
    BY <1>2 DEF Stamps
  <2>4. QED BY <2>1, <2>2, <2>3
<1>5. \A u \in Tid : announcedTS[u] <= announcedTS'[u] /\ announcedTS[u] \in Nat /\ announcedTS'[u] \in Nat
  <2> TAKE u \in Tid
  <2>1. announcedTS[u] \in 0 .. MaxTS /\ announcedTS'[u] \in 0 .. MaxTS
    BY <1>0, <1>3 DEF Shapes
  <2>2. announcedTS[u] <= announcedTS'[u]
    BY <1>1, <1>2, <2>1
  <2>3. QED BY <2>1, <2>2
<1>6. ASSUME NEW u \in Tid, NEW w \in Tid PROVE savedTS'[u][w] <= announcedTS'[w]
  <2>1. savedTS[u][w] <= announcedTS[w] /\ savedTS[u][w] \in Nat
    BY <1>0 DEF Stamps, Shapes
  <2>2. savedTS'[u][w] \in {0, savedTS[u][w], announcedTS[w]}
    BY <1>1, <1>2
  <2>3. QED BY <1>5, <2>1, <2>2
<1>7. QED BY <1>1, <1>2, <1>4, <1>6 DEF Stamps

(* Every step keeps account of the bags. *)
LEMMA BooksStep ==
  ASSUME Parameters, Types, Locals, Books, OnePlace, NEW t \in Tid, step(t)
  PROVE  Books'
<1> DEFINE G == BookOf(t)'
           Same == /\ UNCHANGED <<retired, firstLoEntryFlag, bookmark, numRetiresSinceLoWatermark>>
                   /\ pc[t] # "sweep" /\ pc'[t] \notin {"save", "check", "add"}
<1>0. Shapes /\ BookOf(t) /\ i[t][1] \in Tid
  BY ShapesHold, At DEF Books
<1>a. \A a : [i[t] EXCEPT ![1] = a] = <<a, i[t][2]>>
  BY At
<1>b. /\ IsFiniteSet(retired[t]) /\ Cardinality(retired[t]) \in Nat
      /\ ~firstLoEntryFlag[t] /\ pc[t] # "sweep" => Cardinality(bookmark[t]) \in Nat
  <2>1. IsFiniteSet(retired[t])
    BY DEF Types
  <2>2. bookmark[t] \subseteq retired[t] => Cardinality(bookmark[t]) \in Nat
    BY <2>1, FS_Subset, FS_CardinalityType
  <2>3. QED BY <2>1, <2>2, <1>0, FS_CardinalityType DEF BookOf
<1>c. Capacity \in Nat /\ numRetiresSinceLoWatermark[t] \in Nat
  BY <1>0 DEF Parameters, Shapes
<1>d. Same => G
  BY <1>0 DEF BookOf
<1>e. \A a, b, d, k \in Nat : a = b + d /\ a <= k => a + 1 = b + (d + 1) /\ a + 1 <= k + 1
  OBVIOUS
<1>1. G
  <2> USE <1>0 DEF Shapes, goto, loWm, emptying
  <2>1. ASSUME startOp(t) \/ upgradeToWritePhase(t) \/ endOp(t) PROVE G
    <3>1. Same
      BY <2>1 DEF startOp, upgradeToWritePhase, endOp
    <3>2. QED BY <3>1, <1>d
  <2>2. ASSUME NEW n \in Node, saveForWritePhase(t, n) PROVE G
    BY <2>2, <1>d DEF saveForWritePhase
  <2>3. ASSUME NEW c \in Cell, insert(t, c) \/ erase(t, c) PROVE G
    BY <2>3, <1>d DEF insert, erase
  <2>4. ASSUME handler(t) PROVE G
    <3>1. CASE restartable[t]
      <4>1. pc[t] = "read" /\ pc'[t] = "idle"
        BY <2>4, <3>1 DEF handler, Types, TypeOK
      <4>2. QED BY <2>4, <4>1, <1>d DEF handler
    <3>2. CASE ~restartable[t]
      BY <2>4, <3>2 DEF handler, BookOf
    <3>3. QED BY <3>1, <3>2
  <2>5. ASSUME retire_check(t) PROVE G
    <3>1. UNCHANGED <<retired, firstLoEntryFlag, bookmark, numRetiresSinceLoWatermark, i>>
      BY <2>5 DEF retire_check
    <3>2. pc[t] = "retire" /\ pc'[t] \in {"announce", "add", "save", "check"}
      BY <2>5 DEF retire_check
    <3>3. /\ pc'[t] \in {"add", "save", "check"} => Cardinality(retired[t]) <= Capacity
          /\ pc'[t] \in {"save", "check"} =>
                /\ Cardinality(retired[t]) > Capacity \div 2
                /\ pc'[t] = "save" <=> firstLoEntryFlag[t]
      BY <2>5, <1>b, <1>c DEF retire_check, isOutOfPatience, isPastLoWatermark
    <3>4. pc'[t] = "save" => retired[t] # {}
      <4>1. Capacity \div 2 \in Nat
        BY <1>c
      <4>2. pc'[t] = "save" => Cardinality(retired[t]) # 0
        BY <4>1, <3>3, <1>b
      <4>3. QED BY <4>2, FS_EmptySet
    <3>5. i[t][1] = 0
      <4>1. i[t] = <<0, 0>>
        BY <3>2 DEF Locals, LocalsOf
      <4>2. QED BY <4>1
    <3>6. QED BY <3>1, <3>2, <3>3, <3>4, <3>5 DEF BookOf
  <2>6. ASSUME retire_add(t) PROVE G
    <3>1. /\ pc[t] = "add" /\ pc'[t] = "write" /\ UNCHANGED <<firstLoEntryFlag, bookmark>>
          /\ retired'[t] = retired[t] \union {obj[t]}
          /\ numRetiresSinceLoWatermark'[t] =
                IF firstLoEntryFlag[t] THEN numRetiresSinceLoWatermark[t]
                ELSE numRetiresSinceLoWatermark[t] + 1
      BY <2>6 DEF retire_add
    <3>2. obj[t] \notin retired[t]
      BY <3>1 DEF OnePlace, RetiringDisjoint, Locals, LocalsOf, Retire
    <3>3. Cardinality(retired'[t]) = Cardinality(retired[t]) + 1
      BY <3>1, <3>2, <1>b, BagStep
    <3>4. CASE firstLoEntryFlag[t]
      BY <3>1, <3>4 DEF BookOf
    <3>5. CASE ~firstLoEntryFlag[t]
      <4>1. /\ Cardinality(retired[t]) = Cardinality(bookmark[t]) + numRetiresSinceLoWatermark[t]
            /\ Cardinality(retired[t]) <= Capacity /\ bookmark[t] \subseteq retired[t]
            /\ Cardinality(bookmark[t]) \in Nat
        BY <3>1, <3>5, <1>b DEF BookOf
      <4>2. /\ Cardinality(retired[t]) + 1 = Cardinality(bookmark[t]) + (numRetiresSinceLoWatermark[t] + 1)
            /\ Cardinality(retired[t]) + 1 <= Capacity + 1
        BY <4>1, <1>b, <1>c, <1>e
      <4>3. numRetiresSinceLoWatermark'[t] = numRetiresSinceLoWatermark[t] + 1
        BY <3>1, <3>5
      <4>4. QED BY <3>1, <3>3, <3>5, <4>1, <4>2, <4>3 DEF BookOf
    <3>6. QED BY <3>4, <3>5
  <2>7. ASSUME hi_announce(t) \/ hi_announceEnd(t) \/ hi_signal(t) PROVE G
    BY <2>7, <1>d DEF hi_announce, hi_announceEnd, hi_signal
  <2>8. ASSUME lo_save(t) PROVE G
    <3>1. /\ pc[t] = "save" /\ UNCHANGED <<retired, numRetiresSinceLoWatermark>>
          /\ ~firstLoEntryFlag'[t] /\ bookmark'[t] = retired[t]
      BY <2>8 DEF lo_save
    <3>2. \/ pc'[t] = "save" /\ i'[t] = <<i[t][1] + 1, i[t][2]>>
          \/ pc'[t] = "check"
      BY <2>8, <1>a DEF lo_save
    <3>3. i[t][1] \in Nat
      BY DEF Tid
    <3>4. pc'[t] = "save" => i'[t][1] # 0
      <4>1. i[t][1] + 1 # 0 /\ \A a, b : <<a, b>>[1] = a
        BY <3>3
      <4>2. QED BY <3>2, <4>1
    <3>5. numRetiresSinceLoWatermark[t] = 0
      BY <3>1, <1>b, <1>c DEF BookOf
    <3>6. retired[t] # {} /\ Cardinality(retired[t]) <= Capacity
      BY <3>1 DEF BookOf
    <3>7. QED BY <3>1, <3>2, <3>4, <3>5, <3>6, <1>b, <1>c DEF BookOf
  <2>9. ASSUME lo_check(t) PROVE G
    <3>1. pc[t] = "check" /\ pc'[t] \in {"check", "size", "add"}
          /\ UNCHANGED <<retired, firstLoEntryFlag, bookmark, numRetiresSinceLoWatermark>>
      BY <2>9 DEF lo_check
    <3>2. QED BY <3>1 DEF BookOf
  <2>10. ASSUME collect_size(t) \/ collect_get(t) PROVE G
    <3>1. /\ pc[t] \in {"size", "collect"} /\ pc'[t] \in {"size", "collect", "sweep"}
          /\ UNCHANGED <<retired, firstLoEntryFlag, bookmark, numRetiresSinceLoWatermark>>
      BY <2>10 DEF collect_size, collect_get, nextThread
    <3>2. QED BY <3>1, <1>d
  <2>11. ASSUME sendFreeableRecordsToPool(t) PROVE G
    <3>1. /\ pc'[t] = "sweep"
          /\ UNCHANGED <<firstLoEntryFlag, bookmark, numRetiresSinceLoWatermark>>
      BY <2>11 DEF sendFreeableRecordsToPool
    <3>2. QED BY <3>1 DEF BookOf
  <2>12. ASSUME reclaim_end(t) PROVE G
    BY <2>12 DEF reclaim_end, resetLoWmMetaData, BookOf
  <2>13. QED BY <2>1, <2>2, <2>3, <2>4, <2>5, <2>6, <2>7, <2>8, <2>9, <2>10, <2>11, <2>12
             DEF step, client, retire
<1>2. ASSUME NEW u \in Tid, u # t PROVE BookOf(u)'
  BY <1>2, OthersKeep DEF Own, Books, BookOf
<1>3. QED BY <1>1, <1>2 DEF Books

(* A record stays in one place: it is linked, handed to retire, put into   *)
(* a bag and freed, each by the thread that has it.                        *)
LEMMA OnePlaceStep ==
  ASSUME Types, Locals, OnePlace, NEW t \in Tid, step(t)
  PROVE  OnePlace'
<1>0. Shapes /\ cell \in [Cell -> Node \union {NULL}]
  BY ShapesHold DEF Types, TypeOK, RecordsTypeOK
<1> USE <1>0 DEF Shapes, goto, loWm, emptying, records
<1> DEFINE Same == UNCHANGED <<cell, pool, retired, obj>>
<1>1. Same => OnePlace'
  BY DEF OnePlace, LinksDisjoint, RetiringDisjoint, RetiredDisjoint
<1>2. CASE startOp(t) \/ upgradeToWritePhase(t) \/ endOp(t) \/ handler(t)
  BY <1>1, <1>2 DEF startOp, upgradeToWritePhase, endOp, handler
<1>3. CASE \E n \in Node : saveForWritePhase(t, n)
  BY <1>1, <1>3 DEF saveForWritePhase
<1>4. CASE retire_check(t) \/ hi_announce(t) \/ hi_signal(t) \/ hi_announceEnd(t)
  BY <1>1, <1>4 DEF retire_check, hi_announce, hi_signal, hi_announceEnd
<1>5. CASE lo_save(t) \/ lo_check(t) \/ collect_size(t) \/ collect_get(t)
  BY <1>1, <1>5 DEF lo_save, lo_check, collect_size, collect_get
<1>6. CASE reclaim_end(t)
  BY <1>1, <1>6 DEF reclaim_end
<1>7. ASSUME NEW c \in Cell, insert(t, c) PROVE OnePlace'
  <2>1. PICK n \in pool : cell' = [cell EXCEPT ![c] = n] /\ pool' = pool \ {n}
    BY <1>7 DEF insert, link
  <2>2. cell[c] = NULL /\ UNCHANGED <<retired, obj>>
    BY <1>7 DEF insert, link
  <2>3. LinksDisjoint'
    BY <2>1, <2>2 DEF OnePlace, LinksDisjoint
  <2>4. RetiringDisjoint'
    BY <2>1, <2>2 DEF OnePlace, RetiringDisjoint
  <2>5. RetiredDisjoint'
    BY <2>1, <2>2 DEF OnePlace, RetiredDisjoint
  <2>6. QED BY <2>3, <2>4, <2>5 DEF OnePlace
<1>8. ASSUME NEW c \in Cell, erase(t, c) PROVE OnePlace'
  <2>1. /\ cell' = [cell EXCEPT ![c] = NULL] /\ obj' = [obj EXCEPT ![t] = cell[c]]
        /\ UNCHANGED <<pool, retired>> /\ pc[t] = "write"
    BY <1>8 DEF erase, unlink
  <2>2. cell[c] \in Node /\ cell[c] # NULL
    BY <1>8, ElementOfSeq, LinkedRecordsAssumption DEF erase, saved, ToSet
  <2>3. LinksDisjoint'
    BY <2>1 DEF OnePlace, LinksDisjoint
  <2>4. ASSUME NEW u \in Tid, obj'[u] # NULL
        PROVE  /\ obj'[u] \notin pool'
               /\ \A d \in Cell : cell'[d] # obj'[u]
               /\ \A w \in Tid : obj'[u] \notin retired'[w] /\ (obj'[w] = obj'[u] => w = u)
    <3>1. CASE u = t
      <4>1. obj'[u] = cell[c] /\ cell[c] \notin pool /\ \A d \in Cell : cell'[d] # cell[c]
        BY <2>1, <2>2, <3>1 DEF OnePlace, LinksDisjoint
      <4>2. \A w \in Tid : cell[c] \notin retired[w] /\ obj[w] # cell[c]
        <5> TAKE w \in Tid
        <5>1. cell[c] \notin retired[w]
          BY DEF OnePlace, RetiredDisjoint
        <5>2. obj[w] # cell[c]
          BY <2>2 DEF OnePlace, RetiringDisjoint
        <5>3. QED BY <5>1, <5>2
      <4>3. QED BY <2>1, <3>1, <4>1, <4>2
    <3>2. CASE u # t
      BY <2>1, <2>2, <2>4, <3>2 DEF OnePlace, RetiringDisjoint
    <3>3. QED BY <3>1, <3>2
  <2>5. RetiredDisjoint'
    <3>1. \A d \in Cell : cell'[d] = NULL \/ cell'[d] = cell[d]
      BY <2>1
    <3>2. \A u \in Tid : \A n \in retired[u] : n # NULL
      BY LinkedRecordsAssumption
    <3>3. QED BY <2>1, <3>1, <3>2 DEF OnePlace, RetiredDisjoint
  <2>6. QED BY <2>3, <2>4, <2>5 DEF OnePlace, RetiringDisjoint
<1>9. CASE retire_add(t)
  <2>1. /\ retired' = [retired EXCEPT ![t] = @ \union {obj[t]}] /\ obj' = [obj EXCEPT ![t] = NULL]
        /\ UNCHANGED <<cell, pool>> /\ pc[t] = "add"
    BY <1>9 DEF retire_add
  <2>2. obj[t] # NULL
    BY <2>1 DEF Locals, LocalsOf, Retire
  <2>3. LinksDisjoint'
    BY <2>1 DEF OnePlace, LinksDisjoint
  <2>4. RetiringDisjoint'
    <3>1. \A u \in Tid : obj'[u] # NULL => u # t /\ obj'[u] = obj[u]
      BY <2>1
    <3>2. \A u, w \in Tid : obj[u] # NULL /\ u # t => obj[u] \notin retired'[w]
      BY <2>1 DEF OnePlace, RetiringDisjoint
    <3>3. QED BY <2>1, <3>1, <3>2 DEF OnePlace, RetiringDisjoint
  <2>5. RetiredDisjoint'
    <3>1. ASSUME NEW u \in Tid, NEW n \in retired'[u]
          PROVE  n \in retired[u] \/ (u = t /\ n = obj[t])
      BY <2>1
    <3>2. /\ obj[t] \notin pool
          /\ \A c \in Cell : cell[c] # obj[t]
          /\ \A u \in Tid : obj[t] \notin retired[u]
      BY <2>2 DEF OnePlace, RetiringDisjoint
    <3>3. ASSUME NEW u \in Tid, NEW n \in retired'[u]
          PROVE  n \notin pool /\ (\A c \in Cell : cell[c] # n) /\ \A w \in Tid : n \in retired'[w] => w = u
      <4>1. CASE n \in retired[u]
        <5>1. n \notin pool /\ (\A c \in Cell : cell[c] # n) /\ \A w \in Tid : n \in retired[w] => w = u
          BY <4>1 DEF OnePlace, RetiredDisjoint
        <5>2. n # obj[t]
          BY <3>2, <4>1
        <5>3. QED BY <3>1, <5>1, <5>2
      <4>2. CASE n \notin retired[u]
        <5>1. u = t /\ n = obj[t]
          BY <3>1, <4>2
        <5>2. \A w \in Tid : n \in retired'[w] => w = u
          BY <3>1, <3>2, <5>1
        <5>3. QED BY <3>2, <5>1, <5>2
      <4>3. QED BY <4>1, <4>2
    <3>4. QED BY <2>1, <3>3 DEF RetiredDisjoint
  <2>6. QED BY <2>3, <2>4, <2>5 DEF OnePlace
<1>10. CASE sendFreeableRecordsToPool(t)
  <2>1. PICK n \in freeable[t] : pool' = pool \union {n} /\ retired' = [retired EXCEPT ![t] = @ \ {n}]
    BY <1>10 DEF sendFreeableRecordsToPool, poolAdd
  <2>2. UNCHANGED <<cell, obj>> /\ n \in retired[t]
    BY <1>10, <2>1 DEF sendFreeableRecordsToPool, poolAdd, Locals, LocalsOf
  <2>3. LinksDisjoint'
    BY <2>1, <2>2 DEF OnePlace, LinksDisjoint, RetiredDisjoint
  <2>4. RetiringDisjoint'
    BY <2>1, <2>2 DEF OnePlace, RetiringDisjoint
  <2>5. RetiredDisjoint'
    BY <2>1, <2>2 DEF OnePlace, RetiredDisjoint
  <2>6. QED BY <2>3, <2>4, <2>5 DEF OnePlace
<1>11. QED BY <1>2, <1>3, <1>4, <1>5, <1>6, <1>7, <1>8, <1>9, <1>10 DEF step, client, retire

-------------------------------------------------------------------------------
(* Thread t takes record n out of the structure.                           *)
Erased(t, n) == \E c \in Cell : erase(t, c) /\ cell[c] = n

(* Thread u has unlinked n and is to free it.                              *)
Owns(u, n) == n \in retired[u] \/ obj[u] = n

(* Nobody comes upon a record but when it is taken out; a record that has  *)
(* an owner is not taken out again.                                        *)
LEMMA WaitingStep ==
  ASSUME Types, Uses, NEW t \in Tid, step(t), NEW n \in Node
  PROVE  Erased(t, n) \/ (waiting'[n] \subseteq waiting[n] /\ \A v \in Tid : Due(v, n)' => Due(v, n))
<1>0. Shapes /\ waiting \in [Node -> SUBSET Tid]
  BY ShapesHold DEF Types, TypeOK
<1> USE <1>0 DEF Shapes, goto, loWm, emptying, records
<1> DEFINE G == waiting'[n] \subseteq waiting[n] /\ \A v \in Tid : Due(v, n)' => Due(v, n)
<1>1. \A S : dropAllBut(t, S) => waiting'[n] \subseteq waiting[n]
  BY DEF dropAllBut
<1>2. ASSUME waiting'[n] \subseteq waiting[n], pc'[t] = "read" => pc[t] = "read" \/ t \notin waiting'[n]
      PROVE  G
  <2>1. \A v \in Tid \ {t} : pc'[v] = pc[v]
    BY OthersKeep DEF Own
  <2>2. QED BY <1>2, <2>1 DEF Due
<1>3. CASE startOp(t)
  <2>1. waiting' = waiting /\ pc[t] = "idle"
    BY <1>3 DEF startOp
  <2>2. QED BY <1>2, <2>1 DEF Uses
<1>4. CASE upgradeToWritePhase(t) \/ endOp(t)
  <2>1. waiting'[n] \subseteq waiting[n] /\ pc'[t] # "read"
    BY <1>1, <1>4 DEF upgradeToWritePhase, endOp
  <2>2. QED BY <1>2, <2>1
<1>5. CASE \E m \in Node : saveForWritePhase(t, m)
  BY <1>2, <1>5 DEF saveForWritePhase
<1>6. CASE \E c \in Cell : insert(t, c)
  BY <1>2, <1>6 DEF insert
<1>7. ASSUME NEW c \in Cell, erase(t, c) PROVE Erased(t, n) \/ G
  <2>1. n # cell[c] => waiting'[n] = waiting[n]
    BY <1>7 DEF erase
  <2>2. pc'[t] # "read"
    BY <1>7 DEF erase
  <2>3. QED BY <1>2, <1>7, <2>1, <2>2 DEF Erased
<1>8. CASE handler(t)
  <2>1. waiting'[n] \subseteq waiting[n] /\ (pc'[t] = "read" => pc[t] = "read")
    BY <1>1, <1>8 DEF handler
  <2>2. QED BY <1>2, <2>1
<1>9. CASE retire(t)
  <2>1. waiting' = waiting /\ pc'[t] # "read"
    BY <1>9 DEF retire, retire_check, retire_add, hi_announce, hi_announceEnd, hi_signal, lo_save,
             lo_check, collect_size, collect_get, nextThread, sendFreeableRecordsToPool, reclaim_end
  <2>2. QED BY <1>2, <2>1
<1>10. QED BY <1>3, <1>4, <1>5, <1>6, <1>7, <1>8, <1>9 DEF step, client

(* What a bag has after a step its thread was to free before it.           *)
LEMMA RetiredStep ==
  ASSUME Types, Types', OnePlace, Uses, NEW t \in Tid, step(t), NEW u \in Tid, NEW n \in retired'[u]
  PROVE  /\ n \in Node /\ Owns(u, n) /\ ~Erased(t, n)
         /\ waiting'[n] \subseteq waiting[n] /\ \A v \in Tid : Due(v, n)' => Due(v, n)
<1>0. Shapes /\ n \in Node
  BY ShapesHold DEF Types, TypeOK
<1>1. Owns(u, n)
  <2>1. CASE u # t
    BY <2>1, <1>0, OthersKeep DEF Own, Owns, Shapes
  <2>2. CASE u = t
    <3>1. retired'[t] \subseteq retired[t] \/ retired'[t] = retired[t] \union {obj[t]}
      <4>1. retire_add(t) \/ sendFreeableRecordsToPool(t) \/ retired' = retired
        BY DEF step, client, retire, handler, startOp, upgradeToWritePhase, endOp, saveForWritePhase,
               insert, erase, retire_check, hi_announce, hi_announceEnd, hi_signal, lo_save, lo_check,
               collect_size, collect_get, reclaim_end
      <4>2. CASE retire_add(t)
        BY <1>0, <4>2 DEF retire_add, Shapes
      <4>3. CASE sendFreeableRecordsToPool(t)
        <5>1. PICK m : retired' = [retired EXCEPT ![t] = @ \ {m}]
          BY <4>3 DEF sendFreeableRecordsToPool
        <5>2. QED BY <1>0, <5>1 DEF Shapes
      <4>4. QED BY <4>1, <4>2, <4>3
    <3>2. QED BY <2>2, <3>1, <1>0 DEF Owns, Shapes
  <2>3. QED BY <2>1, <2>2
<1>2. ~Erased(t, n)
  BY <1>0, <1>1, LinkedRecordsAssumption DEF Erased, Owns, OnePlace, RetiredDisjoint, RetiringDisjoint
<1>3. QED BY <1>0, <1>1, <1>2, WaitingStep

(* Who may have a pointer keeps its list until it has none any more.       *)
LEMMA UsesStep ==
  ASSUME Types, Types', Uses, NEW t \in Tid, step(t)
  PROVE  Uses'
<1> SUFFICES ASSUME NEW n \in Node, NEW u \in waiting'[n]
             PROVE  pc'[u] # "idle" /\ (pc'[u] = "read" \/ n \in saved(u)')
  BY DEF Uses
<1>0. Shapes /\ waiting \in [Node -> SUBSET Tid] /\ u \in Tid
  BY ShapesHold DEF Types, TypeOK
<1>1. CASE Erased(t, n)
  <2>1. PICK c \in Cell : erase(t, c) /\ cell[c] = n
    BY <1>1 DEF Erased
  <2>2. restartable[u] \/ (pc[u] # "idle" /\ n \in saved(u))
    BY <2>1, <1>0 DEF erase
  <2>3. restartable[u] => pc[u] = "read"
    BY <1>0 DEF Types, TypeOK
  <2>4. pc[t] = "write" /\ pc' = [pc EXCEPT ![t] = "retire"] /\ proposed' = proposed
        /\ UNCHANGED restartable /\ n \in saved(t)
    BY <2>1 DEF erase, goto
  <2>5. saved(u)' = saved(u)
    BY <2>4 DEF saved
  <2>6. CASE u = t
    BY <1>0, <2>4, <2>5, <2>6 DEF Shapes
  <2>7. CASE u # t
    BY <1>0, <2>2, <2>3, <2>4, <2>5, <2>7 DEF Shapes
  <2>8. QED BY <2>6, <2>7
<1>2. CASE ~Erased(t, n)
  <2>1. u \in waiting[n] /\ pc[u] # "idle" /\ (pc[u] = "read" \/ n \in saved(u))
    BY <1>0, <1>2, WaitingStep DEF Uses
  <2>2. CASE u # t
    BY <2>1, <2>2, <1>0, OthersKeep DEF Own, saved
  <2>3. CASE u = t
    <3> USE <1>0, <2>1, <2>3 DEF Shapes, goto
    <3>1. CASE startOp(t)
      BY <3>1 DEF startOp
    <3>2. CASE upgradeToWritePhase(t)
      <4>1. n \in saved(t)
        BY <3>2 DEF upgradeToWritePhase, dropAllBut
      <4>2. QED BY <3>2, <4>1 DEF upgradeToWritePhase, saved
    <3>3. CASE endOp(t)
      BY <3>3 DEF endOp, dropAllBut
    <3>4. CASE \E m \in Node : saveForWritePhase(t, m)
      BY <3>4 DEF saveForWritePhase
    <3>5. CASE \E c \in Cell : insert(t, c)
      BY <3>5 DEF insert, saved
    <3>6. CASE \E c \in Cell : erase(t, c)
      BY <3>6 DEF erase, saved
    <3>7. CASE handler(t)
      <4>1. CASE restartable[t]
        BY <3>7, <4>1 DEF handler, dropAllBut
      <4>2. CASE ~restartable[t]
        BY <3>7, <4>2 DEF handler, saved
      <4>3. QED BY <4>1, <4>2
    <3>8. CASE retire(t)
      <4>1. proposed' = proposed /\ pc[t] # "read" /\ pc'[t] # "idle"
        BY <3>8 DEF retire, retire_check, retire_add, hi_announce, hi_announceEnd, hi_signal, lo_save,
             lo_check, collect_size, collect_get, nextThread, sendFreeableRecordsToPool, reclaim_end
      <4>2. QED BY <4>1 DEF saved
    <3>9. QED BY <3>1, <3>2, <3>3, <3>4, <3>5, <3>6, <3>7, <3>8 DEF step, client
  <2>4. QED BY <2>2, <2>3
<1>3. QED BY <1>1, <1>2

(* The thread that is to free a record has none in its own way.            *)
LEMMA OwnDoneStep ==
  ASSUME Types, Types', OnePlace, Uses, OwnDone, NEW t \in Tid, step(t)
  PROVE  OwnDone'
<1> SUFFICES ASSUME NEW u \in Tid, NEW n \in Node, Owns(u, n)', Due(u, n)'
             PROVE  FALSE
  BY DEF OwnDone, Owns
<1>0. Shapes
  BY ShapesHold
<1>1. CASE n \in retired'[u]
  BY <1>1, RetiredStep DEF OwnDone, Owns
<1>2. CASE obj'[u] = n
  <2>1. n # NULL
    BY LinkedRecordsAssumption
  <2>2. CASE Erased(t, n)
    <3>1. PICK c \in Cell : erase(t, c) /\ cell[c] = n
      BY <2>2 DEF Erased
    <3>2. obj' = [obj EXCEPT ![t] = n] /\ pc'[t] = "retire"
      BY <3>1, <1>0 DEF erase, goto, Shapes
    <3>3. u # t
      BY <3>2 DEF Due
    <3>4. obj[u] = n
      BY <1>0, <1>2, <3>2, <3>3 DEF Shapes
    <3>5. QED BY <2>1, <3>1, <3>4 DEF OnePlace, RetiringDisjoint
  <2>3. CASE ~Erased(t, n)
    <3>1. obj[u] = n
      <4>1. CASE u # t
        BY <1>2, <4>1, OthersKeep DEF Own
      <4>2. CASE u = t
        <5>1. obj'[t] = obj[t] \/ obj'[t] = NULL \/ \E c \in Cell : erase(t, c)
          BY <1>0 DEF Shapes, step, client, retire, handler, startOp, upgradeToWritePhase, endOp,
             saveForWritePhase, insert, retire_check, retire_add, hi_announce, hi_announceEnd,
             hi_signal, lo_save, lo_check, collect_size, collect_get, sendFreeableRecordsToPool, reclaim_end
        <5>2. \A c \in Cell : erase(t, c) => obj'[t] = cell[c]
          BY <1>0 DEF erase, Shapes
        <5>3. QED BY <1>2, <2>1, <2>3, <4>2, <5>1, <5>2 DEF Erased
      <4>3. QED BY <4>1, <4>2
    <3>2. Due(u, n)
      BY <2>3, WaitingStep
    <3>3. QED BY <3>1, <3>2 DEF OwnDone
  <2>4. QED BY <2>2, <2>3
<1>3. QED BY <1>1, <1>2 DEF Owns

(* A signal waits until its handler has run, and then the thread is in its *)
(* read phase no more.                                                     *)
LEMMA PendingStep ==
  ASSUME Types, NEW t \in Tid, step(t), NEW v \in Tid, pending[v], pc[v] = "read", pc'[v] = "read"
  PROVE  pending'[v]
<1>0. Shapes
  BY ShapesHold
<1>1. CASE v # t
  BY <1>1, OthersKeep
<1>2. CASE v = t
  <2>1. ~handler(t)
    BY <1>0, <1>2 DEF handler, Shapes, Types, TypeOK
  <2>2. ~retire(t)
    BY <1>2 DEF retire, retire_check, retire_add, hi_announce, hi_announceEnd, hi_signal, lo_save,
       lo_check, collect_size, collect_get, sendFreeableRecordsToPool, reclaim_end, goto
  <2>3. pending' = pending
    BY <2>1, <2>2 DEF step, client, startOp, upgradeToWritePhase, endOp, saveForWritePhase, insert, erase
  <2>4. QED BY <2>3
<1>3. QED BY <1>1, <1>2

(* The signal of a round has been sent when Signalled comes to hold.       *)
LEMMA SignalledStep ==
  ASSUME Types, Locals, NEW t \in Tid, step(t), NEW u \in Tid, NEW v \in Tid, Signalled(u, v)'
  PROVE  Signalled(u, v) \/ (u = t /\ pending'[v])
<1>0. Shapes /\ i[t][1] \in Tid
  BY ShapesHold, At
<1>1. CASE u # t
  BY <1>1, OthersKeep DEF Own, Signalled
<1>2. CASE u = t
  <2>1. pc'[t] \in {"signal", "signalled"}
    BY <1>2 DEF Signalled
  <2>2. hi_announce(t) \/ hi_signal(t) \/ (UNCHANGED <<pc, i>>)
    <3>1. ~client(t)
      BY <1>0, <2>1 DEF client, startOp, upgradeToWritePhase, endOp, saveForWritePhase, insert, erase,
                        goto, Shapes
    <3>2. CASE handler(t)
      BY <1>0, <2>1, <3>2 DEF handler, emptying, Shapes
    <3>3. ~retire_check(t)
      BY <1>0, <2>1 DEF retire_check, goto, Shapes
    <3>4. ~retire_add(t) /\ ~hi_announceEnd(t) /\ ~sendFreeableRecordsToPool(t) /\ ~reclaim_end(t)
      BY <1>0, <2>1 DEF retire_add, hi_announceEnd, sendFreeableRecordsToPool, reclaim_end, goto, Shapes
    <3>5. ~lo_save(t) /\ ~lo_check(t)
      <4>1. lo_save(t) => \E to \in {"save", "check"} : pc' = [pc EXCEPT ![t] = to]
        BY DEF lo_save, goto
      <4>2. lo_check(t) => \E to \in {"check", "size", "add"} : pc' = [pc EXCEPT ![t] = to]
        BY DEF lo_check, goto
      <4>3. QED BY <1>0, <2>1, <4>1, <4>2 DEF Shapes
    <3>6. ~collect_size(t) /\ ~collect_get(t)
      BY <1>0, <2>1 DEF collect_size, collect_get, nextThread, goto, Shapes
    <3>7. QED BY <3>1, <3>2, <3>3, <3>4, <3>5, <3>6 DEF step, retire
  <2>3. CASE hi_announce(t)
    <3>1. i' = i /\ pc[t] = "announce" /\ pc'[t] = "signal"
      BY <1>0, <2>3 DEF hi_announce, goto, emptying, Shapes
    <3>2. i[t] = <<0, 0>>
      BY <3>1 DEF Locals, LocalsOf
    <3>3. ~(v < 0)
      BY DEF Tid
    <3>4. QED BY <1>2, <3>1, <3>2, <3>3 DEF Signalled
  <2>4. CASE hi_signal(t)
    <3>1. pc[t] = "signal" /\ pending' = [pending EXCEPT ![i[t][1]] = @ \/ i[t][1] # t]
          /\ (pc'[t] = "signal" => i'[t] = <<i[t][1] + 1, i[t][2]>>)
          /\ (pc'[t] = "signalled" => i[t][1] + 1 >= NumProcess)
      <4>1. [i[t] EXCEPT ![1] = i[t][1] + 1] = <<i[t][1] + 1, i[t][2]>>
        BY At
      <4>2. pc[t] = "signal" /\ pending' = [pending EXCEPT ![i[t][1]] = @ \/ i[t][1] # t]
        BY <2>4 DEF hi_signal, goto
      <4>3. i[t][1] + 1 < NumProcess => i'[t] = <<i[t][1] + 1, i[t][2]>> /\ pc'[t] = "signal"
        BY <1>0, <2>4, <4>1 DEF hi_signal, goto, Shapes
      <4>4. ~(i[t][1] + 1 < NumProcess) => pc'[t] = "signalled"
        BY <1>0, <2>4 DEF hi_signal, goto, Shapes
      <4>5. ~(i[t][1] + 1 < NumProcess) => i[t][1] + 1 >= NumProcess
        BY <1>0, LinkedRecordsAssumption DEF Tid
      <4>6. QED BY <4>2, <4>3, <4>4, <4>5
    <3>2. v < i[t][1] \/ v = i[t][1]
      BY <1>0, <1>2, <3>1, LinkedRecordsAssumption DEF Signalled, Tid
    <3>3. CASE v < i[t][1]
      BY <1>2, <3>1, <3>3 DEF Signalled
    <3>4. CASE v = i[t][1]
      BY <1>0, <1>2, <3>1, <3>4 DEF Signalled, Shapes
    <3>5. QED BY <3>2, <3>3, <3>4
  <2>5. CASE UNCHANGED <<pc, i>>
    BY <1>2, <2>5 DEF Signalled
  <2>6. QED BY <2>2, <2>3, <2>4, <2>5
<1>3. QED BY <1>1, <1>2

(* Whom a signal has been sent and who is still due has it before him.     *)
LEMMA HiRoundStep ==
  ASSUME Types, Types', Locals, OnePlace, Uses, HiRound, NEW t \in Tid, step(t)
  PROVE  HiRound'
<1> SUFFICES ASSUME NEW u \in Tid, NEW v \in Tid, NEW n \in retired'[u], Signalled(u, v)', Due(v, n)'
             PROVE  pending'[v]
  BY DEF HiRound
<1>0. Shapes
  BY ShapesHold
<1>1. Owns(u, n) /\ Due(v, n)
  BY RetiredStep
<1>2. CASE ~Signalled(u, v)
  BY <1>2, SignalledStep
<1>3. CASE Signalled(u, v)
  <2>1. n \in retired[u]
    <3>1. CASE u # t
      BY <3>1, OthersKeep DEF Own
    <3>2. CASE u = t
      <4>1. pc[t] \in {"signal", "signalled"}
        BY <1>3, <3>2 DEF Signalled
      <4>2. ~retire_add(t)
        BY <4>1 DEF retire_add, goto
      <4>3. retired' = retired \/ sendFreeableRecordsToPool(t)
        BY <4>2 DEF step, client, retire, handler, startOp, upgradeToWritePhase, endOp, saveForWritePhase,
               insert, erase, retire_check, hi_announce, hi_announceEnd, hi_signal, lo_save, lo_check,
               collect_size, collect_get, reclaim_end
      <4>4. ~sendFreeableRecordsToPool(t)
        BY <4>1 DEF sendFreeableRecordsToPool, goto
      <4>5. QED BY <3>2, <4>3, <4>4
    <3>3. QED BY <3>1, <3>2
  <2>2. pending[v]
    BY <1>1, <1>3, <2>1 DEF HiRound
  <2>3. QED BY <1>1, <2>2, PendingStep DEF Due
<1>4. QED BY <1>2, <1>3

(* What is below the bookmark after a step was below it before; or it was  *)
(* in the bag when the bookmark was set, and the step saved a time stamp.  *)
LEMMA LowStep ==
  ASSUME Types, Types', Locals, Books, OnePlace, NEW t \in Tid, step(t), NEW r \in Tid, NEW u \in Tid,
         NEW n \in bookmark'[r] \intersect retired'[r], Waiting(r, u)'
  PROVE  \/ Waiting(r, u) /\ n \in bookmark[r] \intersect retired[r] /\ savedTS'[r][u] = savedTS[r][u]
         \/ r = t /\ savedTS'[r][u] = announcedTS[u] /\ UNCHANGED announcedTS
<1>0. Shapes /\ i[t][1] \in Tid
  BY ShapesHold, At
<1>1. CASE r # t
  BY <1>1, OthersKeep DEF Own, Waiting
<1>2. CASE r = t
  <2>1. CASE lo_save(t)
    <3>1. /\ pc[t] = "save" /\ UNCHANGED <<retired, announcedTS>>
          /\ bookmark'[t] = retired[t] /\ savedTS' = [savedTS EXCEPT ![t][i[t][1]] = announcedTS[i[t][1]]]
      BY <1>0, <2>1 DEF lo_save, goto, Shapes
    <3>2. CASE u = i[t][1]
      BY <1>0, <1>2, <3>1, <3>2 DEF Shapes
    <3>3. CASE u # i[t][1]
      <4>1. u < i[t][1]
        <5>1. [i[t] EXCEPT ![1] = i[t][1] + 1] = <<i[t][1] + 1, i[t][2]>>
          BY At
        <5>2. i[t][1] + 1 < NumProcess => i'[t] = <<i[t][1] + 1, i[t][2]>> /\ pc'[t] = "save"
          BY <1>0, <2>1, <5>1 DEF lo_save, goto, Shapes
        <5>3. CASE i[t][1] + 1 < NumProcess
          <6>1. u < i'[t][1] /\ i'[t][1] = i[t][1] + 1
            BY <1>2, <5>2, <5>3 DEF Waiting
          <6>2. QED BY <1>0, <3>3, <6>1, LinkedRecordsAssumption DEF Tid
        <5>4. CASE ~(i[t][1] + 1 < NumProcess)
          BY <1>0, <3>3, <5>4, LinkedRecordsAssumption DEF Tid
        <5>5. QED BY <5>3, <5>4
      <4>2. i[t][1] # 0
        BY <1>0, <4>1, LinkedRecordsAssumption DEF Tid
      <4>3. ~firstLoEntryFlag[t] /\ bookmark[t] = retired[t]
        BY <3>1, <4>2 DEF Books, BookOf
      <4>4. savedTS'[t][u] = savedTS[t][u]
        BY <1>0, <3>1, <3>3 DEF Shapes
      <4>5. n \in bookmark[t] \intersect retired[t]
        BY <1>2, <3>1, <4>3
      <4>6. QED BY <1>2, <4>1, <4>3, <4>4, <4>5 DEF Waiting
    <3>4. QED BY <3>2, <3>3
  <2>2. CASE ~lo_save(t)
    <3>1. ~reclaim_end(t)
      <4>1. reclaim_end(t) => firstLoEntryFlag'[t]
        BY <1>0 DEF reclaim_end, resetLoWmMetaData, Shapes
      <4>2. QED BY <1>2, <4>1 DEF Waiting
    <3>2. UNCHANGED <<firstLoEntryFlag, savedTS, bookmark>>
      BY <2>2, <3>1 DEF step, client, retire, handler, startOp, upgradeToWritePhase, endOp,
         saveForWritePhase, insert, erase, retire_check, retire_add, hi_announce, hi_announceEnd,
         hi_signal, lo_check, collect_size, collect_get, sendFreeableRecordsToPool, loWm
    <3>3. pc[t] # "save" \/ UNCHANGED <<pc, i>>
      <4>1. pc[t] # "save" \/ handler(t)
        BY <2>2 DEF step, client, retire, startOp, upgradeToWritePhase, endOp,
           saveForWritePhase, insert, erase, retire_check, retire_add, hi_announce, hi_announceEnd,
           hi_signal, lo_check, collect_size, collect_get, sendFreeableRecordsToPool, reclaim_end, goto
      <4>2. pc[t] = "save" => ~restartable[t]
        BY DEF Types, TypeOK
      <4>3. QED BY <4>1, <4>2 DEF handler, emptying
    <3>4. Waiting(r, u)
      BY <1>2, <3>2, <3>3 DEF Waiting
    <3>5. n \in bookmark[r] /\ savedTS'[r][u] = savedTS[r][u]
      BY <3>2
    <3>6. n \in retired[r]
      <4>1. CASE retire_add(t)
        <5>1. pc[t] = "add"
          BY <4>1 DEF retire_add, goto
        <5>2. bookmark[t] \subseteq retired[t]
          BY <1>2, <3>4, <5>1 DEF Books, BookOf, Waiting
        <5>3. QED BY <1>2, <3>5, <5>2
      <4>2. CASE sendFreeableRecordsToPool(t)
        <5>1. PICK m : retired' = [retired EXCEPT ![t] = @ \ {m}]
          BY <4>2 DEF sendFreeableRecordsToPool
        <5>2. QED BY <1>0, <1>2, <5>1 DEF Shapes
      <4>3. retire_add(t) \/ sendFreeableRecordsToPool(t) \/ retired' = retired
        BY DEF step, client, retire, handler, startOp, upgradeToWritePhase, endOp, saveForWritePhase,
               insert, erase, retire_check, hi_announce, hi_announceEnd, hi_signal, lo_save, lo_check,
               collect_size, collect_get, reclaim_end
      <4>4. QED BY <4>1, <4>2, <4>3
    <3>7. QED BY <3>4, <3>5, <3>6
  <2>3. QED BY <2>1, <2>2
<1>3. QED BY <1>1, <1>2

(* Who has announced something since the time stamp was saved is not due.  *)
LEMMA AnnouncerStep ==
  ASSUME Types, Types', Locals, Books, OnePlace, Uses, Announcer, NEW t \in Tid, step(t)
  PROVE  Announcer'
<1> SUFFICES ASSUME NEW r \in Tid, NEW u \in Tid, NEW n \in bookmark'[r] \intersect retired'[r],
                    Waiting(r, u)', Due(u, n)'
             PROVE  announcedTS'[u] = savedTS'[r][u]
  BY DEF Announcer
<1>0. Shapes
  BY ShapesHold
<1>1. Due(u, n)
  BY RetiredStep
<1>2. announcedTS'[u] = announcedTS[u]
  <2>1. CASE u # t
    BY <2>1, OthersKeep DEF Own
  <2>2. CASE u = t
    <3>1. pc[t] = "read"
      BY <1>1, <2>2 DEF Due
    <3>2. ~hi_announce(t) /\ ~hi_announceEnd(t)
      BY <3>1 DEF hi_announce, hi_announceEnd, goto
    <3>3. QED BY <3>2 DEF step, client, retire, handler, startOp, upgradeToWritePhase, endOp,
         saveForWritePhase, insert, erase, retire_check, retire_add, hi_signal, lo_save, lo_check,
         collect_size, collect_get, sendFreeableRecordsToPool, reclaim_end
  <2>3. QED BY <2>1, <2>2
<1>3. CASE r = t /\ savedTS'[r][u] = announcedTS[u]
  BY <1>2, <1>3
<1>4. CASE Waiting(r, u) /\ n \in bookmark[r] \intersect retired[r] /\ savedTS'[r][u] = savedTS[r][u]
  BY <1>1, <1>2, <1>4 DEF Announcer
<1>5. QED BY <1>3, <1>4, LowStep

(* The invariant holds at the start. *)
LEMMA InitIInv == Parameters /\ Init => IInv
<1> SUFFICES ASSUME Parameters, Init PROVE IInv
  OBVIOUS
<1>1. Types
  BY InitTypes
<1> USE DEF Init, RecordsInit
<1>2. Locals
  BY DEF Locals, LocalsOf, Retire, Round, Emptying
<1>3. Stamps
  <2>1. 0 % 2 = 0
    OBVIOUS
  <2>2. QED BY <2>1 DEF Stamps, StampOf, Round
<1>4. Books
  BY DEF Books, BookOf
<1>5. OnePlace
  BY DEF OnePlace, LinksDisjoint, RetiringDisjoint, RetiredDisjoint
<1>6. Uses /\ OwnDone /\ HiRound /\ Announcer
  BY DEF Uses, OwnDone, HiRound, Announcer, Due
<1>7. QED BY <1>1, <1>2, <1>3, <1>4, <1>5, <1>6 DEF IInv

(* The types, where a record is and who is due hold in every execution.    *)
THEOREM Invariance == Parameters => (Spec => []IInv)
<1>1. Parameters /\ Init => IInv
  BY InitIInv
<1>2. IInv /\ [Next]_vars => IInv'
  <2> SUFFICES ASSUME IInv, [Next]_vars PROVE IInv'
    OBVIOUS
  <2> USE DEF IInv
  <2>1. CASE UNCHANGED vars
    <3> USE <2>1 DEF vars, loWm, emptying, records
    <3>1. Types'
      BY DEF Types, TypeOK, RecordsTypeOK
    <3>2. Locals' /\ Stamps'
      BY DEF Locals, LocalsOf, Stamps, StampOf
    <3>3. Books'
      BY DEF Books, BookOf
    <3>4. OnePlace'
      BY DEF OnePlace, LinksDisjoint, RetiringDisjoint, RetiredDisjoint
    <3>5. Uses' /\ OwnDone'
      BY DEF Uses, saved, OwnDone, Due
    <3>6. HiRound' /\ Announcer'
      BY DEF HiRound, Signalled, Announcer, Waiting, Due
    <3>7. QED BY <3>1, <3>2, <3>3, <3>4, <3>5, <3>6 DEF Parameters
  <2>2. ASSUME NEW t \in Tid, client(t) \/ retire(t) \/ handler(t) PROVE IInv'
    <3>1. step(t)
      BY <2>2 DEF step
    <3>2. Types'
      BY <3>1, TypesStep
    <3>3. QED BY <3>1, <3>2, LocalsStep, StampsStep, BooksStep, OnePlaceStep, UsesStep, OwnDoneStep,
                 HiRoundStep, AnnouncerStep DEF Parameters
  <2>3. QED BY <2>1, <2>2 DEF Next
<1>3. QED BY <1>1, <1>2, PTL DEF Spec

-------------------------------------------------------------------------------
(* No round that began after the bookmark was set can end while somebody   *)
(* is due.  This is where an odd time stamp would do harm: its thread      *)
(* would have to announce but the next round.                              *)
LEMMA LowRoundStep ==
  ASSUME IInv, IInv', LowWatermarkSound, LowRound, NEW t \in Tid, step(t)
  PROVE  LowRound'
<1> USE DEF IInv
<1> SUFFICES ASSUME NEW r \in Tid, NEW u \in Tid, NEW v \in Tid,
                    NEW n \in bookmark'[r] \intersect retired'[r], Waiting(r, u)', Due(v, n)'
             PROVE  /\ announcedTS'[u] < savedTS'[r][u] + 2
                    /\ announcedTS'[u] = savedTS'[r][u] + 1 /\ Signalled(u, v)' => pending'[v]
  BY DEF LowRound
<1>0. Shapes /\ Shapes'
  BY ShapesHold, PTL
<1>1. Due(v, n) /\ Owns(r, n) /\ n \in Node
  BY RetiredStep
<1>2. pending[v] => pending'[v]
  BY <1>1, PendingStep DEF Due
<1>3. announcedTS[u] \in Nat /\ announcedTS'[u] \in Nat
  BY <1>0 DEF Shapes
<1>4. CASE r = t /\ savedTS'[r][u] = announcedTS[u] /\ UNCHANGED announcedTS
  BY <1>3, <1>4
<1>5. CASE Waiting(r, u) /\ n \in bookmark[r] \intersect retired[r] /\ savedTS'[r][u] = savedTS[r][u]
  <2>1. /\ announcedTS[u] < savedTS[r][u] + 2
        /\ announcedTS[u] = savedTS[r][u] + 1 /\ Signalled(u, v) => pending[v]
    BY <1>1, <1>5 DEF LowRound
  <2>2. savedTS[r][u] \in Nat /\ savedTS[r][u] <= announcedTS[u]
    BY <1>0 DEF Shapes, Stamps
  <2>3. CASE announcedTS'[u] = announcedTS[u]
    BY <1>2, <1>5, <2>1, <2>3, SignalledStep
  <2>4. CASE u = t /\ hi_announce(t)
    <3>1. /\ announcedTS'[u] = announcedTS[u] + 1 /\ pc[u] = "announce" /\ pc'[u] = "signal"
          /\ i'[u] = i[u]
      BY <1>0, <2>4 DEF hi_announce, goto, emptying, Shapes
    <3>2. i[u] = <<0, 0>>
      BY <3>1 DEF Locals, LocalsOf
    <3>3. ~Signalled(u, v)'
      BY <3>1, <3>2 DEF Signalled, Tid
    <3>4. announcedTS[u] % 2 = 0
      BY <3>1 DEF Stamps, StampOf, Round
    <3>5. savedTS[r][u] % 2 = 0
      <4>1. CASE NumProcess > 2
        BY <4>1, LinkedRecordsAssumption DEF LowWatermarkSound
      <4>2. CASE ~(NumProcess > 2)
        <5>1. v # r /\ v # u
          BY <1>1, <3>1 DEF OwnDone, Owns, Due
        <5>2. r = u
          BY <4>2, <5>1, LinkedRecordsAssumption DEF Tid
        <5>3. QED BY <5>2 DEF Stamps
      <4>3. QED BY <4>1, <4>2
    <3>6. announcedTS[u] # savedTS[r][u] + 1
      BY <2>2, <3>4, <3>5
    <3>7. QED BY <1>3, <1>5, <2>1, <2>2, <3>1, <3>3, <3>6
  <2>5. CASE u = t /\ hi_announceEnd(t)
    <3>1. /\ announcedTS'[u] = announcedTS[u] + 1 /\ pc[u] = "signalled" /\ pc'[u] = "size"
          /\ \A w \in Tid \ {u} : ~pending[w]
      BY <1>0, <2>5 DEF hi_announceEnd, goto, Shapes
    <3>2. v # u
      BY <1>1, <3>1 DEF Due
    <3>3. Signalled(u, v) /\ ~pending[v] /\ ~Signalled(u, v)'
      BY <3>1, <3>2 DEF Signalled
    <3>4. announcedTS[u] # savedTS[r][u] + 1
      BY <2>1, <3>3
    <3>5. QED BY <1>3, <1>5, <2>1, <2>2, <3>1, <3>3, <3>4
  <2>6. announcedTS' = announcedTS \/ hi_announce(t) \/ hi_announceEnd(t)
    BY DEF step, client, retire, handler, startOp, upgradeToWritePhase, endOp, saveForWritePhase, insert,
       erase, retire_check, retire_add, hi_signal, lo_save, lo_check, collect_size, collect_get,
       sendFreeableRecordsToPool, reclaim_end
  <2>7. u # t => announcedTS'[u] = announcedTS[u]
    BY OthersKeep DEF Own
  <2>8. QED BY <2>3, <2>4, <2>5, <2>6, <2>7
<1>6. QED BY <1>4, <1>5, LowStep

(* What may be freed, where the list is emptied, was so before the step,   *)
(* or the step is the end of a round, or has seen that one is over.        *)
LEMMA FreeableStep ==
  ASSUME Types, Locals, NEW t \in Tid, step(t), NEW r \in Tid, pc'[r] \in Emptying, NEW n \in freeable'[r]
  PROVE  \/ pc[r] \in Emptying /\ n \in freeable[r]
         \/ r = t /\ hi_announceEnd(t) /\ n \in retired[t]
         \/ r = t /\ lo_check(t) /\ signalledSince(t, i[t][1]) /\ n \in bookmark[t]
<1>0. Shapes
  BY ShapesHold
<1>1. CASE r # t
  BY <1>1, OthersKeep DEF Own
<1>2. CASE r = t
  <2> USE <1>0 DEF Shapes, goto, emptying
  <2>1. CASE hi_announceEnd(t)
    BY <1>2, <2>1 DEF hi_announceEnd
  <2>2. CASE lo_check(t)
    <3>1. CASE signalledSince(t, i[t][1])
      BY <1>2, <2>2, <3>1 DEF lo_check, reclaimableLow
    <3>2. CASE ~signalledSince(t, i[t][1])
      <4>1. pc'[t] \in {"check", "add"}
        BY <2>2, <3>2 DEF lo_check
      <4>2. QED BY <1>2, <4>1 DEF Emptying
    <3>3. QED BY <3>1, <3>2
  <2>3. CASE collect_size(t) \/ collect_get(t)
    BY <1>2, <2>3 DEF collect_size, collect_get, Emptying
  <2>4. CASE sendFreeableRecordsToPool(t)
    <3>1. PICK m : freeable' = [freeable EXCEPT ![t] = @ \ {m}]
      BY <2>4 DEF sendFreeableRecordsToPool
    <3>2. QED BY <1>2, <2>4, <3>1 DEF sendFreeableRecordsToPool, Emptying
  <2>5. CASE client(t) \/ retire_check(t) \/ retire_add(t) \/ hi_announce(t) \/ hi_signal(t) \/ lo_save(t)
             \/ reclaim_end(t)
    <3>1. pc'[t] \notin Emptying
      BY <2>5 DEF client, startOp, upgradeToWritePhase, endOp, saveForWritePhase, insert, erase,
         retire_check, retire_add, hi_announce, hi_signal, lo_save, reclaim_end, Emptying
    <3>2. QED BY <1>2, <3>1
  <2>6. CASE handler(t)
    BY <1>2, <2>6 DEF handler, Emptying
  <2>7. QED BY <2>1, <2>2, <2>3, <2>4, <2>5, <2>6 DEF step, retire
<1>3. QED BY <1>1, <1>2

(* When a thread begins to empty its bag nobody is due, and it stays so.   *)
LEMMA NeutralizedStep ==
  ASSUME IInv, IInv', LowRound, Neutralized, NEW t \in Tid, step(t)
  PROVE  Neutralized'
<1> USE DEF IInv
<1> SUFFICES ASSUME NEW r \in Tid, pc'[r] \in Emptying, NEW n \in freeable'[r], NEW u \in waiting'[n]
             PROVE  ~restartable'[u] /\ n \in saved(u)'
  BY DEF Neutralized, Emptying
<1>1. n \in retired'[r]
  BY DEF Locals, LocalsOf
<1>2. n \in Node /\ u \in waiting[n] /\ (Due(u, n)' => Due(u, n)) /\ u \in Tid
  BY <1>1, RetiredStep DEF Types, TypeOK
<1>3. ~Due(u, n)
  <2>1. CASE pc[r] \in Emptying /\ n \in freeable[r]
    <3>1. ~restartable[u]
      BY <1>2, <2>1 DEF Neutralized, Emptying
    <3>2. QED BY <1>2, <3>1 DEF Due, Types, TypeOK
  <2>2. CASE r = t /\ hi_announceEnd(t) /\ n \in retired[t]
    <3>1. pc[t] = "signalled" /\ \A w \in Tid \ {t} : ~pending[w]
      BY <2>2 DEF hi_announceEnd, goto
    <3>2. CASE u = t
      BY <1>2, <2>2, <3>2 DEF OwnDone
    <3>3. CASE u # t
      BY <1>2, <2>2, <3>1, <3>3 DEF HiRound, Signalled
    <3>4. QED BY <3>2, <3>3
  <2>3. CASE r = t /\ lo_check(t) /\ signalledSince(t, i[t][1]) /\ n \in bookmark[t]
    <3>1. pc[t] = "check" /\ i[t][1] \in Tid
      BY <2>3, At DEF lo_check, goto
    <3>2. ~firstLoEntryFlag[t] /\ bookmark[t] \subseteq retired[t]
      BY <3>1 DEF Books, BookOf
    <3>3. Waiting(t, i[t][1]) /\ n \in bookmark[t] \intersect retired[t]
      BY <2>3, <3>1, <3>2 DEF Waiting
    <3>4. Due(u, n) => announcedTS[i[t][1]] < savedTS[t][i[t][1]] + 2
      BY <1>2, <3>1, <3>3 DEF LowRound
    <3>5. announcedTS[i[t][1]] \in Nat /\ savedTS[t][i[t][1]] \in Nat
      BY <3>1, ShapesHold DEF Shapes
    <3>6. QED BY <2>3, <3>4, <3>5 DEF signalledSince
  <2>4. QED BY <2>1, <2>2, <2>3, FreeableStep
<1>4. pc'[u] # "read" /\ u \in Tid
  BY <1>2, <1>3 DEF Due
<1>5. QED BY <1>2, <1>4 DEF Uses, Types, TypeOK

(* A list of saved records does not change under the thread that reads it, *)
(* as far as it has records that may be freed.                             *)
LEMMA ListKept ==
  ASSUME IInv, IInv', Neutralized, Neutralized', NEW t \in Tid, step(t),
         NEW r \in Tid, pc'[r] \in Emptying, NEW n \in freeable'[r], NEW v \in waiting'[n]
  PROVE  /\ v \in Tid /\ v \in waiting[n] /\ n \in saved(v) /\ proposed'[v] = proposed[v]
<1> USE DEF IInv
<1>0. Shapes
  BY ShapesHold
<1>1. n \in retired'[r]
  BY DEF Locals, LocalsOf
<1>2. n \in Node /\ v \in waiting[n] /\ v \in Tid
  BY <1>1, RetiredStep DEF Types, TypeOK
<1>3. pc'[v] # "read" /\ n \in saved(v)'
  BY <1>2 DEF Neutralized, Emptying, Types, TypeOK
<1>4. proposed'[v] = proposed[v]
  <2>1. CASE v # t
    BY <2>1, <1>2, OthersKeep DEF Own
  <2>2. CASE v = t
    <3>1. ~startOp(t)
      BY <1>0, <1>3, <2>2 DEF startOp, goto, Shapes
    <3>2. \A m \in Node : ~saveForWritePhase(t, m)
      BY <1>0, <1>3, <2>2 DEF saveForWritePhase, goto, Shapes
    <3>3. QED BY <3>1, <3>2 DEF step, client, retire, handler, upgradeToWritePhase, endOp, insert, erase,
         retire_check, retire_add, hi_announce, hi_announceEnd, hi_signal, lo_save, lo_check,
         collect_size, collect_get, sendFreeableRecordsToPool, reclaim_end
  <2>3. QED BY <2>1, <2>2
<1>5. QED BY <1>2, <1>3, <1>4 DEF saved

(* A thread's list is read from its first entry to its last, and then the  *)
(* next thread's: what somebody has saved is in the copy.                  *)
LEMMA ScanCoveredStep ==
  ASSUME IInv, IInv', Neutralized, Neutralized', ScanCovered, NEW t \in Tid, step(t)
  PROVE  ScanCovered'
<1> USE DEF IInv
<1> SUFFICES ASSUME NEW r \in Tid, pc'[r] \in Emptying, NEW n \in freeable'[r], NEW v \in waiting'[n]
             PROVE  /\ pc'[r] = "sweep" \/ v < i'[r][1] => n \in scanned'[r]
                    /\ pc'[r] = "collect" /\ v = i'[r][1] =>
                          /\ sz'[r] = Len(proposed'[v])
                          /\ \A k \in 1 .. i'[r][2] : proposed'[v][k] \in scanned'[r]
  BY DEF ScanCovered
<1> DEFINE G == /\ pc'[r] = "sweep" \/ v < i'[r][1] => n \in scanned'[r]
                /\ pc'[r] = "collect" /\ v = i'[r][1] =>
                      /\ sz'[r] = Len(proposed'[v])
                      /\ \A k \in 1 .. i'[r][2] : proposed'[v][k] \in scanned'[r]
<1>0. Shapes /\ i[t][1] \in Tid /\ i[t][2] \in 0 .. MaxSaved - 1
  BY ShapesHold, At
<1>1. v \in Tid /\ v \in waiting[n] /\ n \in saved(v) /\ proposed'[v] = proposed[v]
  BY ListKept
<1>2. pc[r] \in Emptying /\ n \in freeable[r] =>
        /\ pc[r] = "sweep" \/ v < i[r][1] => n \in scanned[r]
        /\ pc[r] = "collect" /\ v = i[r][1] =>
              /\ sz[r] = Len(proposed[v])
              /\ \A k \in 1 .. i[r][2] : proposed[v][k] \in scanned[r]
  BY <1>1 DEF ScanCovered
<1>3. CASE r # t
  BY <1>1, <1>2, <1>3, OthersKeep, FreeableStep DEF Own
<1>4. CASE r = t /\ ~(pc[r] \in Emptying /\ n \in freeable[r])
  <2>1. hi_announceEnd(t) \/ (lo_check(t) /\ signalledSince(t, i[t][1]))
    BY <1>4, FreeableStep
  <2>2. pc'[t] = "size" /\ i'[t] = <<0, 0>>
    <3>1. CASE hi_announceEnd(t)
      BY <1>0, <3>1 DEF hi_announceEnd, goto, Shapes, Locals, LocalsOf
    <3>2. CASE lo_check(t) /\ signalledSince(t, i[t][1])
      BY <1>0, <3>2 DEF lo_check, goto, Shapes
    <3>3. QED BY <2>1, <3>1, <3>2
  <2>3. ~(v < 0)
    BY <1>1 DEF Tid
  <2>4. QED BY <1>4, <2>2, <2>3
<1>5. CASE r = t /\ pc[r] \in Emptying /\ n \in freeable[r]
  <2>0. \A j : j \in Tid /\ (v < j + 1) => v < j \/ v = j
    BY <1>1 DEF Tid
  <2>1. nextThread(t) => /\ pc'[t] = "size" => i'[t][1] = i[t][1] + 1
                         /\ pc'[t] # "collect" /\ (pc'[t] = "sweep" => i[t][1] + 1 >= NumProcess /\ i'[t][1] = 0)
    <3>1. CASE i[t][1] + 1 < NumProcess
      <4>1. nextThread(t) => pc'[t] = "size" /\ i'[t] = <<i[t][1] + 1, 0>>
        BY <1>0, <3>1 DEF nextThread, goto, Shapes
      <4>2. QED BY <4>1
    <3>2. CASE ~(i[t][1] + 1 < NumProcess)
      <4>1. nextThread(t) => pc'[t] = "sweep" /\ i'[t] = <<0, 0>>
        BY <1>0, <3>2 DEF nextThread, goto, Shapes
      <4>2. i[t][1] + 1 >= NumProcess
        BY <1>0, <3>2, LinkedRecordsAssumption DEF Tid
      <4>3. QED BY <4>1, <4>2
    <3>3. QED BY <3>1, <3>2
  <2>2. ASSUME nextThread(t), scanned[t] \subseteq scanned'[t], pc[t] \in {"size", "collect"},
               v = i[t][1] => n \in scanned'[t]
        PROVE  G
    <3>1. CASE pc'[t] = "size"
      <4>1. v < i'[t][1] => v < i[t][1] \/ v = i[t][1]
        BY <1>0, <2>0, <2>1, <2>2, <3>1
      <4>2. QED BY <1>2, <1>5, <2>2, <3>1, <4>1
    <3>2. CASE pc'[t] = "sweep"
      <4>1. v < i[t][1] \/ v = i[t][1]
        BY <1>0, <1>1, <2>1, <2>2, <3>2, LinkedRecordsAssumption DEF Tid
      <4>2. QED BY <1>2, <1>5, <2>2, <3>2, <4>1
    <3>3. pc'[t] \in {"size", "sweep"}
      BY <1>0, <2>2 DEF nextThread, goto, Shapes
    <3>4. QED BY <3>1, <3>2, <3>3
  <2>3. CASE collect_size(t)
    <3>1. scanned' = scanned /\ pc[t] = "size"
      BY <2>3 DEF collect_size
    <3>2. CASE Len(proposed[i[t][1]]) = 0
      <4>1. v # i[t][1]
        <5>1. PICK j \in 1 .. Len(proposed[v]) : n = proposed[v][j]
          BY <1>0, <1>1, LenProperties DEF saved, ToSet, Shapes
        <5>2. QED BY <3>2, <5>1
      <4>2. nextThread(t)
        BY <2>3, <3>2 DEF collect_size
      <4>3. QED BY <2>2, <3>1, <4>1, <4>2
    <3>3. CASE Len(proposed[i[t][1]]) # 0
      <4>1. pc'[t] = "collect" /\ i' = i /\ sz'[t] = Len(proposed[i[t][1]])
        BY <1>0, <2>3, <3>3 DEF collect_size, goto, Shapes
      <4>2. i[t][2] = 0
        BY <3>1 DEF Locals, LocalsOf
      <4>3. QED BY <1>1, <1>2, <1>5, <3>1, <4>1, <4>2
    <3>4. QED BY <3>2, <3>3
  <2>4. CASE collect_get(t)
    <3> DEFINE list == proposed[i[t][1]]
               k == i[t][2] + 1
    <3>1. /\ pc[t] = "collect" /\ scanned[t] \subseteq scanned'[t]
          /\ k <= Len(list) => list[k] \in scanned'[t]
      BY <1>0, <2>4 DEF collect_get, Shapes
    <3>2. i[t][2] < sz[t]
      BY <3>1 DEF Locals, LocalsOf
    <3>3. sz[t] \in Nat /\ i[t][2] \in Nat
      BY <1>0 DEF Shapes
    <3>4. v = i[t][1] => /\ sz[t] = Len(list) /\ \A j \in 1 .. k : list[j] \in scanned'[t]
      <4>1. HAVE v = i[t][1]
      <4>2. sz[t] = Len(list) /\ \A j \in 1 .. i[t][2] : list[j] \in scanned[t]
        BY <1>2, <1>5, <3>1, <4>1
      <4>3. k <= Len(list)
        BY <3>2, <3>3, <4>2
      <4>4. \A j \in 1 .. k : j \in 1 .. i[t][2] \/ j = k
        BY <3>3
      <4>5. QED BY <3>1, <4>2, <4>3, <4>4
    <3>5. CASE k < sz[t]
      <4>1. pc'[t] = "collect" /\ i'[t] = <<i[t][1], k>> /\ sz'[t] = sz[t]
        <5>1. [i[t] EXCEPT ![2] = k] = <<i[t][1], k>>
          BY At
        <5>2. QED BY <1>0, <2>4, <3>5, <5>1 DEF collect_get, goto, Shapes
      <4>2. QED BY <1>1, <1>2, <1>5, <3>1, <3>4, <4>1
    <3>6. CASE ~(k < sz[t])
      <4>1. nextThread(t)
        BY <2>4, <3>6 DEF collect_get
      <4>2. v = i[t][1] => n \in scanned'[t]
        <5>1. HAVE v = i[t][1]
        <5>2. PICK j \in 1 .. Len(list) : n = list[j]
          BY <1>0, <1>1, <5>1, LenProperties DEF saved, ToSet, Shapes
        <5>3. j \in 1 .. k
          <6>1. j \in 1 .. sz[t] /\ sz[t] <= k
            BY <3>3, <3>4, <3>6, <5>1
          <6>2. QED BY <3>3, <6>1
        <5>4. QED BY <3>4, <5>1, <5>2, <5>3
      <4>3. QED BY <2>2, <3>1, <4>1, <4>2
    <3>7. QED BY <3>5, <3>6
  <2>5. CASE sendFreeableRecordsToPool(t)
    <3>1. pc[t] = "sweep" /\ pc'[t] = "sweep" /\ UNCHANGED scanned
      BY <1>0, <2>5 DEF sendFreeableRecordsToPool, goto, Shapes
    <3>2. QED BY <1>2, <1>5, <3>1
  <2>6. CASE handler(t)
    <3>1. ~restartable[t]
      BY <1>5 DEF Types, TypeOK, Emptying
    <3>2. UNCHANGED <<pc, i, sz, scanned>>
      BY <2>6, <3>1 DEF handler, emptying
    <3>3. QED BY <1>1, <1>2, <1>5, <3>2
  <2>7. collect_size(t) \/ collect_get(t) \/ sendFreeableRecordsToPool(t) \/ handler(t)
    <3>1. ~reclaim_end(t)
      BY <1>0, <1>5 DEF reclaim_end, goto, Shapes, Emptying
    <3>2. QED BY <1>5, <3>1 DEF Emptying, step, client, retire, startOp, upgradeToWritePhase, endOp,
         saveForWritePhase, insert, erase, retire_check, retire_add, hi_announce, hi_announceEnd,
         hi_signal, lo_save, lo_check, goto
  <2>8. QED BY <2>3, <2>4, <2>5, <2>6, <2>7
<1>6. QED BY <1>3, <1>4, <1>5

(* A record that is freed is nobody's any more, and stays so until it is   *)
(* linked again.                                                           *)
LEMMA NoUseAfterFreeStep ==
  ASSUME IInv, IInv', ScanCovered, NoUseAfterFree, NEW t \in Tid, step(t)
  PROVE  NoUseAfterFree'
<1> USE DEF IInv
<1> SUFFICES ASSUME NEW n \in pool' PROVE waiting'[n] = {}
  BY DEF NoUseAfterFree
<1>0. n \in Node /\ waiting[n] \subseteq Tid
  BY DEF Types, TypeOK, RecordsTypeOK
<1>1. \/ n \in pool
      \/ n \in freeable[t] \ scanned[t] /\ sendFreeableRecordsToPool(t) /\ pc[t] = "sweep"
  <2>1. CASE \E c \in Cell : insert(t, c)
    BY <2>1 DEF insert, link
  <2>2. CASE sendFreeableRecordsToPool(t)
    BY <2>2 DEF sendFreeableRecordsToPool, poolAdd, goto
  <2>3. (\E c \in Cell : insert(t, c)) \/ sendFreeableRecordsToPool(t) \/ pool' = pool
    BY DEF step, client, retire, handler, startOp, upgradeToWritePhase, endOp, saveForWritePhase, erase,
       unlink, retire_check, retire_add, hi_announce, hi_announceEnd, hi_signal, lo_save, lo_check,
       collect_size, collect_get, reclaim_end, records
  <2>4. QED BY <2>1, <2>2, <2>3
<1>2. CASE n \in pool
  <2>1. ~Erased(t, n)
    BY <1>0, <1>2, LinkedRecordsAssumption DEF Erased, OnePlace, LinksDisjoint
  <2>2. QED BY <1>0, <1>2, <2>1, WaitingStep DEF NoUseAfterFree
<1>3. CASE n \in freeable[t] \ scanned[t] /\ sendFreeableRecordsToPool(t) /\ pc[t] = "sweep"
  <2>1. waiting[n] = {}
    BY <1>3 DEF ScanCovered, Emptying
  <2>2. waiting' = waiting
    BY <1>3 DEF sendFreeableRecordsToPool
  <2>3. QED BY <2>1, <2>2
<1>4. QED BY <1>1, <1>2, <1>3

(* Nothing has been freed, and nobody has anything, at the start.          *)
LEMMA InitSafe == Init => Safe
BY DEF Init, RecordsInit, Safe, LowRound, Neutralized, ScanCovered, NoUseAfterFree, Emptying

-------------------------------------------------------------------------------
(* Types, the place of a record and who may have a pointer to it.          *)
THEOREM TypeCorrect == Parameters => (Spec => []TypeOK)
<1>1. IInv => TypeOK
  BY DEF IInv, Types
<1>2. QED BY <1>1, Invariance, PTL

(* A record is in one place: a link, the hands of one retiring thread, one *)
(* thread's bag or the pool.  No record is retired or freed twice.         *)
THEOREM SinglePlace == Parameters => (Spec => []OnePlace)
<1>1. IInv => OnePlace
  BY DEF IInv
<1>2. QED BY <1>1, Invariance, PTL

(* The thread that has announced a round, or has seen one announced, since *)
(* it waits for it, has no read phase from before: the signals have but to *)
(* reach the others.                                                       *)
THEOREM RoundsReach == Parameters => (Spec => [](HiRound /\ Announcer))
<1>1. IInv => HiRound /\ Announcer
  BY DEF IInv
<1>2. QED BY <1>1, Invariance, PTL

(* If no thread saves the time stamp of a round that is on, or there are   *)
(* two threads, then all of Safe holds: above all, every reader has been   *)
(* thrown back when a bag is emptied, what somebody has saved is kept, and *)
(* nothing is freed that a thread may use.                                 *)
THEOREM Safety == Parameters => (Spec /\ []LowWatermarkSound => []Safe)
<1>1. IInv /\ Safe /\ LowWatermarkSound /\ [Next]_vars /\ IInv' => Safe'
  <2> SUFFICES ASSUME IInv, Safe, LowWatermarkSound, [Next]_vars, IInv' PROVE Safe'
    OBVIOUS
  <2>1. CASE UNCHANGED vars
    <3> USE <2>1 DEF vars, loWm, emptying, records
    <3>1. LowRound' /\ NoUseAfterFree'
      BY DEF Safe, LowRound, NoUseAfterFree, Waiting, Due, Signalled
    <3>2. Neutralized' /\ ScanCovered'
      BY DEF Safe, Neutralized, ScanCovered, saved
    <3>3. QED BY <3>1, <3>2 DEF Safe
  <2>2. ASSUME NEW t \in Tid, client(t) \/ retire(t) \/ handler(t) PROVE Safe'
    <3>1. step(t)
      BY <2>2 DEF step
    <3>2. LowRound' /\ Neutralized'
      BY <3>1, LowRoundStep, NeutralizedStep DEF Safe
    <3>3. ScanCovered' /\ NoUseAfterFree'
      BY <3>1, <3>2, ScanCoveredStep, NoUseAfterFreeStep DEF Safe
    <3>4. QED BY <3>2, <3>3 DEF Safe
  <2>3. QED BY <2>1, <2>2 DEF Next
<1>2. Init => Safe
  BY InitSafe
<1>3. QED BY <1>1, <1>2, Invariance, PTL DEF Spec

(* Every reader has been thrown back when a bag is emptied.                *)
THEOREM AllNeutralized == Parameters => (Spec /\ []LowWatermarkSound => []Neutralized)
<1>1. Safe => Neutralized
  BY DEF Safe
<1>2. QED BY <1>1, Safety, PTL

(* No record is freed that a thread may have a pointer to and use.         *)
THEOREM FreesNothingInUse == Parameters => (Spec /\ []LowWatermarkSound => []NoUseAfterFree)
<1>1. Safe => NoUseAfterFree
  BY DEF Safe
<1>2. QED BY <1>1, Safety, PTL

(* For two threads nothing more is needed. *)
THEOREM SafetyOfTwo ==
  ASSUME Parameters, NumProcess <= 2
  PROVE  Spec => []Neutralized /\ []NoUseAfterFree
<1>1. LowWatermarkSound
  BY DEF LowWatermarkSound
<1>2. QED BY <1>1, AllNeutralized, FreesNothingInUse, PTL
===============================================================================
