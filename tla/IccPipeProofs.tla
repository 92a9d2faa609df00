----------------------------- MODULE IccPipeProofs -----------------------------
(***************************************************************************)
(* Proofs about IccPipe: types and notifications for every set of senders   *)
(* and both builds; order and integrity of the bytes, and that the pipe is  *)
(* a channel, for a single sender.                                          *)
(***************************************************************************)
EXTENDS IccRefinement, TLAPS

USE DEF Slots, NextIdx

\* iccq_avail of any two slots fits the type it is assigned to.
LEMMA AvailIsUnsigned ==
    ASSUME NEW lower \in BOOLEAN, NEW w \in Slots, NEW r \in Slots
    PROVE  Avail(lower, w, r) \in 0..Modulus - 1
BY LengthAssumption, ModulusAssumption DEF Avail

\* Undisturbed it is the distance from readIdx to writeIdx.
LEMMA UndisturbedAvail ==
    ASSUME NEW w \in Slots, NEW r \in Slots
    PROVE  /\ Avail(w < r, w, r) = IF w >= r THEN w - r ELSE w - r + Length
           /\ Avail(w < r, w, r) \in 0..Length - 1
BY LengthAssumption DEF Avail

\* Advancing readIdx over an element leaves one element less.
LEMMA PopLeavesOneLess ==
    ASSUME NEW w \in Slots, NEW r \in Slots, Avail(w < r, w, r) > 0
    PROVE  Avail(w < NextIdx(r), w, NextIdx(r)) = Avail(w < r, w, r) - 1
BY LengthAssumption DEF Avail

(***************************************************************************)
(* Types                                                                   *)
(***************************************************************************)

\* The drain loop counts down to the end and not below.
LoopOpen == rpc \in {"top", "popCompare", "popAdvance", "deliver"} => avail > 0

LEMMA SeenIsUnsigned ==
    ASSUME TypeOK PROVE AvailSeen \in 0..Modulus - 1
<1> DEFINE w == IF Rereads THEN writeIdx ELSE seen
<1>1. w \in Slots /\ above \in BOOLEAN /\ readIdx \in Slots
  BY DEF TypeOK
<1> HIDE DEF w
<1>2. Avail(above, w, readIdx) \in 0..Modulus - 1
  BY <1>1, AvailIsUnsigned, Zenon
<1>3. QED
  BY <1>2 DEF AvailSeen, w

\* Writers keep at least a character to write while they are at it.
WritesLeft == \A s \in Senders : spc[s] \in {"check", "copy", "load", "store"}
                                     => left[s] > 0

Typed == TypeOK /\ LoopOpen /\ WritesLeft

LEMMA TypedInit == Init => Typed
<1> SUFFICES ASSUME Init PROVE Typed
  OBVIOUS
<1>1. elements \in [Slots -> Nat] /\ writeIdx \in Slots /\ readIdx \in Slots /\ seen \in Slots
  BY LengthAssumption DEF Init
<1>2. spc \in [Senders -> SendPCs] /\ newIdx \in [Senders -> Slots]
  BY LengthAssumption DEF Init, SendPCs
<1>3. left \in [Senders -> 0..MaxWrite] /\ avail \in 0..Modulus - 1
  BY LengthAssumption, WriteAssumption, ModulusAssumption DEF Init
<1>4. QED
  BY <1>1, <1>2, <1>3 DEF Init, Typed, TypeOK, LoopOpen, WritesLeft, RecvPCs

LEMMA TypedStep == Typed /\ [Next]_vars => Typed'
<1> SUFFICES ASSUME Typed, [Next]_vars PROVE Typed'
  OBVIOUS
<1> USE LengthAssumption, WriteAssumption, ModulusAssumption
<1> USE DEF Typed, TypeOK, LoopOpen, WritesLeft, SendPCs, RecvPCs,
            queueVars, sendVars, recvVars, hsemVars, gateVars
<1>1. CASE OpenPipe \/ CliStarts
  BY <1>1 DEF OpenPipe, CliStarts
<1>2. ASSUME NEW s \in Senders, SendStep(s) PROVE Typed'
  <2>1. CASE PushCheck(s)
    BY <2>1 DEF PushCheck
  <2>2. CASE PushCopy(s)
    BY <2>2 DEF PushCopy
  <2>3. CASE PushLoad(s)
    BY <2>3 DEF PushLoad
  <2>4. CASE PushStore(s)
    BY <2>4 DEF PushStore
  <2>5. CASE NotifyTake(s)
    BY <2>5 DEF NotifyTake
  <2>6. CASE NotifyRelease(s)
    BY <2>6 DEF NotifyRelease
  <2>7. QED
    BY <1>2, <2>1, <2>2, <2>3, <2>4, <2>5, <2>6 DEF SendStep
<1>3. ASSUME NEW s \in Senders, NEW n \in 1..MaxWrite, Write(s, n) PROVE Typed'
  BY <1>3 DEF Write
<1>4. CASE RecvStep
  <2>1. CASE Irq
    BY <2>1 DEF Irq
  <2>2. CASE Compare
    BY <2>2 DEF Compare
  <2>3. CASE Count
    BY <2>3, SeenIsUnsigned DEF Count
  <2>4. CASE Top
    BY <2>4 DEF Top
  <2>5. CASE PopAdvance
    BY <2>5 DEF PopAdvance
  <2>6. CASE Deliver
    BY <2>6 DEF Deliver
  <2>7. CASE Activate
    BY <2>7 DEF Activate
  <2>8. QED
    BY <1>4, <2>1, <2>2, <2>3, <2>4, <2>5, <2>6, <2>7 DEF RecvStep
<1>5. CASE UNCHANGED vars
  BY <1>5 DEF vars
<1>6. QED
  BY <1>1, <1>2, <1>3, <1>4, <1>5 DEF Next

LEMMA TypedHolds == Spec => []Typed
BY TypedInit, TypedStep, PTL DEF Spec

\* The indices stay in the ring and every variable keeps its type, whatever
\* the senders do to each other's pushes.
THEOREM TypeCorrect == Spec => []TypeOK
<1>1. Typed => TypeOK
  BY DEF Typed
<1>2. QED
  BY <1>1, TypedHolds, PTL

(***************************************************************************)
(* Notifications                                                           *)
(***************************************************************************)

Announced == raw \/ \E s \in Senders : Announcing(s)

\* With no notification pending or to come, the handler is about to empty the
\* ring: its count of iterations is exactly what the ring holds.
Emptying ==
    /\ rpc \in {"count", "popAdvance"} => above = (writeIdx < readIdx) /\ seen = writeIdx
    /\ rpc \in {"top", "popCompare", "popAdvance"} => AvailNow = avail
    /\ rpc = "deliver" => AvailNow = avail - 1
    /\ rpc \in {"activate", "idle"} => AvailNow = 0 \/ pushed = missed

NoticeInv == Announced \/ Emptying

LEMMA NoticeInit == Init => NoticeInv
BY LengthAssumption DEF Init, NoticeInv, Emptying, AvailNow, Avail

LEMMA NoticeStep == Typed /\ NoticeInv /\ [Next]_vars => NoticeInv'
<1> SUFFICES ASSUME Typed, NoticeInv, [Next]_vars PROVE NoticeInv'
  OBVIOUS
<1> USE DEF queueVars, sendVars, recvVars, hsemVars, gateVars
<1>0. spc \in [Senders -> SendPCs] /\ writeIdx \in Slots /\ readIdx \in Slots
  BY DEF Typed, TypeOK
<1>1. CASE OpenPipe \/ CliStarts
  BY <1>1 DEF OpenPipe, CliStarts, NoticeInv, Announced, Announcing, Emptying, AvailNow
<1>2. ASSUME NEW s \in Senders, SendStep(s) PROVE NoticeInv'
  <2>1. CASE PushCheck(s)
    BY <1>0, <2>1 DEF PushCheck, NoticeInv, Announced, Announcing
  <2>2. CASE PushCopy(s)
    BY <1>0, <2>2 DEF PushCopy, NoticeInv, Announced, Announcing
  <2>3. CASE PushLoad(s)
    BY <1>0, <2>3 DEF PushLoad, NoticeInv, Announced, Announcing
  <2>4. CASE PushStore(s)
    BY <1>0, <2>4 DEF PushStore, NoticeInv, Announced, Announcing
  <2>5. CASE NotifyTake(s)
    BY <1>0, <2>5 DEF NotifyTake, NoticeInv, Announced, Announcing
  <2>6. CASE NotifyRelease(s)
    <3>1. CASE locked
      BY <2>6, <3>1 DEF NotifyRelease, NoticeInv, Announced
    <3>2. CASE ~locked
      <4>1. Announced => Announced'
        BY <1>0, <2>6, <3>2 DEF NotifyRelease, Announced, Announcing
      <4>2. Emptying => Emptying'
        BY <2>6 DEF NotifyRelease, Emptying, AvailNow
      <4>3. QED
        BY <4>1, <4>2 DEF NoticeInv
    <3>3. QED
      BY <3>1, <3>2
  <2>7. QED
    BY <1>2, <2>1, <2>2, <2>3, <2>4, <2>5, <2>6 DEF SendStep
<1>3. ASSUME NEW s \in Senders, NEW n \in 1..MaxWrite, Write(s, n) PROVE NoticeInv'
  BY <1>0, <1>3 DEF Write, NoticeInv, Announced, Announcing
<1>4. CASE RecvStep
  <2>1. CASE Irq
    BY <2>1 DEF Irq, NoticeInv, Emptying
  <2>2. ASSUME ~Irq PROVE Announced => Announced'
    BY <1>4, <2>2 DEF RecvStep, Announced, Announcing, Compare, Count, Top,
                      PopAdvance, Deliver, Activate
  <2>3. ASSUME Emptying, rpc \in {"count", "popAdvance"} PROVE AvailSeen = AvailNow
    BY <2>3 DEF Emptying, AvailSeen, AvailNow
  <2>4. AvailNow \in Nat
    BY <1>0, UndisturbedAvail, LengthAssumption DEF AvailNow
  <2>5. ASSUME Emptying, ~Irq PROVE Emptying'
    <3>1. CASE Compare
      BY <2>5, <3>1 DEF Compare, Emptying, AvailNow
    <3>2. CASE Count
      BY <2>3, <2>4, <2>5, <3>2 DEF Count, Emptying, AvailNow
    <3>3. CASE Top
      BY <2>5, <3>3 DEF Top, Emptying, AvailNow
    <3>4. CASE PopAdvance
      <4>1. AvailNow = avail /\ AvailSeen = AvailNow /\ avail > 0
        BY <2>3, <2>5, <3>4 DEF PopAdvance, Emptying, Typed, LoopOpen
      <4>2. AvailNow' = AvailNow - 1
        <5>1. readIdx' = NextIdx(readIdx) /\ writeIdx' = writeIdx
          BY <3>4, <4>1 DEF PopAdvance
        <5>2. QED
          BY <1>0, <4>1, <5>1, PopLeavesOneLess DEF AvailNow
      <4>3. QED
        BY <3>4, <4>1, <4>2 DEF PopAdvance, Emptying
    <3>5. CASE Deliver
      BY <2>5, <3>5 DEF Deliver, Emptying, AvailNow, Typed, TypeOK
    <3>6. CASE Activate
      BY <2>5, <3>6 DEF Activate, Emptying, AvailNow
    <3>7. QED
      BY <1>4, <2>5, <3>1, <3>2, <3>3, <3>4, <3>5, <3>6 DEF RecvStep
  <2>6. QED
    BY <2>1, <2>2, <2>5 DEF NoticeInv
<1>5. CASE UNCHANGED vars
  BY <1>5 DEF vars, NoticeInv, Announced, Announcing, Emptying, AvailNow
<1>6. QED
  BY <1>1, <1>2, <1>3, <1>4, <1>5 DEF Next

\* No notification is lost, however many senders notify over each other and
\* however the drain overlaps them: bytes the handler leaves behind have an
\* interrupt pending or a sender about to raise it.
THEOREM NoLostNotification == Spec => []PendingIsAnnounced
<1>1. NoticeInv => PendingIsAnnounced
  BY DEF NoticeInv, Emptying, Announced, PendingIsAnnounced
<1>2. Spec => []NoticeInv
  BY NoticeInit, NoticeStep, TypedHolds, PTL DEF Spec
<1>3. QED
  BY <1>1, <1>2, PTL

(***************************************************************************)
(* Order and integrity of the bytes, with one sender and one load of        *)
(* writeIdx per iccq_avail                                                  *)
(***************************************************************************)

\* The pipe to the CM4 in the Release build: only the UART handler sends.
OneSender == \A s, t \in Senders : s = t
OneLoad == ~Rereads

Stock == pushed - popped
Wrap(i) == IF i >= Length THEN i - Length ELSE i
AvailThen == Avail(above, seen, readIdx)

\* Where the indices stand, what the ring holds between them, how far a push
\* has come, and that the handler never counts more than there is.
QueueInv ==
    /\ InRing   :: Stock \in 0..Length - 1 /\ writeIdx = Wrap(readIdx + Stock)
    /\ InOrder  :: \A k \in 1..Stock : elements[Wrap(readIdx + k - 1)] = popped + k
    /\ HasRoom  :: \A s \in Senders : spc[s] \in {"copy", "load", "store"}
                                          => Stock + 1 < Length
    /\ Copied   :: \A s \in Senders : spc[s] \in {"load", "store"}
                                          => elements[writeIdx] = pushed + 1
    /\ Advanced :: \A s \in Senders : spc[s] = "store"
                                          => newIdx[s] = NextIdx(writeIdx)
    /\ SeenLow  :: rpc \in {"count", "popAdvance"} =>
                       above = (seen < readIdx) /\ AvailThen <= Stock
    /\ SeenSome :: rpc = "popAdvance" => AvailThen > 0
    /\ LoopLow  :: rpc \in {"top", "popCompare", "popAdvance"} => avail <= Stock
    /\ LoopEnd  :: rpc = "deliver" => avail - 1 <= Stock
    /\ TopTaken :: rpc \in {"popCompare", "popAdvance"} => c = popped + 1

LEMMA StockIsAvail ==
    ASSUME TypeOK, Stock \in 0..Length - 1, writeIdx = Wrap(readIdx + Stock)
    PROVE  AvailNow = Stock
<1>1. readIdx \in Slots /\ writeIdx \in Slots
  BY DEF TypeOK
<1>2. AvailNow = IF writeIdx >= readIdx THEN writeIdx - readIdx
                                        ELSE writeIdx - readIdx + Length
  BY <1>1, UndisturbedAvail DEF AvailNow
<1>3. QED
  BY <1>1, <1>2, LengthAssumption DEF Wrap

LEMMA QueueInit == Init => QueueInv
BY LengthAssumption DEF Init, QueueInv, Stock, Wrap

LEMMA QueueStep == OneSender /\ OneLoad /\ Typed /\ QueueInv /\ [Next]_vars => QueueInv'
<1> SUFFICES ASSUME OneSender, OneLoad, Typed, QueueInv, [Next]_vars PROVE QueueInv'
  OBVIOUS
<1> USE LengthAssumption
<1> USE DEF queueVars, sendVars, recvVars, hsemVars, gateVars
<1>0. /\ readIdx \in Slots /\ writeIdx \in Slots /\ seen \in Slots
      /\ spc \in [Senders -> SendPCs] /\ newIdx \in [Senders -> Slots]
      /\ elements \in [Slots -> Nat] /\ above \in BOOLEAN
      /\ avail \in Nat /\ pushed \in Nat /\ popped \in Nat
  BY ModulusAssumption DEF Typed, TypeOK
<1>00. AvailThen \in Nat
  <2>1. Avail(above, seen, readIdx) \in 0..Modulus - 1
    BY <1>0, AvailIsUnsigned, Zenon
  <2>2. QED
    BY <2>1, ModulusAssumption DEF AvailThen
<1>000. /\ Stock \in 0..Length - 1 /\ writeIdx = Wrap(readIdx + Stock)
        /\ \A k \in 1..Stock : elements[Wrap(readIdx + k - 1)] = popped + k
  BY DEF QueueInv
<1>1. CASE OpenPipe \/ CliStarts
  BY <1>1 DEF OpenPipe, CliStarts, QueueInv, Stock, AvailThen
<1>2. ASSUME NEW s \in Senders, SendStep(s) PROVE QueueInv'
  <2>0. \A t \in Senders : t = s
    BY DEF OneSender
  <2>1. CASE PushCheck(s)
    <3>1. NextIdx(writeIdx) # readIdx => Stock + 1 < Length
      BY <1>0, <1>000 DEF Wrap
    <3>2. QED
      BY <1>0, <2>0, <2>1, <3>1 DEF PushCheck, QueueInv, Stock, AvailThen
  <2>2. CASE PushCopy(s)
    <3>1. Stock + 1 < Length
      BY <2>2 DEF PushCopy, QueueInv
    <3>2. \A k \in 1..Stock : Wrap(readIdx + k - 1) # writeIdx
      BY <1>0, <1>000, <3>1 DEF Wrap
    <3>3. \A k \in 1..Stock : Wrap(readIdx + k - 1) \in Slots
      BY <1>0, <1>000 DEF Wrap
    <3>4. elements' = [elements EXCEPT ![writeIdx] = pushed + 1]
      BY <2>2 DEF PushCopy
    <3>5. \A k \in 1..Stock : elements'[Wrap(readIdx + k - 1)] = popped + k
      BY <1>0, <1>000, <3>2, <3>3, <3>4
    <3>6. elements'[writeIdx] = pushed + 1
      BY <1>0, <3>4
    <3>7. QED
      BY <1>0, <2>0, <2>2, <3>1, <3>5, <3>6 DEF PushCopy, QueueInv, Stock, AvailThen
  <2>3. CASE PushLoad(s)
    BY <1>0, <2>0, <2>3 DEF PushLoad, QueueInv, Stock, AvailThen
  <2>4. CASE PushStore(s)
    <3>1. /\ Stock + 1 < Length /\ elements[writeIdx] = pushed + 1
          /\ newIdx[s] = NextIdx(writeIdx)
      BY <2>4 DEF PushStore, QueueInv
    <3>2. /\ Stock' = Stock + 1 /\ elements' = elements /\ readIdx' = readIdx
          /\ popped' = popped /\ writeIdx' = NextIdx(writeIdx) /\ rpc' = rpc
          /\ above' = above /\ seen' = seen /\ avail' = avail /\ c' = c
      BY <1>0, <2>4, <3>1 DEF PushStore, Stock
    <3>3. Stock' \in 0..Length - 1 /\ writeIdx' = Wrap(readIdx' + Stock')
      BY <1>0, <1>000, <3>1, <3>2 DEF Wrap
    <3>4. ASSUME NEW k \in 1..Stock + 1
          PROVE  elements[Wrap(readIdx + k - 1)] = popped + k
      <4>1. CASE k <= Stock
        BY <1>000, <4>1
      <4>2. CASE k = Stock + 1
        BY <1>0, <1>000, <3>1, <4>2 DEF Stock
      <4>3. QED
        BY <1>000, <4>1, <4>2
    <3>5. \A k \in 1..Stock' : elements'[Wrap(readIdx' + k - 1)] = popped' + k
      BY <3>2, <3>4
    <3>6. \A t \in Senders : spc'[t] \notin {"copy", "load", "store"}
      BY <1>0, <2>0, <2>4 DEF PushStore
    <3>7. AvailThen' = AvailThen /\ Stock <= Stock'
      BY <1>000, <3>2 DEF AvailThen
    <3>8. \A x \in Int : x <= Stock => x <= Stock'
      BY <1>000, <3>2
    <3>9. /\ rpc' \in {"count", "popAdvance"} =>
                 above' = (seen' < readIdx') /\ AvailThen' <= Stock'
          /\ rpc' = "popAdvance" => AvailThen' > 0
          /\ rpc' \in {"top", "popCompare", "popAdvance"} => avail' <= Stock'
          /\ rpc' = "deliver" => avail' - 1 <= Stock'
          /\ rpc' \in {"popCompare", "popAdvance"} => c' = popped' + 1
      <4>1. /\ rpc \in {"count", "popAdvance"} =>
                 above = (seen < readIdx) /\ AvailThen <= Stock
            /\ rpc = "popAdvance" => AvailThen > 0
            /\ rpc \in {"top", "popCompare", "popAdvance"} => avail <= Stock
            /\ rpc = "deliver" => avail - 1 <= Stock
            /\ rpc \in {"popCompare", "popAdvance"} => c = popped + 1
        BY DEF QueueInv
      <4>2. avail \in Int /\ avail - 1 \in Int /\ AvailThen \in Int
        BY <1>0, <1>00
      <4>3. QED
        BY <3>2, <3>7, <3>8, <4>1, <4>2
    <3>10. QED
      BY <3>3, <3>5, <3>6, <3>9 DEF QueueInv
  <2>5. CASE NotifyTake(s)
    BY <1>0, <2>0, <2>5 DEF NotifyTake, QueueInv, Stock, AvailThen
  <2>6. CASE NotifyRelease(s)
    BY <1>0, <2>0, <2>6 DEF NotifyRelease, QueueInv, Stock, AvailThen
  <2>7. QED
    BY <1>2, <2>1, <2>2, <2>3, <2>4, <2>5, <2>6 DEF SendStep
<1>3. ASSUME NEW s \in Senders, NEW n \in 1..MaxWrite, Write(s, n) PROVE QueueInv'
  BY <1>0, <1>3 DEF Write, QueueInv, Stock, AvailThen
<1>4. CASE RecvStep
  <2>0. AvailSeen = AvailThen
    BY DEF OneLoad, AvailSeen, AvailThen
  <2>1. CASE Irq
    BY <2>1 DEF Irq, QueueInv, Stock, AvailThen
  <2>2. CASE Compare
    <3>1. AvailThen' = Stock
      BY <2>2, <1>000, StockIsAvail DEF Compare, AvailThen, AvailNow, Typed
    <3>2. above' = (seen' < readIdx)
      BY <2>2 DEF Compare
    <3>3. rpc = "popCompare" => Stock > 0
      BY <1>0, <1>000 DEF QueueInv, Typed, LoopOpen
    <3>4. QED
      BY <1>0, <1>000, <2>2, <3>1, <3>2, <3>3 DEF Compare, QueueInv, Stock
  <2>3. CASE Count
    BY <2>0, <2>3 DEF Count, QueueInv, Stock, AvailThen
  <2>4. CASE Top
    <3>1. Stock > 0
      BY <1>0, <1>000, <2>4 DEF Top, QueueInv, Typed, LoopOpen
    <3>2. c' = popped + 1
      <4>1. elements[Wrap(readIdx + 1 - 1)] = popped + 1
        BY <1>000, <3>1
      <4>2. QED
        BY <1>0, <2>4, <4>1 DEF Top, Wrap
    <3>3. QED
      BY <2>4, <3>2 DEF Top, QueueInv, Stock, AvailThen
  <2>5. CASE PopAdvance
    <3>1. AvailThen > 0 /\ AvailThen <= Stock /\ avail <= Stock
      BY <2>5 DEF PopAdvance, QueueInv
    <3>2. /\ readIdx' = NextIdx(readIdx) /\ popped' = popped + 1 /\ Stock' = Stock - 1
          /\ writeIdx' = writeIdx /\ elements' = elements /\ pushed' = pushed
          /\ spc' = spc /\ newIdx' = newIdx /\ rpc' = "deliver" /\ avail' = avail
      BY <1>0, <2>0, <2>5, <3>1 DEF PopAdvance, Stock
    <3>3. Stock' \in 0..Length - 1 /\ writeIdx' = Wrap(readIdx' + Stock')
      BY <1>0, <1>00, <1>000, <3>1, <3>2 DEF Wrap
    <3>4. ASSUME NEW k \in 1..Stock - 1
          PROVE  elements[Wrap(readIdx' + k - 1)] = popped' + k
      <4> DEFINE j == k + 1
      <4>1. j \in 1..Stock /\ Wrap(readIdx + j - 1) = Wrap(readIdx' + k - 1)
        BY <1>0, <1>000, <3>2 DEF Wrap
      <4>2. popped + j = popped' + k
        BY <1>0, <3>2
      <4> HIDE DEF j
      <4>3. QED
        BY <1>000, <4>1, <4>2
    <3>5. \A k \in 1..Stock' : elements'[Wrap(readIdx' + k - 1)] = popped' + k
      BY <3>2, <3>4
    <3>6. \A s \in Senders : spc'[s] \in {"copy", "load", "store"} => Stock' + 1 < Length
      <4>1. \A s \in Senders : spc[s] \in {"copy", "load", "store"} => Stock + 1 < Length
        BY DEF QueueInv
      <4>2. Stock + 1 < Length => Stock - 1 + 1 < Length
        BY <1>000
      <4>3. QED
        BY <3>2, <4>1, <4>2
    <3>7. avail' - 1 <= Stock'
      BY <1>0, <1>000, <3>1, <3>2
    <3>8. QED
      BY <3>2, <3>3, <3>5, <3>6, <3>7 DEF QueueInv
  <2>6. CASE Deliver
    BY <1>0, <2>6 DEF Deliver, QueueInv, Stock, AvailThen
  <2>7. CASE Activate
    BY <2>7 DEF Activate, QueueInv, Stock, AvailThen
  <2>8. QED
    BY <1>4, <2>1, <2>2, <2>3, <2>4, <2>5, <2>6, <2>7 DEF RecvStep
<1>5. CASE UNCHANGED vars
  BY <1>5 DEF vars, QueueInv, Stock, AvailThen
<1>6. QED
  BY <1>1, <1>2, <1>3, <1>4, <1>5 DEF Next

LEMMA QueueInvHolds == OneSender /\ OneLoad /\ Spec => []QueueInv
<1> SUFFICES ASSUME OneSender, OneLoad PROVE Spec => []QueueInv
  OBVIOUS
<1>1. Typed /\ QueueInv /\ [Next]_vars => QueueInv'
  BY QueueStep
<1>2. QED
  BY <1>1, QueueInit, TypedHolds, PTL DEF Spec

\* With one sender every push that succeeds has stored its element.
THEOREM NoLostPush == OneSender /\ OneLoad /\ Spec => []PushedIsStored
<1>1. Typed /\ QueueInv => PushedIsStored
  BY StockIsAvail DEF Typed, QueueInv, PushedIsStored, Stock
<1>2. QED
  BY <1>1, QueueInvHolds, TypedHolds, PTL

\* With one sender the other core gets the bytes each once and in order, and no
\* iteration of the drain loop finds the ring empty.
THEOREM DrainIsRight == OneSender /\ OneLoad /\ Spec => []DrainRight
<1>1. QueueInv => ReceivedInOrder
  BY DEF QueueInv, ReceivedInOrder
<1>2. QueueInv => LoopFindsElements
  BY DEF QueueInv, LoopFindsElements, Stock
<1>3. QueueInv => DrainRight
  BY <1>1, <1>2 DEF DrainRight
<1>4. QED
  BY <1>3, QueueInvHolds, PTL

(***************************************************************************)
(* The channel                                                             *)
(***************************************************************************)

\* The n numbers after m: what the ring holds, as the stream has it.
Run(m, n) == [k \in 1..n |-> m + k]

\* The content of the channel, and the character handed over.
Content == [k \in 1..AvailNow |-> elements[(readIdx + k - 1) % Length]]
Out == IF rpc = "deliver" THEN <<c>> ELSE <<>>

\* A byte put behind a run continues it.
LEMMA RunGrows ==
    ASSUME NEW m \in Nat, NEW n \in Nat
    PROVE  /\ Len(Run(m, n)) = n
           /\ Run(m, n) \o [k \in 1..1 |-> m + n + 1 + k - 1] = Run(m, n + 1)
<1>1. Run(m, n) \in Seq(Nat) /\ Len(Run(m, n)) = n
  BY DEF Run
<1>2. [k \in 1..1 |-> m + n + 1 + k - 1] = <<m + n + 1>>
  OBVIOUS
<1>3. Run(m, n) \o <<m + n + 1>> = Run(m, n + 1)
  BY <1>1 DEF Run
<1>4. QED
  BY <1>1, <1>2, <1>3

\* A byte taken from a run is its first, and leaves the rest of it.
LEMMA RunShrinks ==
    ASSUME NEW m \in Nat, NEW n \in Nat, 0 < n
    PROVE  /\ SubSeq(Run(m, n), 1, 1) = <<m + 1>>
           /\ SubSeq(Run(m, n), 2, Len(Run(m, n))) = Run(m + 1, n - 1)
<1>1. Run(m, n) \in Seq(Nat) /\ Len(Run(m, n)) = n
  BY DEF Run
<1>2. SubSeq(Run(m, n), 1, 1) = <<m + 1>>
  <2>1. Run(m, n)[1] = m + 1
    BY DEF Run
  <2>2. SubSeq(Run(m, n), 1, 1) = [k \in 1..1 |-> m + k]
    BY <1>1 DEF Run
  <2>3. [k \in 1..1 |-> m + k] = <<m + 1>>
    OBVIOUS
  <2>4. QED
    BY <2>2, <2>3
<1>3. SubSeq(Run(m, n), 2, n) = Run(m + 1, n - 1)
  BY <1>1 DEF Run
<1>4. QED
  BY <1>1, <1>2, <1>3

\* The indices are slots, so the remainder only takes them round the ring once.
LEMMA WrapIsMod == ASSUME NEW i \in 0..2 * Length - 1 PROVE i % Length = Wrap(i)
BY LengthAssumption DEF Wrap

\* What the ring holds are the bytes pushed and not popped, in order.
ContentInv == Content = Run(popped, Stock)

LEMMA ContentIsRun == Typed /\ QueueInv => ContentInv
<1> SUFFICES ASSUME Typed, QueueInv PROVE Content = Run(popped, Stock)
  BY DEF ContentInv
<1> USE LengthAssumption
<1>1. /\ Stock \in 0..Length - 1 /\ writeIdx = Wrap(readIdx + Stock)
      /\ \A k \in 1..Stock : elements[Wrap(readIdx + k - 1)] = popped + k
  BY DEF QueueInv
<1>2. TypeOK /\ readIdx \in Slots
  BY DEF Typed, TypeOK
<1>3. AvailNow = Stock
  BY <1>1, <1>2, StockIsAvail
<1>4. ASSUME NEW k \in 1..Stock PROVE elements[(readIdx + k - 1) % Length] = popped + k
  <2>1. readIdx + k - 1 \in 0..2 * Length - 1
    BY <1>1, <1>2
  <2>2. (readIdx + k - 1) % Length = Wrap(readIdx + k - 1)
    BY <2>1, WrapIsMod
  <2>3. QED
    BY <1>1, <2>2
<1>5. QED
  BY <1>3, <1>4 DEF Content, Run

\* What the channel's steps say of this.
LEMMA ChannelSteps ==
    ASSUME \/ /\ Len(Content) + 1 < Length
              /\ Content' = Content \o [k \in 1..1 |-> pushed + 1 + k - 1]
              /\ pushed' + 1 = pushed + 1 + 1 /\ Out' = Out
           \/ /\ 1 <= Len(Content) /\ Out' = SubSeq(Content, 1, 1)
              /\ Content' = SubSeq(Content, 1 + 1, Len(Content)) /\ pushed' = pushed
           \/ Out' = <<>> /\ Content' = Content /\ pushed' = pushed
           \/ Out' = Out /\ Content' = Content /\ pushed' = pushed
    PROVE  [Channel!Next]_Channel!absVars
<1>1. CASE /\ Len(Content) + 1 < Length
           /\ Content' = Content \o [k \in 1..1 |-> pushed + 1 + k - 1]
           /\ pushed' + 1 = pushed + 1 + 1 /\ Out' = Out
  <2>1. Channel!Put(1)
    BY <1>1, Zenon DEF Channel!Put, Content, Out
  <2>2. QED
    BY <2>1 DEF Channel!Next
<1>2. CASE /\ 1 <= Len(Content) /\ Out' = SubSeq(Content, 1, 1)
           /\ Content' = SubSeq(Content, 1 + 1, Len(Content)) /\ pushed' = pushed
  <2>1. Channel!Take(1)
    BY <1>2, Zenon DEF Channel!Take, Content, Out
  <2>2. QED
    BY <2>1 DEF Channel!Next
<1>3. CASE Out' = <<>> /\ Content' = Content /\ pushed' = pushed
  <2>1. Channel!Done
    BY <1>3, Zenon DEF Channel!Done, Content, Out
  <2>2. QED
    BY <2>1, Zenon DEF Channel!Next
<1>4. CASE Out' = Out /\ Content' = Content /\ pushed' = pushed
  <2>1. UNCHANGED Channel!absVars
    BY <1>4, Zenon DEF Channel!absVars, Content, Out
  <2>2. QED
    BY <2>1, Zenon
<1>5. QED
  BY <1>1, <1>2, <1>3, <1>4, Zenon

\* A step of the cores moves the run on at one end, or leaves it alone.
LEMMA StepsOfChannel ==
    OneSender /\ OneLoad /\ Typed /\ QueueInv /\ ContentInv /\ ContentInv' /\ [Next]_vars
        => [Channel!Next]_Channel!absVars
<1> SUFFICES ASSUME OneSender, OneLoad, Typed, QueueInv, ContentInv, ContentInv', [Next]_vars
             PROVE  [Channel!Next]_Channel!absVars
  OBVIOUS
<1> USE DEF queueVars, sendVars, recvVars, hsemVars, gateVars
<1>0. pushed \in Nat /\ popped \in Nat /\ Stock \in Nat /\ pushed = popped + Stock
  <2>1. pushed \in Nat /\ popped \in Nat
    BY DEF Typed, TypeOK
  <2>2. Stock \in 0..Length - 1
    BY DEF QueueInv
  <2>3. QED
    BY <2>1, <2>2, LengthAssumption DEF Stock
<1>1. Content = Run(popped, Stock) /\ Content' = Run(popped', Stock')
  BY Zenon DEF ContentInv
<1>2. CASE /\ pushed' = pushed /\ popped' = popped
           /\ \/ rpc # "deliver" /\ rpc' # "deliver"
              \/ rpc' = rpc /\ c' = c
  <2>1. Content' = Content
    BY <1>1, <1>2 DEF Stock
  <2>2. Out' = Out
    BY <1>2 DEF Out
  <2>3. QED
    BY <1>2, <2>1, <2>2, ChannelSteps
<1>3. CASE OpenPipe \/ CliStarts \/ UNCHANGED vars
  BY <1>2, <1>3 DEF OpenPipe, CliStarts, vars
<1>4. ASSUME NEW s \in Senders, SendStep(s) PROVE [Channel!Next]_Channel!absVars
  <2>1. CASE PushStore(s)
    <3>1. Stock + 1 < Length
      BY <2>1 DEF PushStore, QueueInv
    <3>2. pushed' = pushed + 1 /\ popped' = popped /\ Out' = Out
      BY <2>1 DEF PushStore, Out
    <3>3. Stock' = Stock + 1
      BY <1>0, <3>2 DEF Stock
    <3>4. /\ Len(Content) = Stock
          /\ Content' = Content \o [k \in 1..1 |-> popped + Stock + 1 + k - 1]
      BY <1>0, <1>1, <3>2, <3>3, RunGrows
    <3>5. Content' = Content \o [k \in 1..1 |-> pushed + 1 + k - 1]
      BY <1>0, <3>4
    <3>6. QED
      BY <1>0, <3>1, <3>2, <3>4, <3>5, ChannelSteps
  <2>2. CASE PushCheck(s) \/ PushCopy(s) \/ PushLoad(s) \/ NotifyTake(s) \/ NotifyRelease(s)
    BY <1>2, <2>2 DEF PushCheck, PushCopy, PushLoad, NotifyTake, NotifyRelease
  <2>3. QED
    BY <1>4, <2>1, <2>2 DEF SendStep
<1>5. ASSUME NEW s \in Senders, NEW n \in 1..MaxWrite, Write(s, n)
      PROVE  [Channel!Next]_Channel!absVars
  BY <1>2, <1>5 DEF Write
<1>6. CASE Irq \/ Compare \/ Count \/ Top \/ Activate
  BY <1>2, <1>6 DEF Irq, Compare, Count, Top, Activate
<1>7. CASE PopAdvance
  <2>0. AvailSeen = AvailThen
    BY DEF OneLoad, AvailSeen, AvailThen
  <2>1. AvailThen > 0 /\ AvailThen <= Stock /\ c = popped + 1
    BY <1>7 DEF PopAdvance, QueueInv
  <2>2. /\ popped' = popped + 1 /\ pushed' = pushed /\ Out' = <<popped + 1>>
    BY <1>7, <2>0, <2>1 DEF PopAdvance, Out
  <2>3. Stock > 0
    <3>1. AvailThen \in Int
      <4>1. above \in BOOLEAN /\ seen \in Slots /\ readIdx \in Slots
        BY DEF Typed, TypeOK
      <4>2. Avail(above, seen, readIdx) \in 0..Modulus - 1
        BY <4>1, AvailIsUnsigned, Zenon
      <4>3. QED
        BY <4>2, ModulusAssumption DEF AvailThen
    <3>2. QED
      BY <1>0, <2>1, <3>1
  <2>4. Stock' = Stock - 1
    BY <1>0, <2>2 DEF Stock
  <2>5. /\ Len(Content) = Stock /\ SubSeq(Content, 1, 1) = <<popped + 1>>
        /\ SubSeq(Content, 1 + 1, Len(Content)) = Content'
    <3>1. Len(Run(popped, Stock)) = Stock
      BY <1>0, RunGrows
    <3>2. /\ SubSeq(Run(popped, Stock), 1, 1) = <<popped + 1>>
          /\ SubSeq(Run(popped, Stock), 2, Len(Run(popped, Stock))) = Run(popped + 1, Stock - 1)
      BY <1>0, <2>3, RunShrinks
    <3>3. Content' = Run(popped + 1, Stock - 1)
      BY <1>1, <2>2, <2>4, Zenon
    <3>4. 1 + 1 = 2
      OBVIOUS
    <3>5. SubSeq(Content, 1 + 1, Len(Content)) = SubSeq(Run(popped, Stock), 2, Len(Run(popped, Stock)))
      BY <1>1, <3>4, Zenon
    <3>6. QED
      BY <1>1, <3>1, <3>2, <3>3, <3>5, Zenon
  <2>6. 1 <= Len(Content)
    BY <1>0, <2>3, <2>5
  <2>7. QED
    BY <2>2, <2>5, <2>6, ChannelSteps, Zenon
<1>8. CASE Deliver
  <2>1. pushed' = pushed /\ popped' = popped /\ Out' = <<>>
    BY <1>8 DEF Deliver, Out
  <2>2. Content' = Content
    BY <1>1, <2>1 DEF Stock
  <2>3. QED
    BY <2>1, <2>2, ChannelSteps
<1>9. QED
  BY <1>3, <1>4, <1>5, <1>6, <1>7, <1>8, Zenon DEF Next, RecvStep

\* With one sender the ring is a first-in first-out channel that is never
\* overrun, whatever its length, the lengths of the writes and the timing.
THEOREM PipeIsChannel == OneSender /\ OneLoad /\ Spec => ImplementsChannel
<1> SUFFICES ASSUME OneSender, OneLoad PROVE Spec => ImplementsChannel
  OBVIOUS
<1>1. Init => Channel!Init
  <2>1. ASSUME Init PROVE AvailNow = 0 /\ rpc = "idle" /\ pushed = 0
    BY <2>1 DEF Init, AvailNow, Avail
  <2>2. QED
    BY <2>1 DEF Channel!Init
<1>2. Typed /\ QueueInv /\ ContentInv /\ ContentInv' /\ [Next]_vars
          => [Channel!Next]_Channel!absVars
  BY StepsOfChannel
<1>3. QED
  BY <1>1, <1>2, ContentIsRun, QueueInvHolds, TypedHolds, PTL DEF Spec, ImplementsChannel, Channel!Spec
=============================================================================
