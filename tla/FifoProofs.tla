----------------------------- MODULE FifoProofs -----------------------------
(***************************************************************************)
(* Proofs about the blocking FIFO for every ring size, every length of read *)
(* and push and any number of bytes, up to its being a channel; and about   *)
(* the serial thread as its consumer: all that is proved of the FIFO holds  *)
(* of it, the handshake with the DMA, and the order of bytes on the wire.   *)
(***************************************************************************)
EXTENDS SerialOutput, TLAPS

USE DEF Slots, Least, Wrap, Ahead

(***************************************************************************)
(* Operators: bounds of the used size, whatever the outcome of the torn     *)
(* comparison, and its value when nothing moves.                            *)
(***************************************************************************)

\* bfifo_get_used of any two slots is an unsigned number, torn or not.
LEMMA UsedIsUnsigned ==
    ASSUME NEW above \in BOOLEAN, NEW w \in Slots, NEW r \in Slots
    PROVE  Used(above, w, r) \in 0..Modulus - 1
BY SizeAssumption, ModulusAssumption DEF Used, USub

\* The free size derived from it is unsigned too.
LEMMA FreeIsUnsigned ==
    ASSUME NEW above \in BOOLEAN, NEW w \in Slots, NEW r \in Slots
    PROVE  USub(Size, Used(above, w, r)) \in Nat
BY UsedIsUnsigned, SizeAssumption, ModulusAssumption DEF USub

\* Undisturbed, bfifo_get_used is the distance from readIdx to writeIdx, so
\* it is below the size of the ring and bfifo_get_free is positive: a full
\* ring cannot be told from an empty one.
LEMMA UndisturbedUsed ==
    ASSUME NEW w \in Slots, NEW r \in Slots
    PROVE  /\ Used(r > w, w, r) = Ahead(r, w)
           /\ Used(r > w, w, r) \in 0..Size - 1
           /\ USub(Size, Used(r > w, w, r)) \in 1..Size
BY SizeAssumption DEF Used, USub

(***************************************************************************)
(* Types                                                                   *)
(***************************************************************************)

\* The indices stay inside the ring and every field keeps its type, through
\* any interleaving of pushes, interrupts, reads and pops.
THEOREM TypeCorrect == Spec => []TypeOK
<1> USE SizeAssumption, CallAssumption
<1>1. Init => TypeOK
  <2> SUFFICES ASSUME Init PROVE TypeOK
    OBVIOUS
  <2>1. mem \in [Slots -> Nat] /\ buf \in [1..MaxRead -> Nat]
    BY DEF Init
  <2>2. /\ readIdx \in Slots /\ writeIdx \in Slots /\ cW \in Slots
        /\ req \in 0..MaxPush /\ pSize \in 0..MaxPush /\ cSize \in 0..MaxRead
    BY DEF Init
  <2>3. QED
    BY <2>1, <2>2 DEF Init, TypeOK, PushPCs, ConsPCs
<1>2. TypeOK /\ [Next]_vars => TypeOK'
  <2> SUFFICES ASSUME TypeOK, [Next]_vars PROVE TypeOK'
    OBVIOUS
  <2> USE DEF TypeOK, PushPCs, ConsPCs, fifoVars, pushVars, consVars, histVars
  <2>1. CASE OpenPipe
    BY <2>1 DEF OpenPipe
  <2>2. ASSUME NEW n \in 1..MaxPush, PushCall(n) PROVE TypeOK'
    BY <2>2 DEF PushCall
  <2>3. CASE PushStep
    <3>1. CASE PushAcquire
      BY <3>1 DEF PushAcquire
    <3>2. CASE PushCompare
      BY <3>2 DEF PushCompare
    <3>3. CASE PushSize
      <4>1. USub(Size, Used(pAbove, writeIdx, readIdx)) \in Nat
        BY FreeIsUnsigned, Zenon
      <4>2. QED
        BY <3>3, <4>1 DEF PushSize
    <3>4. CASE PushCopy
      <4>1. Stored(pSize) \in [Slots -> Nat]
        BY DEF Stored
      <4>2. QED
        BY <3>4, <4>1 DEF PushCopy, Fills
    <3>5. CASE PushPublish
      BY <3>5 DEF PushPublish
    <3>6. CASE PushReleaseWrite
      BY <3>6 DEF PushReleaseWrite
    <3>7. CASE PushReleaseRead
      BY <3>7 DEF PushReleaseRead
    <3>8. QED
      BY <2>3, <3>1, <3>2, <3>3, <3>4, <3>5, <3>6, <3>7 DEF PushStep
  <2>4. CASE IsrPush
    <3> DEFINE n == Least(FreeNow, 1)
    <3>1. FreeNow \in 1..Size
      BY UndisturbedUsed DEF FreeNow, UsedNow
    <3>2. n = 1
      BY <3>1
    <3> HIDE DEF n
    <3>3. Stored(n) \in [Slots -> Nat]
      BY <3>2 DEF Stored
    <3>4. /\ mem' = Stored(n) /\ writeIdx' = Wrap(writeIdx + n) /\ pushed' = pushed + n
          /\ readSem' = 1 /\ writeSem' \in {1, writeSem}
          /\ UNCHANGED <<readIdx, pushVars, consVars, isrOn, popped>>
      BY <2>4 DEF IsrPush, n
    <3>5. overrun' \in BOOLEAN
      BY <2>4, Zenon DEF IsrPush
    <3>6. QED
      BY <3>2, <3>3, <3>4, <3>5
  <2>5. CASE ReadStep
    <3>1. CASE WaitAcquire
      BY <3>1 DEF WaitAcquire
    <3>2. CASE WaitRelease
      BY <3>2 DEF WaitRelease
    <3>3. CASE Compare
      BY <3>3 DEF Compare
    <3>4. UsedSeen \in Nat
      <4> DEFINE w == IF Rereads THEN writeIdx ELSE cW
      <4>1. w \in Slots /\ cAbove \in BOOLEAN /\ readIdx \in Slots
        OBVIOUS
      <4> HIDE DEF w
      <4>2. Used(cAbove, w, readIdx) \in 0..Modulus - 1
        BY <4>1, UsedIsUnsigned, Zenon
      <4>3. QED
        BY <4>2, ModulusAssumption DEF UsedSeen, w
    <3>5. CASE ReadSize
      BY <3>4, <3>5 DEF ReadSize
    <3>6. CASE ReadCopy
      BY <3>6 DEF ReadCopy
    <3>7. CASE PopAcquire
      BY <3>7 DEF PopAcquire
    <3>8. CASE PopAdvance
      BY <3>4, <3>8 DEF PopAdvance
    <3>9. CASE PopReleaseWrite
      BY <3>9 DEF PopReleaseWrite
    <3>10. CASE PopReleaseRead
      BY <3>10 DEF PopReleaseRead
    <3>11. QED
      BY <2>5, <3>1, <3>2, <3>3, <3>5, <3>6, <3>7, <3>8, <3>9, <3>10
         DEF ReadStep
  <2>6. CASE ConsumerLoop
    BY <2>6 DEF ConsumerLoop
  <2>7. CASE UNCHANGED vars
    BY <2>7 DEF vars
  <2>8. QED
    BY <2>1, <2>2, <2>3, <2>4, <2>5, <2>6, <2>7 DEF Next, FifoNext
<1>3. QED
  BY <1>1, <1>2, PTL DEF Spec

(***************************************************************************)
(* Semaphores                                                              *)
(***************************************************************************)

\* readSem is released, or the push that stored bytes is about to release it.
Woken == readSem = 1 \/ ppc \in {"compare2", "release", "wake"}

\* The three semaphore properties made inductive: what the last comparison of
\* bfifo_pop may conclude, and what the last comparison of bfifo_push may.
SemInv ==
    /\ WokenIdle   :: cpc \in {"done", "wait"} /\ UsedNow > 0 => Woken
    /\ WokenInPop  :: cpc = "popRelease" /\ UsedNow > 0 /\ UsedSeen = 0 => Woken
    /\ TokenHeld   :: cpc \in {"readCompare", "readSize", "readCopy", "popAcquire"}
                         => readSem = 1
    /\ WriterFree  :: ppc \in {"idle", "acquire", "wake"}
                         => writeSem = 1 \/ cpc = "popReleaseWrite"
    /\ WriterFull  :: ppc = "release" /\ USub(Size, Used(pAbove, writeIdx, readIdx)) = 0
                         => writeSem = 1 \/ cpc = "popReleaseWrite"
    /\ PushThenIsr :: isrOn => ppc = "idle"

LEMMA SemInvInit == Init => SemInv
<1> SUFFICES ASSUME Init PROVE SemInv
  OBVIOUS
<1>1. UsedNow = 0
  BY SizeAssumption DEF Init, UsedNow, Used, USub
<1>2. QED
  BY <1>1 DEF Init, SemInv

LEMMA SemInvStep == TypeOK /\ SemInv /\ [Next]_vars => SemInv'
<1> SUFFICES ASSUME TypeOK, SemInv, [Next]_vars PROVE SemInv'
  OBVIOUS
<1> USE DEF SemInv, Woken, fifoVars, pushVars, consVars, histVars
<1>0. UsedSeen \in Nat /\ UsedNow \in Nat
  <2> DEFINE w == IF Rereads THEN writeIdx ELSE cW
  <2>1. w \in Slots /\ cAbove \in BOOLEAN /\ readIdx \in Slots /\ writeIdx \in Slots
    BY DEF TypeOK
  <2> HIDE DEF w
  <2>2. Used(cAbove, w, readIdx) \in 0..Modulus - 1
    BY <2>1, UsedIsUnsigned, Zenon
  <2>3. QED
    BY <2>1, <2>2, ModulusAssumption, UndisturbedUsed DEF UsedSeen, UsedNow, w
<1>1. CASE OpenPipe
  BY <1>1 DEF OpenPipe, UsedNow, UsedSeen
<1>2. ASSUME NEW n \in 1..MaxPush, PushCall(n) PROVE SemInv'
  BY <1>2 DEF PushCall, UsedNow, UsedSeen
<1>3. CASE PushStep
  <2>1. CASE PushAcquire
    BY <2>1 DEF PushAcquire, UsedNow, UsedSeen
  <2>2. CASE PushCompare
    \* The comparison is fresh: only a later pop can make the ring look full.
    <3>1. USub(Size, Used(readIdx > writeIdx, writeIdx, readIdx)) # 0
      BY UndisturbedUsed DEF TypeOK
    <3>2. QED
      BY <2>2, <3>1 DEF PushCompare, UsedNow, UsedSeen
  <2>3. CASE PushSize
    BY <2>3 DEF PushSize, UsedNow, UsedSeen
  <2>4. CASE PushCopy
    BY <2>4 DEF PushCopy, UsedNow, UsedSeen
  <2>5. CASE PushPublish
    BY <2>5 DEF PushPublish
  <2>6. CASE PushReleaseWrite
    <3>1. USub(Size, Used(pAbove, writeIdx, readIdx)) \in Nat
      BY FreeIsUnsigned, Zenon DEF TypeOK
    <3>2. QED
      BY <2>6, <3>1 DEF PushReleaseWrite, UsedNow, UsedSeen, TypeOK
  <2>7. CASE PushReleaseRead
    BY <2>7 DEF PushReleaseRead, UsedNow, UsedSeen
  <2>8. QED
    BY <1>3, <2>1, <2>2, <2>3, <2>4, <2>5, <2>6, <2>7 DEF PushStep
<1>4. CASE IsrPush
  BY <1>4 DEF IsrPush
<1>5. CASE ReadStep
  <2>1. CASE WaitAcquire
    BY <2>1 DEF WaitAcquire
  <2>2. CASE WaitRelease
    BY <2>2 DEF WaitRelease
  <2>3. CASE Compare
    \* The comparison is fresh: the used size seen is the used size.
    <3>1. UsedSeen' = UsedNow'
      BY <2>3 DEF Compare, UsedSeen, UsedNow
    <3>2. UsedNow' = UsedNow
      BY <2>3 DEF Compare, UsedNow
    <3>3. QED
      BY <1>0, <2>3, <3>1, <3>2 DEF Compare, TypeOK
  <2>4. CASE ReadSize
    BY <2>4 DEF ReadSize, UsedNow, UsedSeen
  <2>5. CASE ReadCopy
    BY <2>5 DEF ReadCopy, UsedNow, UsedSeen
  <2>6. CASE PopAcquire
    BY <2>6 DEF PopAcquire, UsedNow, UsedSeen
  <2>7. CASE PopAdvance
    BY <2>7 DEF PopAdvance
  <2>8. CASE PopReleaseWrite
    BY <2>8 DEF PopReleaseWrite, UsedNow, UsedSeen
  <2>9. CASE PopReleaseRead
    BY <1>0, <2>9 DEF PopReleaseRead, UsedNow
  <2>10. QED
    BY <1>5, <2>1, <2>2, <2>3, <2>4, <2>5, <2>6, <2>7, <2>8, <2>9 DEF ReadStep
<1>6. CASE ConsumerLoop
  BY <1>6 DEF ConsumerLoop, UsedNow, UsedSeen
<1>7. CASE UNCHANGED vars
  BY <1>7 DEF vars, UsedNow, UsedSeen
<1>8. QED
  BY <1>1, <1>2, <1>3, <1>4, <1>5, <1>6, <1>7 DEF Next, FifoNext

LEMMA SemInvHolds == Spec => []SemInv
BY SemInvInit, SemInvStep, TypeCorrect, PTL DEF Spec

\* A consumer waiting while there are bytes is woken, bfifo_pop never waits and
\* never times out, and between two pushes the write semaphore is free, or a pop
\* is freeing it.
THEOREM SemaphoresAreRight == Spec => []SemaphoresRight
<1>1. SemInv => BytesWakeConsumer
  BY DEF SemInv, BytesWakeConsumer, Woken
<1>2. SemInv => PopFindsSemaphore
  BY DEF SemInv, PopFindsSemaphore
<1>3. SemInv => PusherNotLockedOut
  BY DEF SemInv, PusherNotLockedOut
<1>4. SemInv => SemaphoresRight
  BY <1>1, <1>2, <1>3 DEF SemaphoresRight
<1>5. QED
  BY <1>4, SemInvHolds, PTL

(***************************************************************************)
(* Order and integrity of the bytes, while no push has filled the ring      *)
(***************************************************************************)

\* Either the build loads writeIdx once per bfifo_get_used (Release), or the
\* consumer reads byte by byte (CLI input): otherwise the used size may be torn.
Untorn == Rereads => MaxRead = 1

Stock == pushed - popped

\* The used size as of the consumer's last comparison.
UsedThen == Used(cAbove, cW, readIdx)

\* Where the indices stand, what the ring holds between them, and what the
\* consumer knows: it may underestimate the stock, never overestimate it.
OrderInv ==
    ~overrun =>
    /\ StockInRing  :: Stock \in 0..Size - 1 /\ writeIdx = Wrap(readIdx + Stock)
    /\ RingInOrder  :: \A k \in 1..Stock : mem[Wrap(readIdx + k - 1)] = popped + k
    /\ CopyInOrder  :: ppc = "publish" =>
                         /\ Stock + pSize < Size
                         /\ \A k \in 1..pSize : mem[Wrap(writeIdx + k - 1)] = pushed + k
    /\ SeenIsLower  :: cpc \in {"readSize", "popAdvance"} =>
                         /\ cAbove = (readIdx > cW)
                         /\ UsedThen <= Stock
    /\ ReadIsStored :: cpc \in {"readCopy", "popAcquire", "popCompare", "popAdvance"}
                         => cSize <= Stock
    /\ PopSeesRead  :: cpc = "popAdvance" => cSize <= UsedThen
    /\ BufInOrder   :: cpc \in {"popAcquire", "popCompare", "popAdvance"} =>
                         \A k \in 1..cSize : buf[k] = popped + k

\* With the indices in step the used size is the stock.
LEMMA StockIsUsed ==
    ASSUME TypeOK, Stock \in 0..Size - 1, writeIdx = Wrap(readIdx + Stock)
    PROVE  UsedNow = Stock
<1>1. readIdx \in Slots /\ writeIdx \in Slots
  BY DEF TypeOK
<1>2. UsedNow = Ahead(readIdx, writeIdx)
  BY <1>1, UndisturbedUsed, Zenon DEF UsedNow
<1>3. QED
  BY <1>1, <1>2, SizeAssumption

\* What the consumer sees after its comparison: at most the stock, except
\* that a torn read may exceed it, and then there is at least one byte.
LEMMA SeenVersusStock ==
    ASSUME TypeOK, ~overrun, OrderInv, cpc \in {"readSize", "popAdvance"}
    PROVE  /\ UsedSeen \in Nat
           /\ UsedSeen >= UsedThen
           /\ ~Rereads => UsedSeen <= Stock
           /\ UsedSeen > 0 => Stock > 0
<1> USE SizeAssumption, ModulusAssumption
<1>1. /\ Stock \in 0..Size - 1 /\ writeIdx = Wrap(readIdx + Stock)
      /\ cAbove = (readIdx > cW) /\ UsedThen <= Stock
  BY DEF OrderInv
<1>2. cW \in Slots /\ readIdx \in Slots /\ writeIdx \in Slots
  BY DEF TypeOK
<1>3. CASE cAbove
  <2>1. readIdx > cW /\ UsedThen = cW + Size - readIdx
    BY <1>1, <1>2, <1>3 DEF UsedThen, Used, USub
  <2>2. readIdx + Stock >= Size
    BY <1>1, <1>2, <2>1
  <2>3. Used(cAbove, writeIdx, readIdx) = Stock
    BY <1>1, <1>2, <1>3, <2>2 DEF Used, USub
  <2>4. QED
    BY <1>1, <1>2, <2>1, <2>3 DEF UsedSeen, UsedThen
<1>4. CASE ~cAbove
  <2>1. readIdx <= cW /\ UsedThen = cW - readIdx
    BY <1>1, <1>2, <1>4 DEF UsedThen, Used, USub
  <2>2. Used(cAbove, writeIdx, readIdx) = USub(writeIdx, readIdx)
    BY <1>4 DEF Used
  <2>3. /\ USub(writeIdx, readIdx) \in Nat
        /\ USub(writeIdx, readIdx) >= Stock
        /\ USub(writeIdx, readIdx) > 0 => Stock > 0
    BY <1>1, <1>2 DEF USub
  <2>4. QED
    BY <1>1, <1>2, <2>1, <2>2, <2>3 DEF UsedSeen, UsedThen
<1>5. QED
  BY <1>3, <1>4 DEF TypeOK

\* Storing n bytes that leave a slot free touches none of the stored bytes.
LEMMA StoreKeepsRing ==
    ASSUME TypeOK, ~overrun, OrderInv, NEW n \in Nat, Stock + n < Size
    PROVE  /\ \A k \in 1..Stock : Stored(n)[Wrap(readIdx + k - 1)] = popped + k
           /\ \A k \in 1..n : Stored(n)[Wrap(writeIdx + k - 1)] = pushed + k
<1> USE SizeAssumption
<1>1. /\ Stock \in 0..Size - 1 /\ writeIdx = Wrap(readIdx + Stock)
      /\ \A k \in 1..Stock : mem[Wrap(readIdx + k - 1)] = popped + k
  BY DEF OrderInv
<1>2. readIdx \in Slots /\ writeIdx \in Slots /\ pushed \in Nat
  BY DEF TypeOK
<1>3. ASSUME NEW k \in 1..Stock
      PROVE  Stored(n)[Wrap(readIdx + k - 1)] = popped + k
  <2> DEFINE i == Wrap(readIdx + k - 1)
  <2>1. i \in Slots
    BY <1>1, <1>2
  <2>2. ~(Ahead(writeIdx, i) < n)
    BY <1>1, <1>2
  <2> HIDE DEF i
  <2>3. Stored(n)[i] = mem[i]
    BY <2>1, <2>2 DEF Stored
  <2>4. QED
    BY <1>1, <2>3 DEF i
<1>4. ASSUME NEW k \in 1..n
      PROVE  Stored(n)[Wrap(writeIdx + k - 1)] = pushed + k
  <2> DEFINE i == Wrap(writeIdx + k - 1)
  <2>1. i \in Slots
    BY <1>1, <1>2
  <2>2. Ahead(writeIdx, i) = k - 1
    BY <1>1, <1>2
  <2> HIDE DEF i
  <2>3. Stored(n)[i] = pushed + (k - 1) + 1
    BY <2>1, <2>2 DEF Stored
  <2>4. QED
    BY <1>2, <2>3 DEF i
<1>5. QED
  BY <1>3, <1>4

LEMMA OrderInvInit == Init => OrderInv
BY SizeAssumption DEF Init, OrderInv, Stock

LEMMA OrderInvStep ==
    Untorn /\ TypeOK /\ SemInv /\ OrderInv /\ [Next]_vars => OrderInv'
<1> SUFFICES ASSUME Untorn, TypeOK, SemInv, OrderInv, [Next]_vars, ~overrun'
             PROVE  OrderInv'
  BY DEF OrderInv
<1> USE SizeAssumption, CallAssumption
<1> USE DEF fifoVars, pushVars, consVars, histVars
<1>0. ~overrun
  BY DEF Next, FifoNext, PushStep, ReadStep, vars, OpenPipe, PushCall, PushAcquire,
         PushCompare, PushSize, PushCopy, PushPublish, PushReleaseWrite,
         PushReleaseRead, IsrPush, WaitAcquire, WaitRelease, Compare, ReadSize,
         ReadCopy, PopAcquire, PopAdvance, PopReleaseWrite, PopReleaseRead,
         ConsumerLoop
<1>00. UsedThen \in Nat /\ cSize \in Nat
  <2>1. cAbove \in BOOLEAN /\ cW \in Slots /\ readIdx \in Slots
    BY DEF TypeOK
  <2>2. Used(cAbove, cW, readIdx) \in 0..Modulus - 1
    BY <2>1, UsedIsUnsigned, Zenon
  <2>3. QED
    BY <2>2, ModulusAssumption DEF UsedThen, TypeOK
<1>1. CASE OpenPipe
  BY <1>0, <1>1 DEF OpenPipe, OrderInv, Stock, UsedThen
<1>2. ASSUME NEW n \in 1..MaxPush, PushCall(n) PROVE OrderInv'
  BY <1>0, <1>2 DEF PushCall, OrderInv, Stock, UsedThen
<1>3. CASE PushStep
  <2>1. CASE PushAcquire
    BY <1>0, <2>1 DEF PushAcquire, OrderInv, Stock, UsedThen
  <2>2. CASE PushCompare
    BY <1>0, <2>2 DEF PushCompare, OrderInv, Stock, UsedThen
  <2>3. CASE PushSize
    BY <1>0, <2>3 DEF PushSize, OrderInv, Stock, UsedThen
  <2>4. CASE PushCopy
    <3>1. Stock + pSize < Size
      <4>1. ~Fills(pSize)
        BY <2>4, Zenon DEF PushCopy
      <4>2. QED
        BY <4>1 DEF Fills, Stock, TypeOK
    <3>2. /\ \A k \in 1..Stock : mem'[Wrap(readIdx + k - 1)] = popped + k
          /\ \A k \in 1..pSize : mem'[Wrap(writeIdx + k - 1)] = pushed + k
      <4>1. pSize \in Nat /\ mem' = Stored(pSize)
        BY <2>4 DEF PushCopy, TypeOK
      <4>2. QED
        BY <1>0, <3>1, <4>1, StoreKeepsRing
    <3>3. QED
      BY <1>0, <2>4, <3>1, <3>2 DEF PushCopy, OrderInv, Stock, UsedThen
  <2>5. CASE PushPublish
    <3>1. /\ Stock \in 0..Size - 1 /\ writeIdx = Wrap(readIdx + Stock)
          /\ \A k \in 1..Stock : mem[Wrap(readIdx + k - 1)] = popped + k
          /\ Stock + pSize < Size
          /\ \A k \in 1..pSize : mem[Wrap(writeIdx + k - 1)] = pushed + k
      BY <1>0, <2>5 DEF PushPublish, OrderInv
    <3>2. /\ readIdx \in Slots /\ writeIdx \in Slots /\ pSize \in Nat
          /\ pushed \in Nat /\ popped \in Nat
      BY DEF TypeOK
    <3>3. Stock' = Stock + pSize /\ mem' = mem /\ readIdx' = readIdx /\ popped' = popped
      BY <2>5, <3>2 DEF PushPublish, Stock
    <3>4. Stock' \in 0..Size - 1 /\ writeIdx' = Wrap(readIdx + Stock')
      BY <2>5, <3>1, <3>2, <3>3 DEF PushPublish
    <3>5. ASSUME NEW k \in 1..Stock + pSize
          PROVE  mem[Wrap(readIdx + k - 1)] = popped + k
      <4>1. CASE k <= Stock
        BY <3>1, <4>1
      <4>2. CASE k > Stock
        <5> DEFINE j == k - Stock
        <5>1. j \in 1..pSize /\ Wrap(writeIdx + j - 1) = Wrap(readIdx + k - 1)
          BY <3>1, <3>2, <4>2
        <5>2. pushed + j = popped + k
          BY <3>1, <3>2 DEF Stock
        <5> HIDE DEF j
        <5>3. QED
          BY <3>1, <5>1, <5>2
      <4>3. QED
        BY <3>1, <4>1, <4>2
    <3>6. QED
      <4>1. /\ UsedThen' = UsedThen /\ ppc' = "compare2" /\ cpc' = cpc
            /\ cSize' = cSize /\ buf' = buf /\ cAbove' = cAbove /\ cW' = cW
            /\ Stock <= Stock'
        BY <2>5, <3>1, <3>2, <3>3 DEF PushPublish, UsedThen
      <4>2. \A k \in 1..Stock' : mem'[Wrap(readIdx' + k - 1)] = popped' + k
        BY <3>3, <3>5
      <4>3. QED
        BY <1>0, <1>00, <3>1, <3>3, <3>4, <4>1, <4>2 DEF OrderInv
  <2>6. CASE PushReleaseWrite
    BY <1>0, <2>6 DEF PushReleaseWrite, OrderInv, Stock, UsedThen
  <2>7. CASE PushReleaseRead
    BY <1>0, <2>7 DEF PushReleaseRead, OrderInv, Stock, UsedThen
  <2>8. QED
    BY <1>3, <2>1, <2>2, <2>3, <2>4, <2>5, <2>6, <2>7 DEF PushStep
<1>4. CASE IsrPush
  <2>1. /\ Stock \in 0..Size - 1 /\ writeIdx = Wrap(readIdx + Stock)
    BY <1>0 DEF OrderInv
  <2>2. /\ readIdx \in Slots /\ writeIdx \in Slots
        /\ pushed \in Nat /\ popped \in Nat
    BY DEF TypeOK
  <2>3. Least(FreeNow, 1) = 1
    BY <2>2, UndisturbedUsed DEF FreeNow, UsedNow
  <2>4. /\ mem' = Stored(1) /\ writeIdx' = Wrap(writeIdx + 1)
        /\ pushed' = pushed + 1 /\ Stock + 1 < Size
    <3>1. ~Fills(1) /\ mem' = Stored(1)
      BY <2>3, <1>4, Zenon DEF IsrPush
    <3>2. QED
      BY <2>2, <2>3, <1>4, <3>1 DEF IsrPush, Fills, Stock
  <2>5. /\ \A k \in 1..Stock : mem'[Wrap(readIdx + k - 1)] = popped + k
        /\ mem'[writeIdx] = pushed + 1
    <3>1. Stored(1)[Wrap(writeIdx + 1 - 1)] = pushed + 1
      BY <1>0, <2>4, StoreKeepsRing
    <3>2. QED
      BY <1>0, <2>2, <2>4, <3>1, StoreKeepsRing
  <2>6. Stock' = Stock + 1 /\ readIdx' = readIdx /\ popped' = popped
    BY <1>4, <2>2, <2>4 DEF IsrPush, Stock
  <2>7. Stock' \in 0..Size - 1 /\ writeIdx' = Wrap(readIdx + Stock')
    BY <2>1, <2>2, <2>4, <2>6
  <2>8. ASSUME NEW k \in 1..Stock + 1
        PROVE  mem'[Wrap(readIdx + k - 1)] = popped + k
    <3>1. CASE k <= Stock
      BY <2>1, <2>5, <3>1
    <3>2. CASE k = Stock + 1
      BY <2>1, <2>2, <2>5, <3>2 DEF Stock
    <3>3. QED
      BY <2>1, <3>1, <3>2
  <2>9. ppc = "idle"
    BY <1>4 DEF IsrPush, SemInv
  <2>10. QED
    <3>1. /\ UsedThen' = UsedThen /\ ppc' = "idle" /\ cpc' = cpc
          /\ cSize' = cSize /\ buf' = buf /\ cAbove' = cAbove /\ cW' = cW
          /\ Stock <= Stock'
      BY <1>4, <2>1, <2>6, <2>9 DEF IsrPush, UsedThen
    <3>2. \A k \in 1..Stock' : mem'[Wrap(readIdx' + k - 1)] = popped' + k
      BY <2>6, <2>8
    <3>3. QED
      BY <1>0, <1>00, <2>1, <2>6, <2>7, <3>1, <3>2 DEF OrderInv
<1>5. CASE ReadStep
  <2>0. /\ readIdx \in Slots /\ writeIdx \in Slots /\ pushed \in Nat
        /\ popped \in Nat /\ cSize \in 0..MaxRead
    BY DEF TypeOK
  <2>1. CASE WaitAcquire
    BY <1>0, <2>1 DEF WaitAcquire, OrderInv, Stock, UsedThen
  <2>2. CASE WaitRelease
    BY <1>0, <2>2 DEF WaitRelease, OrderInv, Stock, UsedThen
  <2>3. CASE Compare
    <3>1. UsedThen' = Stock
      BY <1>0, <2>3, StockIsUsed DEF Compare, UsedThen, UsedNow, OrderInv
    <3>2. cAbove' = (readIdx' > cW')
      BY <2>3 DEF Compare
    <3>3. /\ UNCHANGED <<mem, readIdx, writeIdx, ppc, pSize, cSize, buf, pushed, popped, overrun>>
          /\ cpc = "readCompare" => cpc' = "readSize"
          /\ cpc = "popCompare" => cpc' = "popAdvance"
          /\ cpc = "popCompare2" => cpc' = "popRelease"
          /\ cpc \in {"readCompare", "popCompare", "popCompare2"}
      BY <2>3 DEF Compare
    <3>4. Stock' = Stock
      BY <3>3 DEF Stock
    <3>5. QED
      BY <1>0, <2>0, <3>1, <3>2, <3>3, <3>4 DEF OrderInv
  <2>4. CASE ReadSize
    <3>1. cSize' = Least(UsedSeen, MaxRead)
      BY <2>4 DEF ReadSize
    <3>2. cSize' <= Stock
      <4>1. Stock \in Nat
        BY <1>0 DEF OrderInv
      <4>2. /\ UsedSeen \in Nat /\ (~Rereads => UsedSeen <= Stock)
            /\ (UsedSeen > 0 => Stock > 0)
        BY <1>0, <2>4, SeenVersusStock DEF ReadSize
      <4>3. QED
        BY <3>1, <4>1, <4>2 DEF Untorn
    <3>3. QED
      BY <1>0, <2>4, <3>2 DEF ReadSize, OrderInv, Stock, UsedThen
  <2>5. CASE ReadCopy
    <3>1. cSize <= Stock /\ Stock \in Nat
          /\ \A k \in 1..Stock : mem[Wrap(readIdx + k - 1)] = popped + k
      BY <1>0, <2>5 DEF ReadCopy, OrderInv
    <3>2. \A k \in 1..cSize : buf'[k] = popped + k
      BY <2>0, <2>5, <3>1 DEF ReadCopy
    <3>3. QED
      BY <1>0, <2>5, <3>1, <3>2 DEF ReadCopy, OrderInv, Stock, UsedThen
  <2>6. CASE PopAcquire
    BY <1>0, <2>6 DEF PopAcquire, OrderInv, Stock, UsedThen
  <2>7. CASE PopAdvance
    <3>1. Least(UsedSeen, cSize) = cSize /\ cSize <= Stock
      <4>1. UsedSeen \in Nat /\ UsedSeen >= UsedThen
        BY <1>0, <2>7, SeenVersusStock DEF PopAdvance
      <4>2. cSize <= UsedThen /\ cSize <= Stock
        BY <1>0, <2>7 DEF PopAdvance, OrderInv
      <4>3. QED
        BY <1>00, <2>0, <4>1, <4>2
    <3>2. /\ Stock \in 0..Size - 1 /\ writeIdx = Wrap(readIdx + Stock)
          /\ \A k \in 1..Stock : mem[Wrap(readIdx + k - 1)] = popped + k
      BY <1>0 DEF OrderInv
    <3>3. readIdx' = Wrap(readIdx + cSize) /\ popped' = popped + cSize
      BY <2>7, <3>1 DEF PopAdvance
    <3>4. Stock' = Stock - cSize
      BY <2>0, <2>7, <3>3 DEF PopAdvance, Stock
    <3>5. Stock' \in 0..Size - 1 /\ writeIdx = Wrap(readIdx' + Stock')
      BY <2>0, <3>1, <3>2, <3>3, <3>4
    <3>6. ASSUME NEW k \in 1..Stock - cSize
          PROVE  mem[Wrap(readIdx' + k - 1)] = popped' + k
      <4> DEFINE j == k + cSize
      <4>1. j \in 1..Stock /\ Wrap(readIdx + j - 1) = Wrap(readIdx' + k - 1)
        BY <2>0, <3>1, <3>2, <3>3
      <4>2. popped + j = popped' + k
        BY <2>0, <3>3
      <4> HIDE DEF j
      <4>3. QED
        BY <3>2, <4>1, <4>2
    <3>7. QED
      <4>1. \A k \in 1..Stock' : mem'[Wrap(readIdx' + k - 1)] = popped' + k
        BY <2>7, <3>4, <3>6 DEF PopAdvance
      <4>2. ppc' = "publish" =>
              /\ Stock' + pSize' < Size
              /\ \A k \in 1..pSize' : mem'[Wrap(writeIdx' + k - 1)] = pushed' + k
        <5>1. ppc = "publish" =>
                /\ Stock + pSize < Size
                /\ \A k \in 1..pSize : mem[Wrap(writeIdx + k - 1)] = pushed + k
          BY <1>0 DEF OrderInv
        <5>2. Stock' <= Stock /\ pSize \in Nat /\ Stock' \in Nat /\ Stock \in Nat
          BY <2>0, <3>2, <3>4, <3>5 DEF TypeOK
        <5>3. /\ ppc' = ppc /\ pSize' = pSize /\ mem' = mem
              /\ writeIdx' = writeIdx /\ pushed' = pushed
          BY <2>7 DEF PopAdvance
        <5>4. ASSUME NEW a \in Nat, NEW b \in Nat, NEW p \in Nat, a <= b, b + p < Size
              PROVE  a + p < Size
          BY <5>4
        <5>5. Stock + pSize < Size => Stock' + pSize < Size
          BY <5>2, <5>4
        <5>6. QED
          BY <5>1, <5>3, <5>5
      <4>3. cpc' = "popReleaseWrite" /\ writeIdx' = writeIdx
        BY <2>7 DEF PopAdvance
      <4>4. QED
        BY <3>5, <4>1, <4>2, <4>3 DEF OrderInv
  <2>8. CASE PopReleaseWrite
    BY <1>0, <2>8 DEF PopReleaseWrite, OrderInv, Stock, UsedThen
  <2>9. CASE PopReleaseRead
    BY <1>0, <2>9 DEF PopReleaseRead, OrderInv, Stock, UsedThen
  <2>10. QED
    BY <1>5, <2>1, <2>2, <2>3, <2>4, <2>5, <2>6, <2>7, <2>8, <2>9 DEF ReadStep
<1>6. CASE ConsumerLoop
  BY <1>0, <1>6 DEF ConsumerLoop, OrderInv, Stock, UsedThen
<1>7. CASE UNCHANGED vars
  BY <1>0, <1>7 DEF vars, OrderInv, Stock, UsedThen
<1>8. QED
  BY <1>1, <1>2, <1>3, <1>4, <1>5, <1>6, <1>7 DEF Next, FifoNext

THEOREM OrderInvHolds == Untorn /\ Spec => []OrderInv
<1> SUFFICES ASSUME Untorn PROVE Spec => []OrderInv
  OBVIOUS
<1>1. TypeOK /\ SemInv /\ OrderInv /\ [Next]_vars => OrderInv'
  BY OrderInvStep
<1>2. QED
  BY <1>1, OrderInvInit, TypeCorrect, SemInvHolds, PTL DEF Spec

\* While no push has filled the ring, bfifo_read hands over the oldest bytes,
\* in order and unchanged.
THEOREM BytesInOrder == Untorn /\ Spec => []ReadInOrder
<1>1. OrderInv => ReadInOrder
  BY DEF OrderInv, ReadInOrder
<1>2. QED
  BY <1>1, OrderInvHolds, PTL

\* While no push has filled the ring, bfifo_get_used counts the stored bytes.
THEOREM UsedCountsBytes == Untorn /\ Spec => []UsedIsStored
<1>1. TypeOK /\ OrderInv => UsedIsStored
  BY StockIsUsed DEF OrderInv, UsedIsStored, Stock
<1>2. QED
  BY <1>1, OrderInvHolds, TypeCorrect, PTL

\* A pop releases what the read before it has copied.
LEMMA PopIsRead ==
    ASSUME TypeOK, OrderInv, ~overrun, PopAdvance
    PROVE  popped' = popped + cSize
<1>1. UsedSeen \in Nat /\ UsedSeen >= UsedThen
  BY SeenVersusStock DEF PopAdvance
<1>2. cSize <= UsedThen
  BY DEF PopAdvance, OrderInv
<1>3. UsedThen \in Nat /\ cSize \in Nat
  <2>1. cAbove \in BOOLEAN /\ cW \in Slots /\ readIdx \in Slots
    BY DEF TypeOK
  <2>2. Used(cAbove, cW, readIdx) \in 0..Modulus - 1
    BY <2>1, UsedIsUnsigned, Zenon
  <2>3. QED
    BY <2>2, ModulusAssumption, CallAssumption, SizeAssumption DEF UsedThen, TypeOK
<1>4. QED
  BY <1>1, <1>2, <1>3 DEF PopAdvance

\* While no push has filled the ring, bfifo_pop releases what was read.
THEOREM PopMatchesRead == Untorn /\ Spec => PopsWhatWasRead
<1> DEFINE A == ~overrun /\ popped' # popped => popped' = popped + cSize
<1>1. TypeOK /\ OrderInv /\ [Next]_vars => [A]_vars
  <2> SUFFICES ASSUME TypeOK, OrderInv, Next, ~overrun, popped' # popped
               PROVE  popped' = popped + cSize
    OBVIOUS
  <2>1. PopAdvance
    BY DEF Next, FifoNext, PushStep, ReadStep, fifoVars, histVars, OpenPipe, PushCall,
           PushAcquire, PushCompare, PushSize, PushCopy, PushPublish,
           PushReleaseWrite, PushReleaseRead, IsrPush, WaitAcquire,
           WaitRelease, Compare, ReadSize, ReadCopy, PopAcquire,
           PopReleaseWrite, PopReleaseRead, ConsumerLoop
  <2>2. QED
    BY <2>1, PopIsRead
<1>2. QED
  BY <1>1, OrderInvHolds, TypeCorrect, PTL DEF Spec, PopsWhatWasRead

(***************************************************************************)
(* The channel                                                             *)
(***************************************************************************)

\* The n numbers after m: what the ring holds, as the stream has it.
Run(m, n) == [k \in 1..n |-> m + k]

\* Bytes put behind a run continue it.
LEMMA RunGrows ==
    ASSUME NEW m \in Nat, NEW n \in Nat, NEW p \in Nat
    PROVE  /\ Len(Run(m, n)) = n
           /\ Run(m, n) \o [k \in 1..p |-> m + n + 1 + k - 1] = Run(m, n + p)
<1>1. Run(m, n) \in Seq(Nat) /\ Len(Run(m, n)) = n
  BY DEF Run
<1> DEFINE more == [k \in 1..p |-> m + n + 1 + k - 1]
<1>2. more \in Seq(Nat) /\ Len(more) = p /\ \A k \in 1..p : more[k] = m + n + k
  OBVIOUS
<1> HIDE DEF more
<1>3. Run(m, n) \o more = Run(m, n + p)
  BY <1>1, <1>2 DEF Run
<1>4. QED
  BY <1>1, <1>3 DEF more

\* Bytes taken from a run are its first, and leave the rest of it.
LEMMA RunShrinks ==
    ASSUME NEW m \in Nat, NEW n \in Nat, NEW p \in 1..n
    PROVE  /\ SubSeq(Run(m, n), 1, p) = Run(m, p)
           /\ SubSeq(Run(m, n), p + 1, Len(Run(m, n))) = Run(m + p, n - p)
<1>1. Run(m, n) \in Seq(Nat) /\ Len(Run(m, n)) = n
  BY DEF Run
<1>2. SubSeq(Run(m, n), 1, p) = Run(m, p)
  BY <1>1 DEF Run
<1>3. SubSeq(Run(m, n), p + 1, n) = Run(m + p, n - p)
  BY <1>1 DEF Run
<1>4. QED
  BY <1>1, <1>2, <1>3

\* The consumer holds bytes it has released, until it asks for more.
Behind == cpc \in {"popReleaseWrite", "popCompare2", "popRelease", "done"}

\* They are the last it has released.
HandInv ==
    ~overrun /\ Behind =>
        popped - cSize \in Nat /\ \A k \in 1..cSize : buf[k] = popped - cSize + k

\* The steps of the consumer that make no difference to what it holds, and
\* those of the pushers.
LEMMA OtherSteps ==
    ASSUME TypeOK, [Next]_vars
    PROVE  \/ /\ UNCHANGED popped
              /\ \/ UNCHANGED <<cpc, cSize, buf>>
                 \/ ~Behind /\ ~Behind'
                 \/ Behind /\ Behind' /\ UNCHANGED <<cSize, buf>>
                 \/ ReadCopy /\ cSize = 0
                 \/ ConsumerLoop
           \/ PopAdvance
<1> USE DEF fifoVars, pushVars, consVars, histVars
<1>1. CASE OpenPipe \/ (\E n \in 1..MaxPush : PushCall(n)) \/ PushStep \/ IsrPush \/ UNCHANGED vars
  BY <1>1 DEF OpenPipe, PushCall, PushStep, PushAcquire, PushCompare, PushSize, PushCopy,
              PushPublish, PushReleaseWrite, PushReleaseRead, IsrPush, vars
<1>2. CASE ReadStep
  BY <1>2 DEF ReadStep, WaitAcquire, WaitRelease, Compare, ReadSize, ReadCopy, PopAcquire,
              PopReleaseWrite, PopReleaseRead, Behind
<1>3. CASE ConsumerLoop
  BY <1>3 DEF ConsumerLoop
<1>4. QED
  BY <1>1, <1>2, <1>3, Zenon DEF Next, FifoNext

\* A ring that has been filled stays so.
LEMMA OverrunStays == [Next]_vars /\ overrun => overrun'
BY DEF Next, FifoNext, PushStep, ReadStep, vars, histVars, OpenPipe, PushCall, PushAcquire,
       PushCompare, PushSize, PushCopy, PushPublish, PushReleaseWrite, PushReleaseRead, IsrPush,
       WaitAcquire, WaitRelease, Compare, ReadSize, ReadCopy, PopAcquire, PopAdvance,
       PopReleaseWrite, PopReleaseRead, ConsumerLoop

LEMMA HandStep == TypeOK /\ OrderInv /\ HandInv /\ [Next]_vars => HandInv'
<1> SUFFICES ASSUME TypeOK, OrderInv, HandInv, [Next]_vars, ~overrun', Behind'
             PROVE  popped' - cSize' \in Nat /\ \A k \in 1..cSize' : buf'[k] = popped' - cSize' + k
  BY DEF HandInv
<1>0. ~overrun /\ popped \in Nat /\ cSize \in Nat
  BY OverrunStays, CallAssumption, SizeAssumption DEF TypeOK
<1>1. CASE UNCHANGED <<popped, cpc, cSize, buf>>
  BY <1>0, <1>1 DEF HandInv, Behind
<1>2. CASE UNCHANGED popped /\ Behind /\ UNCHANGED <<cSize, buf>>
  BY <1>0, <1>2 DEF HandInv
<1>3. CASE UNCHANGED popped /\ ReadCopy /\ cSize = 0
  BY <1>0, <1>3 DEF ReadCopy
<1>4. CASE ConsumerLoop
  BY <1>4 DEF ConsumerLoop, Behind
<1>5. CASE PopAdvance
  <2>1. popped' = popped + cSize /\ UNCHANGED <<cSize, buf>>
    BY <1>0, <1>5, PopIsRead DEF PopAdvance
  <2>2. \A k \in 1..cSize : buf[k] = popped + k
    BY <1>0, <1>5 DEF OrderInv, PopAdvance
  <2>3. QED
    BY <1>0, <2>1, <2>2
<1>6. QED
  BY <1>1, <1>2, <1>3, <1>4, <1>5, OtherSteps

\* The state of the channel: the ring holds the bytes pushed and not popped, the
\* consumer the last popped, until the ring is filled.
ChannelInv ==
    ~overrun => /\ RingContent = Run(popped, Stock)
                /\ HandedOver = IF Behind THEN Run(popped - cSize, cSize) ELSE <<>>

LEMMA ChannelIsRun == TypeOK /\ OrderInv /\ HandInv => ChannelInv
<1> SUFFICES ASSUME TypeOK, OrderInv, HandInv, ~overrun
             PROVE  /\ RingContent = Run(popped, Stock)
                    /\ HandedOver = IF Behind THEN Run(popped - cSize, cSize) ELSE <<>>
  BY DEF ChannelInv
<1>1. RingContent = Run(popped, Stock)
  <2>1. UsedNow = Stock
    BY StockIsUsed DEF OrderInv
  <2>2. \A k \in 1..Stock : mem[Wrap(readIdx + k - 1)] = popped + k
    BY DEF OrderInv
  <2>3. QED
    BY <2>1, <2>2, Zenon DEF RingContent, Run
<1>2. CASE Behind
  <2>1. buf \in Seq(Nat) /\ Len(buf) = MaxRead /\ cSize \in 0..MaxRead
    BY CallAssumption, SizeAssumption DEF TypeOK
  <2>2. \A k \in 1..cSize : buf[k] = popped - cSize + k
    BY <1>2 DEF HandInv
  <2>3. SubSeq(buf, 1, cSize) = [k \in 1..cSize |-> buf[k]]
    BY <2>1, CallAssumption, SizeAssumption
  <2>4. SubSeq(buf, 1, cSize) = Run(popped - cSize, cSize)
    BY <2>2, <2>3 DEF Run
  <2>5. QED
    BY <1>1, <1>2, <2>4, Zenon DEF HandedOver, Behind
<1>3. CASE ~Behind
  BY <1>1, <1>3, Zenon DEF HandedOver, Behind
<1>4. QED
  BY <1>2, <1>3, Zenon

\* What the channel's steps say of it.
LEMMA ChannelSteps ==
    ASSUME overrun = FALSE, overrun' = FALSE,
           \/ \E n \in 1..MaxPush :
                 /\ Len(RingContent) + n < Size
                 /\ RingContent' = RingContent \o [k \in 1..n |-> pushed + 1 + k - 1]
                 /\ pushed' + 1 = pushed + 1 + n /\ HandedOver' = HandedOver
           \/ \E n \in 1..MaxRead :
                 /\ n <= Len(RingContent) /\ HandedOver' = SubSeq(RingContent, 1, n)
                 /\ RingContent' = SubSeq(RingContent, n + 1, Len(RingContent))
                 /\ pushed' = pushed
           \/ HandedOver' = <<>> /\ RingContent' = RingContent /\ pushed' = pushed
           \/ HandedOver' = HandedOver /\ RingContent' = RingContent /\ pushed' = pushed
    PROVE  [Channel!Next]_Channel!absVars
<1>0. /\ (IF overrun THEN <<>> ELSE RingContent) = RingContent
      /\ (IF overrun THEN 0 ELSE pushed + 1) = pushed + 1
      /\ (IF overrun THEN <<>> ELSE HandedOver) = HandedOver
      /\ (IF overrun' THEN <<>> ELSE RingContent') = RingContent'
      /\ (IF overrun' THEN 0 ELSE pushed' + 1) = pushed' + 1
      /\ (IF overrun' THEN <<>> ELSE HandedOver') = HandedOver'
      /\ ~overrun /\ overrun' = overrun
  BY Zenon
<1>1. ASSUME NEW n \in 1..MaxPush,
             /\ Len(RingContent) + n < Size
             /\ RingContent' = RingContent \o [k \in 1..n |-> pushed + 1 + k - 1]
             /\ pushed' + 1 = pushed + 1 + n /\ HandedOver' = HandedOver
      PROVE  [Channel!Next]_Channel!absVars
  <2>1. Channel!Put(n)
    BY <1>0, <1>1 DEF Channel!Put
  <2>2. QED
    BY <2>1, Zenon DEF Channel!Next
<1>2. ASSUME NEW n \in 1..MaxRead,
             /\ n <= Len(RingContent) /\ HandedOver' = SubSeq(RingContent, 1, n)
             /\ RingContent' = SubSeq(RingContent, n + 1, Len(RingContent))
             /\ pushed' = pushed
      PROVE  [Channel!Next]_Channel!absVars
  <2>1. Channel!Take(n)
    BY <1>0, <1>2 DEF Channel!Take
  <2>2. QED
    BY <2>1, Zenon DEF Channel!Next
<1>3. CASE HandedOver' = <<>> /\ RingContent' = RingContent /\ pushed' = pushed
  <2>1. Channel!Done
    BY <1>0, <1>3 DEF Channel!Done
  <2>2. QED
    BY <2>1, Zenon DEF Channel!Next
<1>4. CASE HandedOver' = HandedOver /\ RingContent' = RingContent /\ pushed' = pushed
  <2>1. UNCHANGED Channel!absVars
    BY <1>0, <1>4 DEF Channel!absVars
  <2>2. QED
    BY <2>1, Zenon
<1>5. QED
  BY <1>1, <1>2, <1>3, <1>4, Zenon

\* A push, of a task or of the interrupt, stores n bytes more and leaves a slot
\* free; or changes nothing the channel has.
LEMMA PushGrows ==
    ASSUME TypeOK, OrderInv, [Next]_vars, ~overrun, ~overrun'
    PROVE  \/ pushed' = pushed
           \/ /\ UNCHANGED <<popped, cpc, cSize, buf>>
              /\ \E n \in 1..MaxPush : pushed' = pushed + n /\ Stock + n < Size
<1> USE SizeAssumption, CallAssumption
<1> USE DEF fifoVars, pushVars, consVars, histVars
<1>0. pushed \in Nat /\ popped \in Nat /\ pSize \in 0..MaxPush
  BY DEF TypeOK
<1>1. CASE PushPublish
  <2>1. Stock + pSize < Size
    BY <1>1 DEF OrderInv, PushPublish
  <2>2. pushed' = pushed + pSize /\ UNCHANGED <<popped, cpc, cSize, buf>>
    BY <1>1 DEF PushPublish
  <2>3. CASE pSize = 0
    BY <1>0, <2>2, <2>3
  <2>4. CASE pSize # 0
    BY <1>0, <2>1, <2>2, <2>4
  <2>5. QED
    BY <2>3, <2>4
<1>2. CASE IsrPush
  <2>1. readIdx \in Slots /\ writeIdx \in Slots
    BY DEF TypeOK
  <2>2. FreeNow \in 1..Size
    BY <2>1, UndisturbedUsed, Zenon DEF FreeNow, UsedNow
  <2>3. Least(FreeNow, 1) = 1
    BY <2>2
  <2>4. pushed' = pushed + 1 /\ ~Fills(1) /\ UNCHANGED <<popped, cpc, cSize, buf>>
    BY <1>2, <2>3, Zenon DEF IsrPush
  <2>5. Stock + 1 < Size /\ 1 \in 1..MaxPush
    BY <1>0, <2>4 DEF Fills, Stock
  <2>6. QED
    BY <2>4, <2>5
<1>3. CASE ~PushPublish /\ ~IsrPush
  BY <1>3 DEF Next, FifoNext, PushStep, ReadStep, vars, OpenPipe, PushCall, PushAcquire,
       PushCompare, PushSize, PushCopy, PushReleaseWrite, PushReleaseRead,
       WaitAcquire, WaitRelease, Compare, ReadSize, ReadCopy, PopAcquire, PopAdvance,
       PopReleaseWrite, PopReleaseRead, ConsumerLoop
<1>4. QED
  BY <1>1, <1>2, <1>3, Zenon

\* A step of the FIFO moves the run on at one end, empties the consumer's hands
\* or leaves all as it is; filling the ring ends the promise.
LEMMA StepsOfChannel ==
    TypeOK /\ TypeOK' /\ OrderInv /\ ChannelInv /\ ChannelInv' /\ [Next]_vars
        => [Channel!Next]_Channel!absVars
<1> SUFFICES ASSUME TypeOK, TypeOK', OrderInv, ChannelInv, ChannelInv', [Next]_vars
             PROVE  [Channel!Next]_Channel!absVars
  OBVIOUS
<1>1. CASE overrun'
  <2>1. Channel!Fill
    BY <1>1 DEF Channel!Fill
  <2>2. QED
    BY <2>1, Zenon DEF Channel!Next
<1>2. CASE ~overrun'
  <2>0. ~overrun
    BY <1>2, OverrunStays
  <2>00. overrun = FALSE /\ overrun' = FALSE
    BY <1>2, <2>0, Zenon DEF TypeOK
  <2>1. /\ pushed \in Nat /\ popped \in Nat /\ cSize \in 0..MaxRead
        /\ Stock \in Nat /\ pushed = popped + Stock
    <3>1. pushed \in Nat /\ popped \in Nat /\ cSize \in 0..MaxRead
      BY DEF TypeOK
    <3>2. Stock \in 0..Size - 1
      BY <2>0 DEF OrderInv
    <3>3. QED
      BY <3>1, <3>2, SizeAssumption DEF Stock
  <2>2. /\ RingContent = Run(popped, Stock)
        /\ HandedOver = IF Behind THEN Run(popped - cSize, cSize) ELSE <<>>
    BY <2>0, Zenon DEF ChannelInv
  <2>3. /\ RingContent' = Run(popped', Stock')
        /\ HandedOver' = IF Behind' THEN Run(popped' - cSize', cSize') ELSE <<>>
    BY <1>2, Zenon DEF ChannelInv
  <2>4. CASE pushed' # pushed
    <3>1. PICK n \in 1..MaxPush : pushed' = pushed + n /\ Stock + n < Size
      BY <1>2, <2>0, <2>4, PushGrows, Zenon
    <3>2. UNCHANGED <<popped, cpc, cSize, buf>>
      BY <1>2, <2>0, <2>4, PushGrows, Zenon
    <3>3. n \in Nat
      BY CallAssumption, SizeAssumption
    <3>4. Stock' = Stock + n
      BY <2>1, <3>1, <3>2, <3>3 DEF Stock
    <3>5. HandedOver' = HandedOver
      BY <3>2, Zenon DEF HandedOver
    <3>6. /\ Len(RingContent) = Stock
          /\ Run(popped, Stock) \o [k \in 1..n |-> popped + Stock + 1 + k - 1]
                 = Run(popped, Stock + n)
      BY <2>1, <2>2, <3>3, RunGrows
    <3>7. RingContent' = RingContent \o [k \in 1..n |-> pushed + 1 + k - 1]
      BY <2>1, <2>2, <2>3, <3>2, <3>4, <3>6, Zenon
    <3>8. pushed' + 1 = pushed + 1 + n
      BY <2>1, <3>1, <3>3
    <3>9. Len(RingContent) + n < Size
      BY <3>1, <3>6
    <3>10. QED
      BY <2>00, <3>5, <3>7, <3>8, <3>9, ChannelSteps, Zenon
  <2>5. CASE pushed' = pushed /\ popped' = popped
    <3>1. RingContent' = RingContent
      BY <2>2, <2>3, <2>5, Zenon DEF Stock
    <3>2. HandedOver' = HandedOver \/ HandedOver' = <<>>
      <4>1. CASE UNCHANGED <<cpc, cSize, buf>>
        BY <4>1, Zenon DEF HandedOver
      <4>2. CASE ~Behind /\ ~Behind'
        BY <2>2, <2>3, <4>2, Zenon
      <4>3. CASE Behind /\ Behind' /\ UNCHANGED <<cSize, buf>>
        BY <2>2, <2>3, <2>5, <4>3, Zenon
      <4>4. CASE ReadCopy /\ cSize = 0
        <5>1. cSize' = 0
          BY <4>4 DEF ReadCopy
        <5>2. Run(popped' - cSize', cSize') = <<>>
          BY <5>1 DEF Run
        <5>3. QED
          BY <2>3, <5>2, Zenon
      <4>5. CASE ConsumerLoop
        BY <2>3, <4>5 DEF ConsumerLoop, Behind
      <4>6. CASE PopAdvance
        <5>1. popped + cSize = popped /\ cSize' = cSize
          BY <2>0, <2>5, <4>6, PopIsRead DEF PopAdvance
        <5>2. cSize' = 0
          BY <2>1, <5>1, CallAssumption, SizeAssumption
        <5>3. Run(popped' - cSize', cSize') = <<>>
          BY <5>2 DEF Run
        <5>4. QED
          BY <2>3, <5>3, Zenon
      <4>7. QED
        BY <4>1, <4>2, <4>3, <4>4, <4>5, <4>6, OtherSteps, Zenon
    <3>3. QED
      BY <2>00, <2>5, <3>1, <3>2, ChannelSteps, Zenon
  <2>6. CASE pushed' = pushed /\ popped' # popped
    <3>1. PopAdvance
      BY <2>6, OtherSteps, Zenon
    <3>2. popped' = popped + cSize /\ cSize' = cSize /\ ~Behind /\ Behind'
      BY <2>0, <3>1, PopIsRead DEF PopAdvance, Behind
    <3>3. cSize \in 1..MaxRead /\ cSize \in Nat /\ popped' - cSize' = popped
      BY <2>1, <2>6, <3>2, CallAssumption, SizeAssumption
    <3>4. cSize <= Stock
      BY <2>0, <3>1 DEF OrderInv, PopAdvance
    <3>5. Stock' = Stock - cSize /\ cSize \in 1..Stock
      BY <2>1, <2>6, <3>2, <3>3, <3>4 DEF Stock
    <3>6. /\ Len(Run(popped, Stock)) = Stock
          /\ SubSeq(Run(popped, Stock), 1, cSize) = Run(popped, cSize)
          /\ SubSeq(Run(popped, Stock), cSize + 1, Len(Run(popped, Stock)))
                 = Run(popped + cSize, Stock - cSize)
      <4>1. Len(Run(popped, Stock)) = Stock
        BY <2>1, RunGrows
      <4>2. QED
        BY <2>1, <3>5, <4>1, RunShrinks
    <3>7. cSize <= Len(RingContent)
      BY <2>2, <3>4, <3>6, Zenon
    <3>8. HandedOver' = SubSeq(RingContent, 1, cSize)
      BY <2>2, <2>3, <3>2, <3>3, <3>6, Zenon
    <3>9. RingContent' = SubSeq(RingContent, cSize + 1, Len(RingContent))
      BY <2>2, <2>3, <3>2, <3>5, <3>6, Zenon
    <3>10. QED
      BY <2>00, <2>6, <3>3, <3>7, <3>8, <3>9, ChannelSteps, Zenon
  <2>7. QED
    BY <2>4, <2>5, <2>6, Zenon
<1>3. QED
  BY <1>1, <1>2, Zenon

\* Until a push fills the ring, the FIFO is a first-in first-out channel: for any
\* ring, lengths of reads and pushes, and preemption, bytes leave in the order
\* they came, none is lost, doubled or altered.
THEOREM FifoIsChannel == Untorn /\ Spec => ImplementsChannel
<1> SUFFICES ASSUME Untorn PROVE Spec => ImplementsChannel
  OBVIOUS
<1>1. Init => HandInv
  BY DEF Init, HandInv, Behind
<1>2. Init => Channel!Init
  <2>1. ASSUME Init PROVE UsedNow = 0 /\ cpc = "wait" /\ pushed = 0 /\ overrun = FALSE
    BY <2>1, SizeAssumption DEF Init, UsedNow, Used, USub
  <2>2. ASSUME Init PROVE RingContent = <<>>
    BY <2>1, <2>2 DEF RingContent
  <2>3. ASSUME Init PROVE HandedOver = <<>>
    BY <2>1, <2>3 DEF HandedOver
  <2>4. QED
    BY <2>1, <2>2, <2>3 DEF Channel!Init
<1>3. QED
  BY <1>1, <1>2, HandStep, ChannelIsRun, StepsOfChannel, OrderInvHolds, TypeCorrect, PTL
     DEF Spec, ImplementsChannel, Channel!Spec

(***************************************************************************)
(* SerialOutput                                                             *)
(***************************************************************************)

\* Each step of the serial thread, the DMA or the pushers is a step of the
\* FIFO or leaves it alone.
LEMMA ThreadIsConsumer == SerialSpec => Spec
<1>1. SerialInit => Init
  BY DEF SerialInit
<1>2. [SerialNext]_serialVars => [Next]_vars
  BY DEF SerialNext, serialVars, Next, Transmit, TxComplete, FlagWait
<1>3. QED
  BY <1>1, <1>2, PTL DEF SerialSpec, Spec

\* With the thread as the consumer the FIFO is a first-in first-out channel.
THEOREM SerialIsChannel == Untorn /\ SerialSpec => ImplementsChannel
BY FifoIsChannel, ThreadIsConsumer

\* Every variable of the thread, the DMA and the FIFO under them has its type.
THEOREM SerialTypeCorrect == SerialSpec => []SerialTypeOK
<1> DEFINE U == tpc \in {"fifo", "flag"} /\ flag \in BOOLEAN /\ busy \in BOOLEAN /\ wire \in Nat
<1>1. SerialSpec => []TypeOK
  BY ThreadIsConsumer, TypeCorrect, PTL
<1>2. SerialInit => U
  <2>1. 0 \in Nat
    OBVIOUS
  <2>2. QED
    BY <2>1, Zenon DEF SerialInit
<1>3. TypeOK /\ U /\ [SerialNext]_serialVars => U'
  <2> SUFFICES ASSUME TypeOK, U, [SerialNext]_serialVars PROVE U'
    OBVIOUS
  <2>1. cSize \in Nat
    BY CallAssumption, SizeAssumption DEF TypeOK
  <2>2. CASE FifoNext /\ UNCHANGED uartVars
    BY <2>2 DEF uartVars
  <2>3. CASE Transmit
    BY <2>3 DEF Transmit
  <2>4. CASE TxComplete
    <3>1. wire' \in Nat
      BY <2>1, <2>4, SMT DEF TxComplete
    <3>2. QED
      BY <3>1, <2>4, Zenon DEF TxComplete
  <2>5. CASE FlagWait
    BY <2>5 DEF FlagWait
  <2>6. CASE UNCHANGED serialVars
    BY <2>6 DEF serialVars, uartVars
  <2>7. QED
    BY <2>2, <2>3, <2>4, <2>5, <2>6 DEF SerialNext
<1>4. U /\ TypeOK => SerialTypeOK
  BY DEF SerialTypeOK
<1>5. QED
  BY <1>1, <1>2, <1>3, <1>4, PTL DEF SerialSpec

(***************************************************************************)
(* The handshake of the thread and the DMA                                  *)
(***************************************************************************)

\* The thread waits for the flag only with the FIFO behind it, the DMA runs
\* only meanwhile, and the flag tells of the transmission just finished.
HandshakeInv ==
    /\ tpc \in {"fifo", "flag"}
    /\ tpc = "flag" => cpc = "done"
    /\ busy => tpc = "flag" /\ ~flag
    /\ flag => tpc = "flag"

LEMMA FifoStepKeepsHandshake ==
    ASSUME HandshakeInv, FifoNext, UNCHANGED uartVars
    PROVE  HandshakeInv'
<1>1. tpc = "flag" => cpc' = cpc
  BY DEF HandshakeInv, FifoNext, PushStep, ReadStep, pushVars, consVars,
         OpenPipe, PushCall, PushAcquire, PushCompare, PushSize, PushCopy,
         PushPublish, PushReleaseWrite, PushReleaseRead, IsrPush, WaitAcquire,
         WaitRelease, Compare, ReadSize, ReadCopy, PopAcquire, PopAdvance,
         PopReleaseWrite, PopReleaseRead
<1>2. QED
  BY <1>1 DEF HandshakeInv, uartVars

LEMMA HandshakeHolds == SerialSpec => []HandshakeInv
<1>1. SerialInit => HandshakeInv
  BY DEF SerialInit, HandshakeInv
<1>2. HandshakeInv /\ [SerialNext]_serialVars => HandshakeInv'
  <2> SUFFICES ASSUME HandshakeInv, [SerialNext]_serialVars PROVE HandshakeInv'
    OBVIOUS
  <2>1. CASE FifoNext /\ UNCHANGED uartVars
    BY <2>1, FifoStepKeepsHandshake
  <2>2. CASE Transmit
    BY <2>2 DEF Transmit, HandshakeInv, vars, consVars
  <2>3. CASE TxComplete
    BY <2>3 DEF TxComplete, HandshakeInv, vars, consVars
  <2>4. CASE FlagWait
    BY <2>4 DEF FlagWait, HandshakeInv, ConsumerLoop
  <2>5. CASE UNCHANGED serialVars
    BY <2>5 DEF serialVars, uartVars, vars, consVars, HandshakeInv
  <2>6. QED
    BY <2>1, <2>2, <2>3, <2>4, <2>5 DEF SerialNext
<1>3. QED
  BY <1>1, <1>2, PTL DEF SerialSpec

\* A flag that is set belongs to the transmission the thread waits for.
THEOREM FlagNeverStale == SerialSpec => []FlagIsCurrent
<1>1. HandshakeInv => FlagIsCurrent
  BY DEF HandshakeInv, FlagIsCurrent
<1>2. QED
  BY <1>1, HandshakeHolds, PTL

\* The line buffer is the DMA's own from the start of a transmission to its end.
THEOREM DmaOwnsLineBuf == SerialSpec => LineBufStable
<1> DEFINE A == busy => buf' = buf /\ cSize' = cSize
<1>1. HandshakeInv /\ [SerialNext]_serialVars => [A]_serialVars
  <2> SUFFICES ASSUME HandshakeInv, SerialNext, busy
               PROVE  buf' = buf /\ cSize' = cSize
    OBVIOUS
  <2>1. cpc = "done" /\ tpc = "flag"
    BY DEF HandshakeInv
  <2>2. CASE FifoNext /\ UNCHANGED uartVars
    BY <2>1, <2>2
       DEF FifoNext, PushStep, ReadStep, consVars, OpenPipe, PushCall,
           PushAcquire, PushCompare, PushSize, PushCopy, PushPublish,
           PushReleaseWrite, PushReleaseRead, IsrPush, WaitAcquire,
           WaitRelease, Compare, ReadSize, ReadCopy, PopAcquire, PopAdvance,
           PopReleaseWrite, PopReleaseRead
  <2>3. CASE Transmit \/ TxComplete
    BY <2>3 DEF Transmit, TxComplete, vars, consVars
  <2>4. CASE FlagWait
    BY <2>4 DEF FlagWait, ConsumerLoop
  <2>5. QED
    BY <2>2, <2>3, <2>4 DEF SerialNext
<1>2. QED
  BY <1>1, HandshakeHolds, PTL DEF SerialSpec, LineBufStable

(***************************************************************************)
(* The order of the bytes on the wire                                       *)
(***************************************************************************)

\* Popped bytes are on the wire, or in the line buffer waiting to be sent.
WireInv ==
    /\ wire \in Nat
    /\ ~overrun =>
       /\ ~Behind => wire = popped
       /\ Behind /\ (tpc = "fifo" \/ busy) =>
              wire + cSize = popped /\ \A k \in 1..cSize : buf[k] = wire + k
       /\ Behind /\ tpc = "flag" /\ ~busy => wire = popped

LEMMA WireStep ==
    Untorn /\ TypeOK /\ SemInv /\ OrderInv /\ HandshakeInv /\ WireInv
        /\ [SerialNext]_serialVars => WireInv'
<1> SUFFICES ASSUME Untorn, TypeOK, SemInv, OrderInv, HandshakeInv, WireInv,
                    [SerialNext]_serialVars
             PROVE  WireInv'
  OBVIOUS
<1> USE DEF Behind
<1>0. /\ cSize \in Nat /\ popped \in Nat
  BY CallAssumption, SizeAssumption DEF TypeOK
<1>1. CASE FifoNext /\ UNCHANGED uartVars
  <2> USE DEF fifoVars, pushVars, consVars, histVars, uartVars
  <2>1. wire' = wire /\ tpc' = tpc /\ busy' = busy
    BY <1>1
  <2>2. CASE UNCHANGED <<cpc, cSize, buf, popped>>
    <3>1. ~overrun' => ~overrun
      BY <1>1 DEF FifoNext, PushStep, ReadStep, OpenPipe, PushCall,
           PushAcquire, PushCompare, PushSize, PushCopy, PushPublish,
           PushReleaseWrite, PushReleaseRead, IsrPush, WaitAcquire,
           WaitRelease, Compare, ReadSize, ReadCopy, PopAcquire, PopAdvance,
           PopReleaseWrite, PopReleaseRead
    <3>2. QED
      BY <2>1, <2>2, <3>1 DEF WireInv
  <2>3. CASE ReadStep
    <3>0. tpc = "fifo" /\ ~busy
      <4>1. cpc # "done"
        BY <2>3 DEF ReadStep, WaitAcquire, WaitRelease, Compare, ReadSize,
             ReadCopy, PopAcquire, PopAdvance, PopReleaseWrite, PopReleaseRead
      <4>2. QED
        BY <4>1 DEF HandshakeInv
    <3>1. CASE WaitAcquire \/ WaitRelease \/ ReadSize \/ PopAcquire
      BY <2>1, <3>1
         DEF WaitAcquire, WaitRelease, ReadSize, PopAcquire, WireInv
    <3>2. CASE Compare
      BY <2>1, <3>2 DEF Compare, WireInv
    <3>3. CASE ReadCopy
      BY <1>0, <2>1, <3>0, <3>3 DEF ReadCopy, WireInv
    <3>4. CASE PopAdvance
      <4>1. overrun' = overrun /\ cSize' = cSize /\ buf' = buf /\ cpc' = "popReleaseWrite"
        BY <3>4 DEF PopAdvance
      <4>2. ASSUME ~overrun
            PROVE  /\ popped' = popped + cSize
                   /\ wire = popped /\ \A k \in 1..cSize : buf[k] = popped + k
        <5>1. UsedSeen \in Nat /\ UsedSeen >= UsedThen /\ cSize <= UsedThen
          BY <3>4, <4>2, SeenVersusStock DEF PopAdvance, OrderInv
        <5>2. UsedThen \in Nat
          <6>1. cAbove \in BOOLEAN /\ cW \in Slots /\ readIdx \in Slots
            BY DEF TypeOK
          <6>2. Used(cAbove, cW, readIdx) \in 0..Modulus - 1
            BY <6>1, UsedIsUnsigned, Zenon
          <6>3. QED
            BY <6>2, ModulusAssumption, SizeAssumption DEF UsedThen
        <5>3. Least(UsedSeen, cSize) = cSize
          <6>1. ASSUME NEW a \in Nat, NEW b \in Nat, NEW c \in Nat, a >= b, c <= b
                PROVE  Least(a, c) = c
            BY <6>1 DEF Least
          <6>2. QED
            BY <6>1, <5>1, <5>2, <1>0, Zenon
        <5>4. wire = popped /\ \A k \in 1..cSize : buf[k] = popped + k
          BY <3>4, <4>2 DEF PopAdvance, OrderInv, WireInv
        <5>5. QED
          BY <3>4, <5>3, <5>4 DEF PopAdvance
      <4>3. QED
        BY <1>0, <2>1, <3>0, <4>1, <4>2 DEF WireInv
    <3>5. CASE PopReleaseWrite \/ PopReleaseRead
      BY <2>1, <3>0, <3>5 DEF PopReleaseWrite, PopReleaseRead, WireInv
    <3>6. QED
      BY <2>3, <3>1, <3>2, <3>3, <3>4, <3>5 DEF ReadStep
  <2>4. FifoNext => ReadStep \/ UNCHANGED <<cpc, cSize, buf, popped>>
    <3>1. OpenPipe \/ PushStep \/ IsrPush => UNCHANGED <<cpc, cSize, buf, popped>>
      BY DEF PushStep, OpenPipe, PushAcquire, PushCompare, PushSize, PushCopy,
             PushPublish, PushReleaseWrite, PushReleaseRead, IsrPush
    <3>2. ASSUME NEW n \in 1..MaxPush, PushCall(n)
          PROVE  UNCHANGED <<cpc, cSize, buf, popped>>
      BY <3>2 DEF PushCall
    <3>3. QED
      BY <3>1, <3>2, Zenon DEF FifoNext
  <2>5. QED
    BY <1>1, <2>2, <2>3, <2>4, Zenon
<1>2. CASE Transmit
  <2>1. /\ ~busy /\ tpc = "fifo" /\ cpc = "done" /\ tpc' = "flag" /\ wire' = wire
        /\ UNCHANGED <<cpc, cSize, buf, popped, overrun>>
    BY <1>2 DEF Transmit, HandshakeInv, vars, consVars, histVars
  <2>2. CASE cSize > 0
    <3>1. busy'
      BY <1>2, <2>2, Zenon DEF Transmit
    <3>2. QED
      BY <1>0, <2>1, <3>1 DEF WireInv
  <2>3. CASE cSize = 0
    <3>0. ~(cSize > 0)
      BY <2>3
    <3>1. ~busy'
      BY <1>2, <2>1, <3>0, Zenon DEF Transmit
    <3>2. QED
      BY <2>1, <2>3, <3>1 DEF WireInv
  <2>4. QED
    BY <1>0, <2>2, <2>3
<1>3. CASE TxComplete
  BY <1>0, <1>3 DEF TxComplete, WireInv, HandshakeInv, vars, consVars, histVars
<1>4. CASE FlagWait
  BY <1>0, <1>4 DEF FlagWait, WireInv, HandshakeInv, ConsumerLoop, histVars
<1>5. CASE UNCHANGED serialVars
  BY <1>5 DEF serialVars, uartVars, vars, consVars, histVars, WireInv
<1>6. QED
  BY <1>1, <1>2, <1>3, <1>4, <1>5 DEF SerialNext

\* While no push has filled the ring, the DMA transmits the bytes pushed, each
\* once and in order.
THEOREM WireKeepsOrder == Untorn /\ SerialSpec => []WireInOrder
<1> SUFFICES ASSUME Untorn PROVE SerialSpec => []WireInOrder
  OBVIOUS
<1>1. SerialInit => WireInv
  BY DEF SerialInit, Init, WireInv, Behind
<1>2. TypeOK /\ SemInv /\ OrderInv /\ HandshakeInv /\ WireInv
        /\ [SerialNext]_serialVars => WireInv'
  BY WireStep
<1>3. SerialSpec => [](TypeOK /\ SemInv /\ OrderInv)
  BY ThreadIsConsumer, TypeCorrect, SemInvHolds, OrderInvHolds, PTL
<1>4. HandshakeInv /\ WireInv => WireInOrder
  BY DEF HandshakeInv, WireInv, Behind, WireInOrder
<1>5. QED
  BY <1>1, <1>2, <1>3, <1>4, HandshakeHolds, PTL DEF SerialSpec
=============================================================================
