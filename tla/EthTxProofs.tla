----------------------------- MODULE EthTxProofs -----------------------------
(***************************************************************************)
(* Proofs about EthTx, for a ring and counters of any size, any number of   *)
(* frames and any interrupts: types, that the DMA's descriptors are not     *)
(* written to, that time stamps are not lost and not mixed up, and that the *)
(* ring is a first-in first-out channel.                                    *)
(***************************************************************************)
EXTENDS EthTx, FunctionTheorems, FiniteSetTheorems, TLAPS

(***************************************************************************)
(* Types                                                                    *)
(***************************************************************************)

\* A descriptor that asks for a stamp has a callback, and so has one that holds
\* a stamp: what ETHHW_Transmit wipes is the stamp of a frame.
HasCallback == \A j \in Slots : slot[j].ttse \/ HasStamp(slot[j]) => slot[j].cb # 0

\* The descriptor the task is working at is its own.
Released == tpc \in {"erase", "erase3", "fill", "handOver"} => ~slot[nextIdx].own

TypeInv == TypeOK /\ HasCallback /\ Released /\ (tpc # "idle" => n # 0)

SlotType == slot \in [Slots -> Slot]

TaskType ==
    /\ nextIdx \in Slots /\ sent \in 0..CounterMod - 1
    /\ tpc \in {"idle", "wait", "erase", "erase3", "fill", "handOver", "kick"}
    /\ n \in 0..MaxFrames /\ requested \subseteq 1..n /\ wiped \subseteq Frames

IsrType ==
    /\ ipc \in {"idle", "clear", "notify", "scan", "deliver", "exit"}
    /\ csr \subseteq {"RI", "TI"} /\ acked \in 0..CounterMod - 1
    /\ i \in Slots /\ first \in BOOLEAN /\ minIdx \in Slots
    /\ minDelta \in -CounterMod..CounterMod /\ found \in Nat
    /\ calls \in Seq([arg : Frames, stamp : 0..MaxFrames, cut : 0..Parts])

DmaType ==
    /\ dmacsr \subseteq {"RI", "TI"} /\ rx \in 0..MaxRx
    /\ dma \in [at : Slots, pc : {"run", "stopped", "send", "raise"},
                frame : 0..MaxFrames, closed : 0..MaxFrames]

LEMMA TypeParts == TypeOK <=> SlotType /\ TaskType /\ IsrType /\ DmaType
  BY Zenon DEF TypeOK, SlotType, TaskType, IsrType, DmaType

LEMMA TypePartsNext == TypeOK' <=> SlotType' /\ TaskType' /\ IsrType' /\ DmaType'
  BY Zenon DEF TypeOK, SlotType, TaskType, IsrType, DmaType

LEMMA TypeInit == Init => TypeInv
<1> SUFFICES ASSUME Init PROVE TypeInv
  OBVIOUS
<1> USE TxAssumption DEF Init, Slots
<1>1. SlotType
  BY DEF SlotType, Slot
<1>2. TaskType /\ IsrType /\ DmaType
  BY DEF TaskType, IsrType, DmaType, Frames
<1>3. HasCallback
  BY DEF HasCallback, HasStamp
<1>4. QED
  BY <1>1, <1>2, <1>3, TypeParts DEF TypeInv, Released

\* One descriptor is written.
LEMMA SlotWritten ==
    ASSUME SlotType, HasCallback, NEW j \in Slots, NEW e \in Slot,
           slot' = [slot EXCEPT ![j] = e], e.ttse \/ HasStamp(e) => e.cb # 0
    PROVE  SlotType' /\ HasCallback' /\ slot'[j] = e
  BY DEF SlotType, HasCallback

\* A step of the task, by parts.
LEMMA TaskKeepsTypes ==
    ASSUME TypeInv, TransmitStep \/ \E stamped \in BOOLEAN : Transmit(stamped)
    PROVE  TypeInv'
<1>0. SlotType /\ TaskType /\ IsrType /\ DmaType /\ HasCallback /\ Released
      /\ (tpc # "idle" => n # 0)
  BY TypeParts DEF TypeInv
<1> DEFINE d == slot[nextIdx]
<1>d. nextIdx \in Slots /\ d \in Slot /\ (d.ttse \/ HasStamp(d) => d.cb # 0)
  BY <1>0, Zenon DEF SlotType, TaskType, HasCallback
<1>w. ASSUME NEW e \in Slot, slot' = [slot EXCEPT ![nextIdx] = e],
             e.ttse \/ HasStamp(e) => e.cb # 0
      PROVE  SlotType' /\ HasCallback' /\ slot'[nextIdx] = e
  BY <1>0, <1>d, <1>w, SlotWritten
<1>k. ASSUME UNCHANGED slot PROVE SlotType' /\ HasCallback'
  BY <1>0, <1>k DEF SlotType, HasCallback, HasStamp
<1> USE TxAssumption DEF TaskStep, stateVars, isrVars
<1>1. CASE \E stamped \in BOOLEAN : Transmit(stamped)
  <2>1. TaskType' /\ IsrType' /\ DmaType' /\ n' # 0
    BY <1>0, <1>1 DEF Transmit, TaskType, IsrType, DmaType
  <2>2. UNCHANGED slot /\ tpc' = "wait"
    BY <1>1 DEF Transmit
  <2>3. QED
    BY <2>1, <2>2, <1>k, TypePartsNext DEF TypeInv, Released
<1>2. CASE WaitReleased
  <2>1. TaskType' /\ IsrType' /\ DmaType' /\ n' # 0
    BY <1>0, <1>2 DEF WaitReleased, TaskType, IsrType, DmaType
  <2>2. UNCHANGED <<slot, nextIdx>> /\ ~slot[nextIdx].own
    BY <1>2 DEF WaitReleased
  <2>3. QED
    BY <2>1, <2>2, <1>k, TypePartsNext DEF TypeInv, Released
<1>3. CASE EraseStamp
  <2> DEFINE e == [d EXCEPT !.cut = d.cut + 1]
  <2>1. TaskType' /\ IsrType' /\ DmaType' /\ n' # 0
    BY <1>0, <1>3 DEF EraseStamp, TaskType, IsrType, DmaType
  <2>2. d.cut + 1 \in 0..Parts /\ ~d.own
    BY <1>0, <1>3, <1>d DEF Released, EraseStamp, Slot
  <2>3. e \in Slot
    BY <1>d, <2>2 DEF Slot
  <2>4. e.cb = d.cb /\ e.own = d.own /\ e.ttss = d.ttss /\ e.ttse = d.ttse
    BY <1>d DEF Slot
  <2>5. slot' = [slot EXCEPT ![nextIdx] = e] /\ UNCHANGED nextIdx
    BY <1>0, <1>3, <1>d DEF EraseStamp, SlotType
  <2> HIDE DEF e
  <2>6. e.ttse \/ HasStamp(e) => e.cb # 0
    BY <1>d, <2>4, Zenon DEF HasStamp
  <2>7. SlotType' /\ HasCallback' /\ slot'[nextIdx] = e
    BY <2>3, <2>5, <2>6, <1>w
  <2>8. QED
    BY <2>1, <2>2, <2>4, <2>5, <2>7, TypePartsNext DEF TypeInv, Released
<1>3m. CASE EraseMode
  <2> DEFINE e == [d EXCEPT !.ttse = FALSE]
  <2>1. TaskType' /\ IsrType' /\ DmaType' /\ n' # 0
    BY <1>0, <1>3m DEF EraseMode, TaskType, IsrType, DmaType
  <2>2. e \in Slot /\ ~e.ttse
    BY <1>d DEF Slot
  <2>3. e.cb = d.cb /\ e.own = d.own /\ e.ttss = d.ttss /\ ~d.own
    BY <1>0, <1>3m, <1>d DEF Slot, Released, EraseMode
  <2>4. slot' = [slot EXCEPT ![nextIdx] = e] /\ UNCHANGED nextIdx
    BY <1>0, <1>3m, <1>d DEF EraseMode, SlotType
  <2> HIDE DEF e
  <2>5. e.ttse \/ HasStamp(e) => e.cb # 0
    BY <1>d, <2>2, <2>3, Zenon DEF HasStamp
  <2>6. SlotType' /\ HasCallback' /\ slot'[nextIdx] = e
    BY <2>2, <2>4, <2>5, <1>w
  <2>7. QED
    BY <2>1, <2>3, <2>4, <2>6, TypePartsNext DEF TypeInv, Released
<1>4. CASE EraseFlags
  <2> DEFINE e == [d EXCEPT !.own = FALSE, !.ttss = FALSE]
  <2>1. d.ttss => d.cb \in Frames
    BY <1>0, <1>4, <1>d DEF EraseFlags, Released, HasStamp, Slot, Frames
  <2>2. TaskType' /\ IsrType' /\ DmaType' /\ n' # 0
    BY <1>0, <1>4, <2>1 DEF EraseFlags, TaskType, IsrType, DmaType
  <2>3. e \in Slot /\ ~HasStamp(e) /\ e.ttse = d.ttse /\ e.cb = d.cb /\ ~e.own
    BY <1>d DEF Slot, HasStamp
  <2>4. slot' = [slot EXCEPT ![nextIdx] = e] /\ UNCHANGED nextIdx
    BY <1>0, <1>4, <1>d DEF EraseFlags, SlotType
  <2>5. SlotType' /\ HasCallback' /\ slot'[nextIdx] = e
    BY <2>3, <2>4, <1>d, <1>w
  <2>6. QED
    BY <2>2, <2>3, <2>4, <2>5, TypePartsNext DEF TypeInv, Released
<1>5. CASE Fill
  <2> DEFINE asked == n \in requested
             e == [d EXCEPT !.cb = IF asked THEN n ELSE d.cb, !.cntr = sent',
                            !.buf = n, !.ttse = asked]
  <2>1. sent' \in 0..CounterMod - 1
    BY <1>0, <1>5 DEF Fill, TaskType
  <2>2. TaskType' /\ IsrType' /\ DmaType' /\ n' # 0
    BY <1>0, <1>5, <2>1 DEF Fill, TaskType, IsrType, DmaType
  <2>3. n \in 0..MaxFrames /\ n # 0 /\ asked \in BOOLEAN /\ ~d.own
    BY <1>0, <1>5 DEF Fill, TaskType, Released
  <2>4. slot' = [slot EXCEPT ![nextIdx] = e] /\ UNCHANGED nextIdx
    BY <1>0, <1>5, <1>d DEF Fill, SlotType
  <2> HIDE DEF asked
  <2>5. e \in Slot
    BY <1>d, <2>1, <2>3 DEF Slot
  <2>6. e.own = d.own /\ e.ttss = d.ttss /\ e.ttse = asked /\ e.cb = (IF asked THEN n ELSE d.cb)
    BY <1>d DEF Slot
  <2>7. e.ttse \/ HasStamp(e) => e.cb # 0
    BY <1>d, <2>3, <2>6, Zenon DEF HasStamp
  <2>8. SlotType' /\ HasCallback' /\ slot'[nextIdx] = e
    BY <2>4, <2>5, <2>7, <1>w
  <2>9. QED
    BY <2>2, <2>3, <2>4, <2>6, <2>8, TypePartsNext DEF TypeInv, Released
<1>6. CASE HandOver
  <2> DEFINE e == [d EXCEPT !.own = TRUE, !.ttss = TRUE]
  <2>1. TaskType' /\ IsrType' /\ DmaType' /\ n' # 0
    BY <1>0, <1>6 DEF HandOver, TaskType, IsrType, DmaType
  <2>2. e \in Slot /\ (e.ttse \/ HasStamp(e) => e.cb # 0)
    BY <1>d DEF Slot, HasStamp
  <2>3. slot' = [slot EXCEPT ![nextIdx] = e] /\ tpc' = "kick"
    BY <1>0, <1>6, <1>d DEF HandOver, SlotType
  <2>4. SlotType' /\ HasCallback'
    BY <2>2, <2>3, <1>w
  <2>5. QED
    BY <2>1, <2>3, <2>4, TypePartsNext DEF TypeInv, Released
<1>7. CASE Kick
  <2>1. nextIdx' \in Slots
    BY <1>0, <1>7 DEF Kick, TaskType, Slots
  <2>2. TaskType' /\ IsrType' /\ DmaType' /\ tpc' = "idle"
    BY <1>0, <1>7, <2>1 DEF Kick, TaskType, IsrType, DmaType
  <2>3. UNCHANGED slot
    BY <1>7 DEF Kick
  <2>4. QED
    BY <2>2, <2>3, <1>k, TypePartsNext DEF TypeInv, Released
<1>8. QED
  BY <1>1, <1>2, <1>3, <1>3m, <1>4, <1>5, <1>6, <1>7 DEF TransmitStep

\* A step of the DMA, by parts.
LEMMA DmaKeepsTypes ==
    ASSUME TypeInv, DmaStep \/ DmaReceives
    PROVE  TypeInv'
<1>0. SlotType /\ TaskType /\ IsrType /\ DmaType /\ HasCallback /\ Released
      /\ (tpc # "idle" => n # 0)
  BY TypeParts DEF TypeInv
<1>t. UNCHANGED <<stateVars, taskVars, isrVars>>
  BY DEF DmaStep, DmaFetch, DmaClose, DmaRaise, DmaReceives
<1>p. TaskType' /\ IsrType' /\ (tpc' # "idle" => n' # 0)
  BY <1>0, <1>t DEF TaskType, IsrType, stateVars, taskVars, isrVars
<1>k. ASSUME UNCHANGED slot PROVE SlotType' /\ HasCallback' /\ Released'
  BY <1>0, <1>k, <1>t DEF SlotType, HasCallback, HasStamp, Released, stateVars, taskVars
<1> DEFINE d == slot[dma.at]
<1>d. dma.at \in Slots /\ d \in Slot /\ (d.ttse \/ HasStamp(d) => d.cb # 0)
  BY <1>0 DEF SlotType, DmaType, HasCallback
<1>1. CASE DmaFetch
  <2>1. d.buf \in 0..MaxFrames
    BY <1>d DEF Slot
  <2>2. DmaType'
    BY <1>0, <1>1, <2>1 DEF DmaFetch, DmaType
  <2>3. UNCHANGED slot
    BY <1>1 DEF DmaFetch
  <2>4. QED
    BY <1>p, <1>k, <2>2, <2>3, TypePartsNext DEF TypeInv
<1>2. CASE DmaClose
  <2> DEFINE e == [d EXCEPT !.own = FALSE, !.ttss = d.ttse,
                            !.time = IF d.ttse THEN dma.frame ELSE d.time,
                            !.cut = IF d.ttse THEN 0 ELSE d.cut]
  <2>1. (dma.at + 1) % N \in Slots /\ dma.frame \in 0..MaxFrames /\ 0 \in 0..Parts
    BY <1>0, TxAssumption DEF DmaType, Slots
  <2>2. DmaType'
    <3>1. dma' = [at |-> (dma.at + 1) % N, pc |-> IF d.ttse THEN "raise" ELSE "run",
                  frame |-> 0, closed |-> dma.frame]
          /\ UNCHANGED <<dmacsr, rx>>
      BY <1>2 DEF DmaClose
    <3>2. QED
      BY <1>0, <2>1, <3>1, TxAssumption DEF DmaType
  <2>3. slot' = [slot EXCEPT ![dma.at] = e]
    BY <1>0, <1>2, <1>d DEF DmaClose, SlotType
  <2>4. e \in Slot /\ ~e.own /\ e.ttse = d.ttse /\ e.ttss = d.ttse /\ e.cb = d.cb
    BY <1>d, <2>1 DEF Slot
  <2>5. e.ttse \/ HasStamp(e) => e.cb # 0
    BY <1>d, <2>4, Zenon DEF HasStamp
  <2>6. SlotType' /\ HasCallback' /\ slot'[dma.at] = e
    BY <1>0, <1>d, <2>3, <2>4, <2>5, SlotWritten
  <2>7. Released'
    BY <1>0, <1>t, <1>d, <2>3, <2>4, <2>6 DEF Released, SlotType, TaskType, stateVars, taskVars
  <2>8. QED
    BY <1>p, <2>2, <2>6, <2>7, TypePartsNext DEF TypeInv
<1>3. CASE DmaRaise \/ DmaReceives
  <2>1. DmaType' /\ UNCHANGED slot
    BY <1>0, <1>3, TxAssumption DEF DmaRaise, DmaReceives, DmaType
  <2>2. QED
    BY <1>p, <1>k, <2>1, TypePartsNext DEF TypeInv
<1>4. QED
  BY <1>1, <1>2, <1>3 DEF DmaStep

\* A step of the handler, by parts.
LEMMA IsrKeepsTypes ==
    ASSUME TypeInv, IsrStep
    PROVE  TypeInv'
<1>0. SlotType /\ TaskType /\ IsrType /\ DmaType /\ HasCallback /\ Released
      /\ (tpc # "idle" => n # 0)
  BY TypeParts DEF TypeInv
<1>t. UNCHANGED <<nextIdx, sent, taskVars, dma, rx>>
  BY DEF IsrStep, IsrEnter, IsrClear, IsrNotify, Scan, Deliver, IsrExit, stateVars
<1>p. TaskType' /\ (tpc' # "idle" => n' # 0)
  BY <1>0, <1>t DEF TaskType, taskVars
<1>k. ASSUME UNCHANGED slot PROVE SlotType' /\ HasCallback' /\ Released'
  BY <1>0, <1>k, <1>t DEF SlotType, HasCallback, HasStamp, Released, taskVars
<1>1. CASE IsrEnter \/ IsrClear \/ IsrNotify \/ IsrExit
  <2>0. acked' = acked /\ calls' = calls
    BY <1>1 DEF IsrEnter, IsrClear, IsrNotify, IsrExit, stateVars
  <2>1. IsrType'
    <3>1. CASE IsrEnter \/ IsrNotify \/ IsrExit
      BY <1>0, <2>0, <3>1 DEF IsrEnter, IsrNotify, IsrExit, IsrType, DmaType
    <3>2. CASE IsrClear
      <4>1. 0 \in Slots /\ 0 \in -CounterMod..CounterMod
        BY TxAssumption DEF Slots
      <4>2. i' \in Slots /\ minIdx' \in Slots /\ minDelta' \in -CounterMod..CounterMod
            /\ found' \in Nat
        BY <1>0, <3>2, <4>1 DEF IsrClear, IsrType
      <4>3. first' \in BOOLEAN
        BY <1>0, <3>2, Zenon DEF IsrClear, IsrType
      <4>4. ipc' \in {"notify", "scan"} /\ csr' = csr
        BY <3>2 DEF IsrClear
      <4>5. QED
        BY <1>0, <2>0, <4>2, <4>3, <4>4 DEF IsrType
    <3>3. QED
      BY <1>1, <3>1, <3>2
  <2>2. DmaType' /\ UNCHANGED slot
    BY <1>0, <1>1 DEF IsrEnter, IsrClear, IsrNotify, IsrExit, DmaType
  <2>3. QED
    BY <1>p, <1>k, <2>1, <2>2, TypePartsNext DEF TypeInv
<1>2. CASE Scan
  <2> DEFINE delta == slot[i].cntr - acked
  <2>1. delta \in -CounterMod..CounterMod
    <3>1. slot[i] \in Slot /\ acked \in 0..CounterMod - 1
      BY <1>0 DEF SlotType, IsrType
    <3>2. slot[i].cntr \in 0..CounterMod - 1
      BY <3>1 DEF Slot
    <3>3. QED
      BY <3>1, <3>2, TxAssumption
  <2>2. i' \in Slots /\ ipc' \in {"scan", "deliver"}
    BY <1>0, <1>2, TxAssumption DEF Scan, IsrType, Slots
  <2>3. found' \in Nat /\ first' \in BOOLEAN /\ minIdx' \in Slots
        /\ minDelta' \in -CounterMod..CounterMod
    <3>1. CASE HasStamp(slot[i])
      <4>1. found' = found + 1 /\ first' = FALSE
            /\ ((minIdx' = i /\ minDelta' = delta) \/ UNCHANGED <<minIdx, minDelta>>)
        BY <1>2, <3>1 DEF Scan
      <4>2. first' \in BOOLEAN
        BY <4>1, Zenon
      <4>3. found' \in Nat
        BY <1>0, <4>1 DEF IsrType
      <4>4. minIdx' \in Slots /\ minDelta' \in -CounterMod..CounterMod
        BY <1>0, <2>1, <4>1, Zenon DEF IsrType
      <4>5. QED
        BY <4>2, <4>3, <4>4
    <3>2. CASE ~HasStamp(slot[i])
      BY <1>0, <1>2, <3>2 DEF Scan, IsrType
    <3>3. QED
      BY <3>1, <3>2
  <2>4. IsrType' /\ DmaType' /\ UNCHANGED slot
    BY <1>0, <1>2, <2>2, <2>3 DEF Scan, IsrType, DmaType, stateVars
  <2>5. QED
    BY <1>p, <1>k, <2>4, TypePartsNext DEF TypeInv
<1>3. CASE Deliver
  <2> DEFINE d == slot[minIdx]
             e == [d EXCEPT !.own = FALSE, !.ttss = FALSE, !.time = 0, !.cut = Parts,
                           !.ttse = FALSE, !.cb = 0]
  <2>1. minIdx \in Slots /\ d \in Slot
    BY <1>0 DEF SlotType, IsrType
  <2>2. d.cb \in 0..MaxFrames /\ d.time \in 0..MaxFrames /\ d.cut \in 0..Parts
        /\ d.cntr \in 0..CounterMod - 1
    BY <2>1 DEF Slot
  <2>3. calls' \in Seq([arg : Frames, stamp : 0..MaxFrames, cut : 0..Parts])
    <3> DEFINE Call == [arg : Frames, stamp : 0..MaxFrames, cut : 0..Parts]
               c == [arg |-> d.cb, stamp |-> d.time, cut |-> d.cut]
    <3>1. d.cb # 0 => c \in Call
      BY <2>2 DEF Frames
    <3>2. calls' = calls \/ (d.cb # 0 /\ calls' = Append(calls, c))
      BY <1>3 DEF Deliver
    <3>3. calls \in Seq(Call)
      BY <1>0 DEF IsrType
    <3> HIDE DEF Call, c
    <3>4. calls' \in Seq(Call)
      BY <3>1, <3>2, <3>3
    <3>5. QED
      BY <3>4 DEF Call
  <2>4. IsrType' /\ DmaType'
    <3>1. UNCHANGED <<csr, i, minIdx, minDelta, dmacsr, dma, rx>> /\ first' = TRUE
          /\ ipc' \in {"scan", "exit"}
      BY <1>3 DEF Deliver
    <3>2. acked' \in 0..CounterMod - 1 /\ found' \in Nat
      BY <1>0, <1>3, <2>2 DEF Deliver, IsrType
    <3>3. QED
      BY <1>0, <2>3, <3>1, <3>2 DEF IsrType, DmaType
  <2>5. CASE found > 0
    <3>1. slot' = [slot EXCEPT ![minIdx] = e]
      BY <1>3, <2>5 DEF Deliver
    <3>2a. 0 \in 0..MaxFrames /\ Parts \in 0..Parts
      BY TxAssumption
    <3>2b. e = [d EXCEPT !.own = FALSE, !.ttss = FALSE, !.time = 0, !.cut = Parts,
                           !.ttse = FALSE, !.cb = 0]
      OBVIOUS
    <3> HIDE DEF e
    <3>2. e \in Slot /\ ~e.own /\ ~e.ttse /\ ~e.ttss
      BY <2>1, <3>2a, <3>2b DEF Slot
    <3>3. SlotType' /\ HasCallback' /\ slot'[minIdx] = e
      BY <1>0, <2>1, <3>1, <3>2, SlotWritten DEF HasStamp
    <3>4. Released'
      BY <1>0, <1>t, <2>1, <3>1, <3>2, <3>3 DEF Released, SlotType, TaskType, taskVars
    <3>5. QED
      BY <1>p, <2>4, <3>3, <3>4, TypePartsNext DEF TypeInv
  <2>6. CASE ~(found > 0)
    <3>1. UNCHANGED slot
      BY <1>3, <2>6 DEF Deliver
    <3>2. QED
      BY <1>p, <1>k, <2>4, <3>1, TypePartsNext DEF TypeInv
  <2>7. QED
    BY <2>5, <2>6
<1>4. QED
  BY <1>1, <1>2, <1>3 DEF IsrStep

LEMMA TypeKept == TypeInv /\ [Next]_vars => TypeInv'
<1> SUFFICES ASSUME TypeInv, [Next]_vars PROVE TypeInv'
  OBVIOUS
<1>1. CASE UNCHANGED vars
  BY <1>1 DEF vars, stateVars, taskVars, isrVars, TypeInv, TypeOK, HasCallback, HasStamp, Released
<1>2. QED
  BY <1>1, TaskKeepsTypes, DmaKeepsTypes, IsrKeepsTypes, Zenon DEF Next

\* For any ring, counters, frames and interrupts every variable keeps its type.
\* No stamp is wiped that belongs to no frame: the descriptor the task wipes is
\* its own, and one with a stamp has a callback.
THEOREM TypeCorrect == Spec => []TypeOK
<1>1. TypeInv => TypeOK
  BY DEF TypeInv
<1>2. QED
  BY TypeInit, TypeKept, <1>1, PTL DEF Spec

(***************************************************************************)
(* The DMA's descriptors                                                    *)
(***************************************************************************)

\* During a search the descriptor chosen is not the DMA's. found counts on from
\* search to search, and a search that finds nothing leaves the index of the
\* descriptor delivered last: one the handler has cleared, and which the task,
\* interrupted, cannot have given away since.
ChosenInv ==
    ipc \in {"scan", "deliver"} => IF found > 0 THEN ~slot[minIdx].own ELSE first

LEMMA ChosenKept == TypeOK /\ ChosenInv /\ [Next]_vars => ChosenInv'
<1> SUFFICES ASSUME TypeOK, ChosenInv, [Next]_vars PROVE ChosenInv'
  OBVIOUS
<1>0. SlotType /\ TaskType /\ IsrType /\ DmaType
  BY TypeParts
<1>1. CASE TransmitStep \/ \E stamped \in BOOLEAN : Transmit(stamped)
  BY <1>1 DEF ChosenInv, TransmitStep, Transmit, WaitReleased, EraseStamp, EraseMode, EraseFlags, Fill,
              HandOver, Kick, TaskStep, isrVars
<1>2. CASE DmaFetch \/ DmaRaise \/ DmaReceives \/ UNCHANGED vars
  BY <1>2 DEF ChosenInv, DmaFetch, DmaRaise, DmaReceives, isrVars, vars
<1>3. CASE DmaClose
  <2>1. slot'[minIdx].own => slot[minIdx].own
    BY <1>0, <1>3 DEF DmaClose, SlotType, Slot, IsrType, DmaType
  <2>2. UNCHANGED <<ipc, found, minIdx, first>>
    BY <1>3 DEF DmaClose, isrVars
  <2>3. QED
    BY <2>1, <2>2 DEF ChosenInv
<1>4. CASE IsrEnter \/ IsrClear \/ IsrNotify \/ IsrExit
  BY <1>4 DEF ChosenInv, IsrEnter, IsrClear, IsrNotify, IsrExit
<1>5. CASE Scan
  <2>1. CASE HasStamp(slot[i])
    <3>1. found' > 0 /\ (minIdx' = i \/ (minIdx' = minIdx /\ ~first))
      BY <1>0, <1>5, <2>1 DEF Scan, IsrType
    <3>2. ~slot[i].own /\ (~first => ~slot[minIdx].own)
      BY <1>0, <1>5, <2>1 DEF ChosenInv, HasStamp, Scan, IsrType
    <3>3. slot' = slot
      BY <1>5 DEF Scan
    <3>4. QED
      BY <3>1, <3>2, <3>3 DEF ChosenInv
  <2>2. CASE ~HasStamp(slot[i])
    BY <1>5, <2>2 DEF ChosenInv, Scan
  <2>3. QED
    BY <2>1, <2>2
<1>6. CASE Deliver
  <2>1. first' /\ minIdx' = minIdx
    BY <1>6 DEF Deliver
  <2>2. CASE found > 0
    <3>1. ~slot'[minIdx].own
      BY <1>0, <1>6, <2>2 DEF Deliver, SlotType, IsrType, Slot
    <3>2. QED
      BY <2>1, <3>1 DEF ChosenInv
  <2>3. CASE ~(found > 0)
    BY <1>0, <1>6, <2>1, <2>3 DEF ChosenInv, Deliver, IsrType
  <2>4. QED
    BY <2>2, <2>3
<1>7. QED
  BY <1>1, <1>2, <1>3, <1>4, <1>5, <1>6, Zenon DEF Next, DmaStep, IsrStep

LEMMA OwnedKept ==
    ASSUME TypeInv, ChosenInv, [Next]_vars, NEW j \in Slots, slot[j].own, slot'[j] # slot[j]
    PROVE  DmaClose
<1>0. SlotType /\ TaskType /\ IsrType /\ DmaType /\ Released
  BY TypeParts DEF TypeInv
<1>1. CASE TransmitStep
  <2>1. CASE EraseStamp \/ EraseMode \/ EraseFlags \/ Fill \/ HandOver
    <3>1. nextIdx # j
      BY <1>0, <2>1 DEF Released, EraseStamp, EraseMode, EraseFlags, Fill, HandOver, TaskStep
    <3>2. QED
      BY <1>0, <2>1, <3>1 DEF EraseStamp, EraseMode, EraseFlags, Fill, HandOver, SlotType
  <2>2. CASE WaitReleased \/ Kick
    BY <2>2 DEF WaitReleased, Kick
  <2>3. QED
    BY <1>1, <2>1, <2>2 DEF TransmitStep
<1>2. CASE Deliver
  <2>1. CASE found > 0
    <3>1. minIdx # j
      BY <1>2, <2>1 DEF Deliver, ChosenInv
    <3>2. QED
      BY <1>0, <1>2, <2>1, <3>1 DEF Deliver, SlotType
  <2>2. QED
    BY <1>2, <2>1 DEF Deliver
<1>3. CASE IsrEnter \/ IsrClear \/ IsrNotify \/ IsrExit \/ Scan
  BY <1>3 DEF IsrEnter, IsrClear, IsrNotify, IsrExit, Scan
<1>4. CASE DmaFetch \/ DmaRaise \/ DmaReceives \/ UNCHANGED vars
  BY <1>4 DEF DmaFetch, DmaRaise, DmaReceives, vars
<1>5. CASE \E stamped \in BOOLEAN : Transmit(stamped)
  BY <1>5 DEF Transmit
<1>6. QED
  BY <1>1, <1>2, <1>3, <1>4, <1>5, Zenon DEF Next, DmaStep, IsrStep

\* For any ring, counters, frames and interrupts: a descriptor given to the DMA
\* is changed by the DMA alone, the surplus rounds of ETHHW_ProcessTx included.
THEOREM OwnedIsUntouched == Spec => OwnedUntouched
<1>1. Init => ChosenInv
  BY DEF Init, ChosenInv
<1>2. TypeInv => TypeOK
  BY DEF TypeInv
<1>3. TypeInv /\ ChosenInv /\ [Next]_vars
      => [\A j \in Slots : slot[j].own /\ slot'[j] # slot[j] => DmaClose]_vars
  BY OwnedKept, Zenon
<1>4. QED
  BY TypeInit, TypeKept, ChosenKept, <1>1, <1>2, <1>3, PTL DEF Spec, OwnedUntouched

(***************************************************************************)
(* What the steps write                                                     *)
(***************************************************************************)

\* A part of the stamp in the task's descriptor goes.
LEMMA EraseStampWrites ==
    ASSUME TypeInv, EraseStamp
    PROVE  /\ \A j \in Slots \ {nextIdx} : slot'[j] = slot[j]
           /\ slot'[nextIdx].cb = slot[nextIdx].cb /\ slot'[nextIdx].buf = slot[nextIdx].buf
           /\ slot'[nextIdx].time = slot[nextIdx].time
           /\ ~slot'[nextIdx].own /\ (slot'[nextIdx].ttse <=> slot[nextIdx].ttse)
           /\ (slot'[nextIdx].ttss <=> slot[nextIdx].ttss)
<1>1. slot \in [Slots -> Slot] /\ nextIdx \in Slots /\ ~slot[nextIdx].own
  BY DEF TypeInv, TypeOK, Released, EraseStamp, TaskStep
<1>2. QED
  BY <1>1 DEF EraseStamp, Slot

\* It asks for no stamp any more.
LEMMA EraseModeWrites ==
    ASSUME TypeInv, EraseMode
    PROVE  /\ \A j \in Slots \ {nextIdx} : slot'[j] = slot[j]
           /\ slot'[nextIdx].cb = slot[nextIdx].cb /\ slot'[nextIdx].buf = slot[nextIdx].buf
           /\ slot'[nextIdx].time = slot[nextIdx].time
           /\ ~slot'[nextIdx].own /\ ~slot'[nextIdx].ttse
           /\ (slot'[nextIdx].ttss <=> slot[nextIdx].ttss)
<1>1. slot \in [Slots -> Slot] /\ nextIdx \in Slots /\ ~slot[nextIdx].own
  BY DEF TypeInv, TypeOK, Released, EraseMode, TaskStep
<1>2. QED
  BY <1>1 DEF EraseMode, Slot

\* It loses its flags.
LEMMA EraseFlagsWrites ==
    ASSUME TypeInv, EraseFlags
    PROVE  /\ \A j \in Slots \ {nextIdx} : slot'[j] = slot[j]
           /\ slot'[nextIdx].cb = slot[nextIdx].cb /\ slot'[nextIdx].buf = slot[nextIdx].buf
           /\ ~slot'[nextIdx].own /\ ~slot'[nextIdx].ttss
           /\ (slot'[nextIdx].ttse <=> slot[nextIdx].ttse)
<1>1. slot \in [Slots -> Slot] /\ nextIdx \in Slots
  BY DEF TypeInv, TypeOK
<1>2. QED
  BY <1>1 DEF EraseFlags, Slot

\* It is filled.
LEMMA FillWrites ==
    ASSUME TypeInv, Fill
    PROVE  /\ \A j \in Slots \ {nextIdx} : slot'[j] = slot[j]
           /\ slot'[nextIdx].cb = (IF n \in requested THEN n ELSE slot[nextIdx].cb)
           /\ slot'[nextIdx].buf = n
           /\ ~slot'[nextIdx].own
           /\ (slot'[nextIdx].ttss <=> slot[nextIdx].ttss)
           /\ (slot'[nextIdx].ttse <=> n \in requested)
<1>1. slot \in [Slots -> Slot] /\ nextIdx \in Slots /\ ~slot[nextIdx].own
  BY DEF TypeInv, TypeOK, Released, Fill, TaskStep
<1> DEFINE d == slot[nextIdx]
           asked == n \in requested
           e == [d EXCEPT !.cb = IF asked THEN n ELSE d.cb, !.cntr = sent', !.buf = n,
                          !.ttse = asked]
<1>2. slot' = [slot EXCEPT ![nextIdx] = e]
  BY <1>1 DEF Fill
<1>3. asked \in BOOLEAN
  OBVIOUS
<1>4. slot'[nextIdx] = e /\ \A j \in Slots \ {nextIdx} : slot'[j] = slot[j]
  BY <1>1, <1>2
<1>5. d \in Slot
  BY <1>1
<1> HIDE DEF asked, d
<1>6. e.cb = (IF asked THEN n ELSE d.cb) /\ e.buf = n /\ e.own = d.own /\ e.ttss = d.ttss
      /\ e.ttse = asked
  BY <1>5 DEF Slot
<1>7. QED
  BY <1>1, <1>4, <1>6, Zenon DEF d, asked

\* It goes to the DMA.
LEMMA HandOverWrites ==
    ASSUME TypeInv, HandOver
    PROVE  /\ \A j \in Slots \ {nextIdx} : slot'[j] = slot[j]
           /\ slot'[nextIdx].cb = slot[nextIdx].cb /\ slot'[nextIdx].buf = slot[nextIdx].buf
           /\ slot'[nextIdx].own
           /\ (slot'[nextIdx].ttse <=> slot[nextIdx].ttse)
<1>1. slot \in [Slots -> Slot] /\ nextIdx \in Slots
  BY DEF TypeInv, TypeOK
<1>2. QED
  BY <1>1 DEF HandOver, Slot

\* The DMA's descriptor comes back.
LEMMA DmaCloseWrites ==
    ASSUME TypeInv, DmaClose
    PROVE  /\ \A j \in Slots \ {dma.at} : slot'[j] = slot[j]
           /\ slot'[dma.at].cb = slot[dma.at].cb /\ slot'[dma.at].buf = slot[dma.at].buf
           /\ ~slot'[dma.at].own
           /\ (slot'[dma.at].ttse <=> slot[dma.at].ttse)
           /\ (slot'[dma.at].ttss <=> slot[dma.at].ttse)
           /\ slot[dma.at].ttse => slot'[dma.at].time = dma.frame /\ slot'[dma.at].cut = 0
<1>1. slot \in [Slots -> Slot] /\ dma.at \in Slots
  BY DEF TypeInv, TypeOK
<1> DEFINE d == slot[dma.at]
           e == [d EXCEPT !.own = FALSE, !.ttss = d.ttse,
                          !.time = IF d.ttse THEN dma.frame ELSE d.time,
                          !.cut = IF d.ttse THEN 0 ELSE d.cut]
<1>2. slot' = [slot EXCEPT ![dma.at] = e]
  BY <1>1 DEF DmaClose
<1>3. slot'[dma.at] = e /\ \A j \in Slots \ {dma.at} : slot'[j] = slot[j]
  BY <1>1, <1>2
<1>4. d \in Slot
  BY <1>1
<1> HIDE DEF d
<1>5. e.cb = d.cb /\ e.buf = d.buf /\ ~e.own /\ e.ttse = d.ttse /\ e.ttss = d.ttse
      /\ e.time = (IF d.ttse THEN dma.frame ELSE d.time)
      /\ e.cut = (IF d.ttse THEN 0 ELSE d.cut)
  BY <1>4 DEF Slot
<1>6. QED
  BY <1>3, <1>5, Zenon DEF d

\* The handler clears the descriptor it has chosen, if there is one.
LEMMA DeliverWrites ==
    ASSUME TypeInv, Deliver, found > 0
    PROVE  /\ \A j \in Slots \ {minIdx} : slot'[j] = slot[j]
           /\ slot'[minIdx].cb = 0 /\ slot'[minIdx].buf = slot[minIdx].buf
           /\ ~slot'[minIdx].own /\ ~slot'[minIdx].ttse /\ ~slot'[minIdx].ttss
<1>1. slot \in [Slots -> Slot] /\ minIdx \in Slots
  BY DEF TypeInv, TypeOK
<1> DEFINE d == slot[minIdx]
           e == [d EXCEPT !.own = FALSE, !.ttss = FALSE, !.time = 0, !.cut = Parts,
                           !.ttse = FALSE, !.cb = 0]
<1>2. slot' = [slot EXCEPT ![minIdx] = e]
  BY DEF Deliver
<1>3. slot'[minIdx] = e /\ \A j \in Slots \ {minIdx} : slot'[j] = slot[j]
  BY <1>1, <1>2
<1>4. d \in Slot
  BY <1>1
<1> HIDE DEF d
<1>5. e.cb = 0 /\ e.buf = d.buf /\ ~e.own /\ ~e.ttse /\ ~e.ttss
  BY <1>4 DEF Slot
<1>6. QED
  BY <1>3, <1>5, Zenon DEF d

\* A step that writes no descriptor and is none of ETHHW_Transmit either.
Quiet == UNCHANGED <<slot, nextIdx, taskVars, calls>>

LEMMA StepCases ==
    ASSUME [Next]_vars
    PROVE  \/ Quiet \/ DmaClose \/ (Deliver /\ found > 0)
           \/ \E stamped \in BOOLEAN : Transmit(stamped)
           \/ WaitReleased \/ EraseStamp \/ EraseMode \/ EraseFlags \/ Fill \/ HandOver \/ Kick
<1>1. CASE DmaFetch \/ DmaRaise \/ DmaReceives \/ UNCHANGED vars
  BY <1>1 DEF Quiet, DmaFetch, DmaRaise, DmaReceives, vars, stateVars, isrVars
<1>2. CASE IsrEnter \/ IsrClear \/ IsrNotify \/ IsrExit \/ Scan
  BY <1>2 DEF Quiet, IsrEnter, IsrClear, IsrNotify, IsrExit, Scan, stateVars
<1>3. CASE Deliver /\ ~(found > 0)
  BY <1>3 DEF Quiet, Deliver
<1>4. QED
  BY <1>1, <1>2, <1>3, Zenon DEF Next, TransmitStep, DmaStep, IsrStep

(***************************************************************************)
(* The time stamps                                                          *)
(***************************************************************************)

\* How far a descriptor lies behind the index e: the one just before e by 0.
Back(j, e) == IF j < e THEN e - 1 - j ELSE e - 1 - j + N

Succ(j) == IF j = N - 1 THEN 0 ELSE j + 1

LEMMA SuccIsNext == \A j \in Slots : Succ(j) \in Slots /\ (j + 1) % N = Succ(j)
  BY TxAssumption DEF Succ, Slots

LEMMA BackRange ==
    \A j, e \in Slots : Back(j, e) \in 0..N - 1 /\ (j = e => Back(j, e) = N - 1)
  BY TxAssumption DEF Back, Slots

\* Distances are distances: one more from the next index, one less for the next
\* descriptor, and different for different descriptors.
LEMMA BackMoves ==
    ASSUME NEW j \in Slots, NEW e \in Slots
    PROVE  /\ Back(j, Succ(e)) = IF j = e THEN 0 ELSE Back(j, e) + 1
           /\ Back(j, e) = 0 => Succ(j) = e
           /\ Back(j, e) # 0 => Back(Succ(j), e) = Back(j, e) - 1
           /\ \A k \in Slots : Back(j, e) = Back(k, e) => j = k
  BY TxAssumption DEF Back, Succ, Slots

\* The frames whose descriptor has been filled, and passed.
Filled == IF tpc \in {"wait", "erase", "erase3", "fill"} THEN n - 1 ELSE n

Passed == IF tpc = "idle" THEN n ELSE n - 1

\* A callback is as old as its descriptor's place in the ring says.
AgeInv ==
    \A j \in Slots : slot[j].cb # 0 =>
        \/ slot[j].cb <= Passed - Back(j, nextIdx)
        \/ j = nextIdx /\ tpc \in {"handOver", "kick"} /\ slot[j].cb = n

\* What is stored belongs together: buffer, callback and stamp are one frame's,
\* which has asked for a stamp and got none yet.
BufInv == \A j \in Slots : slot[j].ttse => slot[j].buf = slot[j].cb

CbInv ==
    \A j \in Slots :
        slot[j].cb # 0 => slot[j].cb \in requested \ Delivered /\ slot[j].cb <= Filled

TimeInv ==
    \A j \in Slots :
        HasStamp(slot[j]) =>
            /\ slot[j].time = slot[j].cb
            /\ slot[j].cut = 0 \/ (tpc \in {"erase", "erase3"} /\ j = nextIdx)

OnceInv == \A j, k \in Slots : slot[j].cb # 0 /\ slot[j].cb = slot[k].cb => j = k

CallsInv == \A k \in DOMAIN calls : calls[k].arg <= Filled

\* The descriptor chosen has a stamp, or is one the handler has cleared.
PickInv ==
    ipc \in {"scan", "deliver"} /\ found > 0
        => HasStamp(slot[minIdx]) \/ slot[minIdx].cb = 0

\* The descriptor the task fills has no stamp.
EmptyInv == tpc \in {"fill", "handOver"} => ~slot[nextIdx].ttss

\* The frame being sent is that of the DMA's own descriptor.
SendInv == dma.pc = "send" => slot[dma.at].own /\ dma.frame = slot[dma.at].buf

Base == TypeInv /\ ChosenInv

LEMMA SendKept == Base /\ SendInv /\ [Next]_vars => SendInv'
<1> SUFFICES ASSUME Base, SendInv, [Next]_vars PROVE SendInv'
  OBVIOUS
<1>0. SlotType /\ DmaType /\ TypeInv /\ ChosenInv
  BY TypeParts DEF Base, TypeInv
<1>1. CASE DmaClose
  BY <1>1 DEF DmaClose, SendInv
<1>2. CASE DmaFetch
  BY <1>0, <1>2 DEF DmaFetch, SendInv, DmaType
<1>3. CASE ~DmaClose /\ ~DmaFetch
  <2>1. \A j \in Slots : slot[j].own => slot'[j] = slot[j]
    BY <1>0, <1>3, OwnedKept
  <2>2. UNCHANGED dma \/ dma'.pc # "send"
    BY <1>0, <1>3 DEF Next, TransmitStep, Transmit, WaitReleased, EraseStamp, EraseMode, EraseFlags, Fill,
       HandOver, Kick, DmaStep, DmaRaise, DmaReceives, IsrStep, IsrEnter, IsrClear, IsrNotify,
       Scan, Deliver, IsrExit, vars, DmaType
  <2>3. QED
    BY <1>0, <2>1, <2>2 DEF SendInv, DmaType
<1>4. QED
  BY <1>1, <1>2, <1>3

LEMMA AgeKept == Base /\ AgeInv /\ [Next]_vars => AgeInv'
<1> SUFFICES ASSUME Base, AgeInv, [Next]_vars PROVE AgeInv'
  OBVIOUS
<1>0. TypeInv /\ TypeOK /\ SlotType /\ TaskType /\ DmaType /\ IsrType
  BY TypeParts DEF Base, TypeInv
<1>b. \A j \in Slots : Back(j, nextIdx) \in 0..N - 1
  BY <1>0, BackRange DEF TaskType
<1>c. \A j \in Slots : slot[j].cb \in 0..MaxFrames
  BY <1>0 DEF SlotType, Slot
<1>1. ASSUME NEW k \in Slots, \A j \in Slots \ {k} : slot'[j] = slot[j],
             slot'[k].cb \in {0, slot[k].cb}, UNCHANGED <<nextIdx, n>>, Passed' = Passed,
             tpc \in {"handOver", "kick"} => tpc' \in {"handOver", "kick"}
      PROVE  AgeInv'
  BY <1>1 DEF AgeInv, Back
<1>2. CASE Quiet
  BY <1>0, <1>1, <1>2 DEF Quiet, taskVars, Passed, TaskType
<1>3. CASE DmaClose
  <2>1. UNCHANGED <<nextIdx, n, tpc>> /\ dma.at \in Slots
    BY <1>0, <1>3 DEF DmaClose, stateVars, taskVars, DmaType
  <2>2. QED
    BY <1>0, <1>1, <1>3, <2>1, DmaCloseWrites DEF Passed
<1>4. CASE Deliver /\ found > 0
  <2>1. UNCHANGED <<nextIdx, n, tpc>> /\ minIdx \in Slots
    BY <1>0, <1>4 DEF Deliver, taskVars, IsrType
  <2>2. QED
    BY <1>0, <1>1, <1>4, <2>1, DeliverWrites DEF Passed
<1>5. CASE (\E stamped \in BOOLEAN : Transmit(stamped)) \/ WaitReleased
  BY <1>0, <1>5 DEF Transmit, WaitReleased, TaskStep, AgeInv, Passed, stateVars, TaskType, Back
<1>6. CASE EraseStamp \/ EraseMode \/ EraseFlags \/ HandOver
  <2>1. UNCHANGED <<nextIdx, n>> /\ Passed' = Passed /\ nextIdx \in Slots
        /\ (tpc \in {"handOver", "kick"} => tpc' \in {"handOver", "kick"})
    BY <1>0, <1>6 DEF EraseStamp, EraseMode, EraseFlags, HandOver, TaskStep, stateVars, TaskType, Passed
  <2>2. QED
    BY <1>0, <1>1, <1>6, <2>1, EraseStampWrites, EraseModeWrites, EraseFlagsWrites, HandOverWrites
<1>7. CASE Fill
  <2>1. UNCHANGED <<nextIdx, n>> /\ tpc = "fill" /\ tpc' = "handOver"
    BY <1>7 DEF Fill, TaskStep
  <2>2. QED
    BY <1>0, <1>7, <2>1, FillWrites DEF AgeInv, Passed, TaskType, Back
<1>8. CASE Kick
  <2>1. nextIdx' = Succ(nextIdx) /\ UNCHANGED <<slot, n>> /\ tpc = "kick" /\ tpc' = "idle"
        /\ nextIdx \in Slots /\ n \in Nat
    BY <1>0, <1>8, SuccIsNext DEF Kick, TaskStep, TaskType
  <2>2. SUFFICES ASSUME NEW j \in Slots, slot[j].cb # 0
                 PROVE  slot[j].cb <= n - Back(j, Succ(nextIdx))
    BY <2>1 DEF AgeInv, Passed, Back
  <2>3. slot[j].cb <= n - 1 - Back(j, nextIdx) \/ (j = nextIdx /\ slot[j].cb = n)
    BY <2>1, <2>2 DEF AgeInv, Passed
  <2>4. QED
    BY <1>b, <1>c, <2>1, <2>3, BackMoves
<1>9. QED
  BY <1>2, <1>3, <1>4, <1>5, <1>6, <1>7, <1>8, StepCases

\* A callback still in the descriptor that the task takes is a whole ring old.
LEMMA RingOld ==
    ASSUME TypeOK, AgeInv, tpc \in {"erase", "erase3", "fill"}, slot[nextIdx].cb # 0
    PROVE  slot[nextIdx].cb + N <= n
<1>1. nextIdx \in Slots /\ n \in Nat /\ slot[nextIdx].cb \in Nat
  BY DEF TypeOK, Slot
<1>2. Back(nextIdx, nextIdx) = N - 1
  BY <1>1, BackRange
<1>3. slot[nextIdx].cb <= n - 1 - Back(nextIdx, nextIdx)
  BY <1>1 DEF AgeInv, Passed
<1>4. QED
  BY <1>1, <1>2, <1>3, TxAssumption

LEMMA EmptyKept == Base /\ SendInv /\ EmptyInv /\ [Next]_vars => EmptyInv'
<1> SUFFICES ASSUME Base, SendInv, EmptyInv, [Next]_vars PROVE EmptyInv'
  OBVIOUS
<1>0. TypeInv /\ SlotType /\ TaskType /\ DmaType /\ IsrType /\ Released
  BY TypeParts DEF Base, TypeInv
<1>1. CASE Quiet
  BY <1>1 DEF Quiet, taskVars, EmptyInv
<1>2. CASE DmaClose
  <2>1. UNCHANGED <<nextIdx, tpc>> /\ slot[dma.at].own /\ nextIdx \in Slots
    BY <1>0, <1>2 DEF DmaClose, stateVars, taskVars, SendInv, TaskType
  <2>2. tpc \in {"fill", "handOver"} => nextIdx # dma.at
    BY <1>0, <2>1 DEF Released
  <2>3. QED
    BY <1>0, <1>2, <2>1, <2>2, DmaCloseWrites DEF EmptyInv
<1>3. CASE Deliver /\ found > 0
  <2>1. UNCHANGED <<nextIdx, tpc>> /\ nextIdx \in Slots
    BY <1>0, <1>3 DEF Deliver, taskVars, TaskType
  <2>2. QED
    BY <1>0, <1>3, <2>1, DeliverWrites DEF EmptyInv
<1>4. CASE EraseFlags
  BY <1>0, <1>4, EraseFlagsWrites DEF EraseFlags, TaskStep, stateVars, EmptyInv
<1>5. CASE Fill
  BY <1>0, <1>5, FillWrites DEF Fill, TaskStep, EmptyInv
<1>6. CASE (\E stamped \in BOOLEAN : Transmit(stamped)) \/ WaitReleased \/ EraseStamp
           \/ EraseMode \/ HandOver \/ Kick
  BY <1>6 DEF Transmit, WaitReleased, EraseStamp, EraseMode, HandOver, Kick, TaskStep,
              EmptyInv
<1>7. QED
  BY <1>1, <1>2, <1>3, <1>4, <1>5, <1>6, StepCases

LEMMA PickKept == Base /\ SendInv /\ PickInv /\ [Next]_vars => PickInv'
<1> SUFFICES ASSUME Base, SendInv, PickInv, [Next]_vars PROVE PickInv'
  OBVIOUS
<1>0. TypeInv /\ ChosenInv /\ SlotType /\ TaskType /\ DmaType /\ IsrType
  BY TypeParts DEF Base, TypeInv
<1>1. CASE TransmitStep \/ \E stamped \in BOOLEAN : Transmit(stamped)
  BY <1>1 DEF PickInv, TransmitStep, Transmit, WaitReleased, EraseStamp, EraseMode, EraseFlags, Fill,
              HandOver, Kick, TaskStep, isrVars
<1>2. CASE DmaFetch \/ DmaRaise \/ DmaReceives \/ UNCHANGED vars
  BY <1>2 DEF PickInv, DmaFetch, DmaRaise, DmaReceives, isrVars, vars
<1>3. CASE DmaClose
  <2>1. UNCHANGED <<ipc, found, minIdx>> /\ slot[dma.at].own /\ minIdx \in Slots
    BY <1>0, <1>3 DEF DmaClose, isrVars, SendInv, IsrType
  <2>2. HasStamp(slot[minIdx]) => minIdx # dma.at
    BY <2>1 DEF HasStamp
  <2>3. HasStamp(slot[minIdx]) => HasStamp(slot'[minIdx])
    BY <1>0, <1>3, <2>1, <2>2, DmaCloseWrites
  <2>4. slot'[minIdx].cb = slot[minIdx].cb
    BY <1>0, <1>3, <2>1, DmaCloseWrites
  <2>5. QED
    BY <2>1, <2>3, <2>4 DEF PickInv, HasStamp
<1>4. CASE IsrEnter \/ IsrClear \/ IsrNotify \/ IsrExit
  BY <1>4 DEF PickInv, IsrEnter, IsrClear, IsrNotify, IsrExit
<1>5. CASE Scan
  <2>1. CASE HasStamp(slot[i])
    <3>1. slot' = slot /\ ipc = "scan" /\ (minIdx' = i \/ (minIdx' = minIdx /\ ~first))
      BY <1>5, <2>1 DEF Scan
    <3>2. ~first => HasStamp(slot[minIdx]) \/ slot[minIdx].cb = 0
      BY <1>0, <3>1 DEF ChosenInv, PickInv, IsrType
    <3>3. QED
      BY <2>1, <3>1, <3>2 DEF PickInv, HasStamp
  <2>2. CASE ~HasStamp(slot[i])
    BY <1>5, <2>2 DEF PickInv, Scan, HasStamp
  <2>3. QED
    BY <2>1, <2>2
<1>6. CASE Deliver
  <2>1. minIdx' = minIdx
    BY <1>6 DEF Deliver
  <2>2. CASE found > 0
    BY <1>0, <1>6, <2>1, <2>2, DeliverWrites DEF PickInv
  <2>3. CASE ~(found > 0)
    BY <1>0, <1>6, <2>3 DEF PickInv, Deliver, IsrType
  <2>4. QED
    BY <2>2, <2>3
<1>7. QED
  BY <1>1, <1>2, <1>3, <1>4, <1>5, <1>6, Zenon DEF Next, DmaStep, IsrStep

LEMMA Elements == ASSUME NEW S, NEW s \in Seq(S) PROVE \A k \in DOMAIN s : s[k] \in S
  OBVIOUS

\* A round that finds a callback appends a call; one that does not, none.
LEMMA DeliverCalls ==
    ASSUME TypeInv, Deliver, found > 0
    PROVE  \/ slot[minIdx].cb = 0 /\ calls' = calls /\ Delivered' = Delivered
           \/ /\ slot[minIdx].cb # 0 /\ Delivered' = Delivered \cup {slot[minIdx].cb}
              /\ DOMAIN calls' = 1..Len(calls) + 1 /\ DOMAIN calls = 1..Len(calls)
              /\ \A k \in DOMAIN calls : calls'[k] = calls[k]
              /\ calls'[Len(calls) + 1].arg = slot[minIdx].cb
              /\ calls'[Len(calls) + 1].stamp = slot[minIdx].time
              /\ calls'[Len(calls) + 1].cut = slot[minIdx].cut
              /\ Len(calls) \in Nat
<1> DEFINE d == slot[minIdx]
           Call == [arg : Frames, stamp : 0..MaxFrames, cut : 0..Parts]
           c == [arg |-> d.cb, stamp |-> d.time, cut |-> d.cut]
<1>1. calls \in Seq(Call)
  BY DEF TypeInv, TypeOK
<1>2. CASE d.cb = 0
  BY <1>2 DEF Deliver, Delivered
<1>3. CASE d.cb # 0
  <2>1. calls' = Append(calls, c)
    BY <1>3 DEF Deliver
  <2>2. c.arg = d.cb /\ c.stamp = d.time /\ c.cut = d.cut
    OBVIOUS
  <2>3. c \in Call
    <3>1. d \in Slot
      BY DEF TypeInv, TypeOK
    <3>2. d.cb \in Frames /\ d.time \in 0..MaxFrames /\ d.cut \in 0..Parts
      BY <1>3, <3>1 DEF Slot, Frames
    <3>3. QED
      BY <3>2
  <2> HIDE DEF c, Call
  <2>4. /\ DOMAIN calls' = 1..Len(calls) + 1 /\ DOMAIN calls = 1..Len(calls) /\ Len(calls) \in Nat
        /\ \A k \in DOMAIN calls : calls'[k] = calls[k]
        /\ calls'[Len(calls) + 1] = c
    BY <1>1, <2>1, <2>3
  <2>5. Delivered' = Delivered \cup {d.cb}
    BY <2>2, <2>4 DEF Delivered
  <2>6. QED
    BY <1>3, <2>2, <2>4, <2>5
<1>4. QED
  BY <1>2, <1>3

\* Frames, requests and what is filled only grow; the handler alone calls back.
LEMMA Grows ==
    ASSUME Base, [Next]_vars
    PROVE  /\ n \in Nat /\ n' \in Nat /\ Filled \in Int /\ Filled' \in Int
           /\ n <= n' /\ Filled <= Filled' /\ requested \subseteq requested'
           /\ (Deliver /\ found > 0) \/ (calls' = calls /\ Delivered' = Delivered)
<1>0. TypeInv /\ TaskType
  BY TypeParts DEF Base, TypeInv
<1>1. (Deliver /\ found > 0) \/ calls' = calls
  BY StepCases DEF Quiet, DmaClose, Transmit, WaitReleased, EraseStamp, EraseMode, EraseFlags, Fill,
     HandOver, Kick, isrVars
<1>n. n \in Nat /\ Filled \in Int
  BY <1>0 DEF TaskType, Filled
<1>2. n' \in Nat /\ n <= n' /\ Filled <= Filled' /\ Filled' \in Int
  <2>1. CASE \E stamped \in BOOLEAN : Transmit(stamped)
    BY <1>n, <2>1 DEF Transmit, TaskStep, Filled
  <2>2. CASE WaitReleased \/ EraseStamp \/ EraseMode \/ EraseFlags
    BY <1>n, <2>2 DEF WaitReleased, EraseStamp, EraseMode, EraseFlags, TaskStep, Filled
  <2>3. CASE Fill \/ HandOver \/ Kick
    BY <1>n, <2>3 DEF Fill, HandOver, Kick, TaskStep, Filled
  <2>4. CASE Quiet \/ DmaClose \/ Deliver
    BY <1>n, <2>4 DEF Quiet, DmaClose, Deliver, taskVars, Filled
  <2>5. QED
    BY <2>1, <2>2, <2>3, <2>4, StepCases
<1>3. requested \subseteq requested'
  <2>1. CASE \E stamped \in BOOLEAN : Transmit(stamped)
    BY <2>1 DEF Transmit
  <2>2. CASE UNCHANGED requested
    BY <2>2
  <2>3. QED
    BY <2>1, <2>2, StepCases DEF Quiet, DmaClose, WaitReleased, EraseStamp, EraseMode, EraseFlags, Fill,
       HandOver, Kick, Deliver, taskVars
<1>4. calls' = calls => Delivered' = Delivered
  BY DEF Delivered
<1>5. QED
  BY <1>n, <1>1, <1>2, <1>3, <1>4

LEMMA OnceKept == Base /\ CbInv /\ OnceInv /\ [Next]_vars => OnceInv'
<1> SUFFICES ASSUME Base, CbInv, OnceInv, [Next]_vars PROVE OnceInv'
  OBVIOUS
<1>0. TypeInv /\ SlotType /\ TaskType /\ DmaType /\ IsrType
  BY TypeParts DEF Base, TypeInv
<1>1. ASSUME \A j \in Slots : slot'[j].cb \in {0, slot[j].cb} PROVE OnceInv'
  BY <1>1 DEF OnceInv
<1>2. CASE Fill
  <2>1. nextIdx \in Slots /\ n \in Nat /\ tpc = "fill"
    BY <1>0, <1>2 DEF Fill, TaskStep, TaskType
  <2>2. \A j \in Slots : slot[j].cb # 0 => slot[j].cb <= n - 1
    BY <2>1 DEF CbInv, Filled
  <2>3. \A j \in Slots : slot[j].cb \in Nat
    BY <1>0 DEF SlotType, Slot
  <2>4. \A j \in Slots \ {nextIdx} : slot'[j].cb = slot[j].cb
    BY <1>0, <1>2, FillWrites
  <2>5. slot'[nextIdx].cb \in {n, slot[nextIdx].cb}
    BY <1>0, <1>2, FillWrites
  <2>6. QED
    BY <2>1, <2>2, <2>3, <2>4, <2>5 DEF OnceInv
<1>3. CASE Quiet \/ (\E stamped \in BOOLEAN : Transmit(stamped)) \/ WaitReleased \/ Kick
  BY <1>1, <1>3 DEF Quiet, Transmit, WaitReleased, Kick
<1>4. CASE EraseStamp \/ EraseMode \/ EraseFlags \/ HandOver
  BY <1>0, <1>1, <1>4, EraseStampWrites, EraseModeWrites, EraseFlagsWrites, HandOverWrites
<1>5. CASE DmaClose
  BY <1>0, <1>1, <1>5, DmaCloseWrites
<1>6. CASE Deliver /\ found > 0
  BY <1>0, <1>1, <1>6, DeliverWrites
<1>7. QED
  BY <1>2, <1>3, <1>4, <1>5, <1>6, StepCases

LEMMA CallsKept == Base /\ CbInv /\ CallsInv /\ [Next]_vars => CallsInv'
<1> SUFFICES ASSUME Base, CbInv, CallsInv, [Next]_vars PROVE CallsInv'
  OBVIOUS
<1>0. TypeInv /\ IsrType
  BY TypeParts DEF Base, TypeInv
<1>g. Filled \in Int /\ Filled' \in Int /\ Filled <= Filled'
  BY Grows
<1>t. \A k \in DOMAIN calls : calls[k].arg \in Int
  <2>1. \A k \in DOMAIN calls : calls[k] \in [arg : Frames, stamp : 0..MaxFrames, cut : 0..Parts]
    BY <1>0, Elements DEF IsrType
  <2>2. QED
    BY <2>1 DEF Frames
<1>1. CASE Deliver /\ found > 0 /\ slot[minIdx].cb # 0
  <2>1. slot[minIdx].cb <= Filled /\ slot[minIdx].cb \in Int
    BY <1>0, <1>1 DEF CbInv, TypeInv, TypeOK, Slot
  <2>2. \A k \in DOMAIN calls' : (k \in DOMAIN calls /\ calls'[k] = calls[k])
                                 \/ calls'[k].arg = slot[minIdx].cb
    BY <1>0, <1>1, DeliverCalls
  <2>3. QED
    BY <1>g, <1>t, <2>1, <2>2 DEF CallsInv
<1>2. CASE calls' = calls
  BY <1>g, <1>t, <1>2 DEF CallsInv
<1>3. QED
  BY <1>0, <1>1, <1>2, Grows, DeliverCalls

LEMMA BufKept == Base /\ BufInv /\ [Next]_vars => BufInv'
<1> SUFFICES ASSUME Base, BufInv, [Next]_vars PROVE BufInv'
  OBVIOUS
<1>0. TypeInv
  BY DEF Base
<1>1. CASE Quiet \/ (\E stamped \in BOOLEAN : Transmit(stamped)) \/ WaitReleased \/ Kick
  BY <1>1 DEF Quiet, Transmit, WaitReleased, Kick, BufInv
<1>2. CASE EraseStamp \/ EraseMode \/ EraseFlags \/ HandOver
  BY <1>0, <1>2, EraseStampWrites, EraseModeWrites, EraseFlagsWrites, HandOverWrites DEF BufInv
<1>3. CASE Fill
  BY <1>0, <1>3, FillWrites DEF BufInv
<1>4. CASE DmaClose
  BY <1>0, <1>4, DmaCloseWrites DEF BufInv
<1>5. CASE Deliver /\ found > 0
  BY <1>0, <1>5, DeliverWrites DEF BufInv
<1>6. QED
  BY <1>1, <1>2, <1>3, <1>4, <1>5, StepCases

LEMMA CbKept == Base /\ OnceInv /\ CallsInv /\ CbInv /\ [Next]_vars => CbInv'
<1> SUFFICES ASSUME Base, OnceInv, CallsInv, CbInv, [Next]_vars PROVE CbInv'
  OBVIOUS
<1>0. TypeInv /\ SlotType /\ TaskType /\ IsrType
  BY TypeParts DEF Base, TypeInv
<1>g. /\ n \in Nat /\ Filled \in Int /\ Filled' \in Int /\ Filled <= Filled'
      /\ requested \subseteq requested'
  BY Grows
<1>c. \A j \in Slots : slot[j].cb \in Nat
  BY <1>0 DEF SlotType, Slot
<1>1. ASSUME \A j \in Slots : slot'[j].cb \in {0, slot[j].cb}, Delivered' = Delivered
      PROVE  CbInv'
  BY <1>1, <1>g, <1>c DEF CbInv
<1>2. CASE Fill
  <2>1. tpc = "fill" /\ tpc' = "handOver" /\ UNCHANGED <<n, requested>> /\ Delivered' = Delivered
    BY <1>2, Grows DEF Fill, TaskStep, Deliver
  <2>2. n \notin Delivered
    BY <1>g, <2>1 DEF Delivered, CallsInv, Filled
  <2>3. \A j \in Slots \ {nextIdx} : slot'[j].cb = slot[j].cb
    BY <1>0, <1>2, FillWrites
  <2>4. slot'[nextIdx].cb = (IF n \in requested THEN n ELSE slot[nextIdx].cb)
    BY <1>0, <1>2, FillWrites
  <2>5. Filled' = n
    BY <2>1 DEF Filled
  <2>6. QED
    BY <1>c, <1>g, <2>1, <2>2, <2>3, <2>4, <2>5 DEF CbInv
<1>3. CASE Deliver /\ found > 0
  <2>1. \A j \in Slots \ {minIdx} : slot'[j].cb = slot[j].cb
    BY <1>0, <1>3, DeliverWrites
  <2>2. slot'[minIdx].cb = 0 /\ minIdx \in Slots
    BY <1>0, <1>3, DeliverWrites DEF IsrType
  <2>3. Delivered' = Delivered \/ Delivered' = Delivered \cup {slot[minIdx].cb}
    BY <1>0, <1>3, DeliverCalls
  <2>4. \A j \in Slots \ {minIdx} : slot[j].cb # 0 => slot[j].cb # slot[minIdx].cb
    BY <2>2 DEF OnceInv
  <2>5. QED
    BY <1>c, <1>g, <2>1, <2>2, <2>3, <2>4 DEF CbInv
<1>4. CASE Quiet \/ (\E stamped \in BOOLEAN : Transmit(stamped)) \/ WaitReleased \/ Kick
  <2>1. UNCHANGED <<slot, calls>>
    BY <1>4 DEF Quiet, Transmit, WaitReleased, Kick, isrVars
  <2>2. QED
    BY <1>1, <2>1 DEF Delivered
<1>5. CASE EraseStamp \/ EraseMode \/ EraseFlags \/ HandOver
  <2>1. calls' = calls
    BY <1>5 DEF EraseStamp, EraseMode, EraseFlags, HandOver, isrVars
  <2>2. \A j \in Slots : slot'[j].cb = slot[j].cb
    BY <1>0, <1>5, EraseStampWrites, EraseModeWrites, EraseFlagsWrites, HandOverWrites
  <2>3. QED
    BY <1>1, <2>1, <2>2 DEF Delivered
<1>6. CASE DmaClose
  <2>1. calls' = calls
    BY <1>6 DEF DmaClose, isrVars
  <2>2. \A j \in Slots : slot'[j].cb = slot[j].cb
    BY <1>0, <1>6, DmaCloseWrites
  <2>3. QED
    BY <1>1, <2>1, <2>2 DEF Delivered
<1>7. QED
  BY <1>2, <1>3, <1>4, <1>5, <1>6, StepCases

LEMMA TimeKept ==
    Base /\ SendInv /\ EmptyInv /\ BufInv /\ TimeInv /\ [Next]_vars => TimeInv'
<1> SUFFICES ASSUME Base, SendInv, EmptyInv, BufInv, TimeInv, [Next]_vars PROVE TimeInv'
  OBVIOUS
<1>0. TypeInv /\ SlotType /\ TaskType /\ DmaType /\ IsrType /\ Released
  BY TypeParts DEF Base, TypeInv
<1>1. CASE Quiet
  BY <1>1 DEF Quiet, taskVars, TimeInv, HasStamp
<1>2. CASE (\E stamped \in BOOLEAN : Transmit(stamped)) \/ WaitReleased \/ Kick
  BY <1>2 DEF Transmit, WaitReleased, Kick, TaskStep, TimeInv, HasStamp
<1>3. CASE EraseStamp \/ EraseMode
  <2>1. tpc' \in {"erase", "erase3"} /\ nextIdx' = nextIdx
    BY <1>3 DEF EraseStamp, EraseMode, TaskStep, stateVars
  <2>2. HasStamp(slot'[nextIdx]) => HasStamp(slot[nextIdx])
    BY <1>0, <1>3, EraseStampWrites, EraseModeWrites DEF HasStamp, Released, EraseStamp,
       EraseMode, TaskStep
  <2>3. slot'[nextIdx].time = slot[nextIdx].time /\ slot'[nextIdx].cb = slot[nextIdx].cb
    BY <1>0, <1>3, EraseStampWrites, EraseModeWrites
  <2>4. \A j \in Slots \ {nextIdx} : slot'[j] = slot[j]
    BY <1>0, <1>3, EraseStampWrites, EraseModeWrites
  <2>5. QED
    BY <2>1, <2>2, <2>3, <2>4 DEF TimeInv, HasStamp
<1>4. CASE EraseFlags
  <2>1. ~HasStamp(slot'[nextIdx])
    BY <1>0, <1>4, EraseFlagsWrites DEF HasStamp
  <2>2. \A j \in Slots \ {nextIdx} : slot'[j] = slot[j]
    BY <1>0, <1>4, EraseFlagsWrites
  <2>3. QED
    BY <2>1, <2>2 DEF TimeInv, HasStamp
<1>5. CASE Fill
  <2>1. ~HasStamp(slot'[nextIdx])
    BY <1>0, <1>5, FillWrites DEF HasStamp, EmptyInv, Fill, TaskStep
  <2>2. \A j \in Slots \ {nextIdx} : slot'[j] = slot[j]
    BY <1>0, <1>5, FillWrites
  <2>3. QED
    BY <2>1, <2>2 DEF TimeInv, HasStamp
<1>6. CASE HandOver
  <2>1. ~HasStamp(slot'[nextIdx])
    BY <1>0, <1>6, HandOverWrites DEF HasStamp
  <2>2. \A j \in Slots \ {nextIdx} : slot'[j] = slot[j]
    BY <1>0, <1>6, HandOverWrites
  <2>3. QED
    BY <2>1, <2>2 DEF TimeInv, HasStamp
<1>7. CASE DmaClose
  <2>1. UNCHANGED <<nextIdx, tpc>> /\ dma.frame = slot[dma.at].buf /\ dma.at \in Slots
    BY <1>0, <1>7 DEF DmaClose, stateVars, taskVars, SendInv, DmaType
  <2>2. HasStamp(slot'[dma.at]) => slot[dma.at].ttse
    BY <1>0, <1>7, DmaCloseWrites DEF HasStamp
  <2>3. slot[dma.at].ttse => slot'[dma.at].time = slot'[dma.at].cb /\ slot'[dma.at].cut = 0
    BY <1>0, <1>7, <2>1, DmaCloseWrites DEF BufInv
  <2>4. \A j \in Slots \ {dma.at} : slot'[j] = slot[j]
    BY <1>0, <1>7, DmaCloseWrites
  <2>5. QED
    BY <2>1, <2>2, <2>3, <2>4 DEF TimeInv, HasStamp
<1>8. CASE Deliver /\ found > 0
  <2>1. UNCHANGED <<nextIdx, tpc>>
    BY <1>8 DEF Deliver, taskVars
  <2>2. ~HasStamp(slot'[minIdx])
    BY <1>0, <1>8, DeliverWrites DEF HasStamp
  <2>3. \A j \in Slots \ {minIdx} : slot'[j] = slot[j]
    BY <1>0, <1>8, DeliverWrites
  <2>4. QED
    BY <2>1, <2>2, <2>3 DEF TimeInv, HasStamp
<1>9. QED
  BY <1>1, <1>2, <1>3, <1>4, <1>5, <1>6, <1>7, <1>8, StepCases

\* A call is made with what the chosen descriptor holds.
LEMMA BelongsKept ==
    Base /\ AgeInv /\ PickInv /\ CbInv /\ TimeInv /\ StampBelongs /\ [Next]_vars => StampBelongs'
<1> SUFFICES ASSUME Base, AgeInv, PickInv, CbInv, TimeInv, StampBelongs, [Next]_vars
             PROVE  StampBelongs'
  OBVIOUS
<1>0. TypeInv /\ TypeOK /\ SlotType /\ TaskType /\ IsrType /\ N \in Nat
  BY TypeParts, TxAssumption DEF Base, TypeInv
<1>g. n \in Nat /\ n' \in Nat /\ n <= n' /\ requested \subseteq requested'
  BY Grows
<1>o. ASSUME NEW k \in DOMAIN calls
      PROVE  /\ calls[k].arg \in requested' /\ calls[k].arg \in Nat
             /\ calls[k].stamp = calls[k].arg
             /\ calls[k].cut = 0 \/ calls[k].arg + N <= n'
  <2>1. calls[k] \in [arg : Frames, stamp : 0..MaxFrames, cut : 0..Parts]
    BY <1>0, <1>o, Elements DEF IsrType
  <2>2. calls[k].arg \in Nat
    BY <2>1 DEF Frames
  <2>3. calls[k].arg \in requested /\ calls[k].stamp = calls[k].arg
        /\ (calls[k].cut = 0 \/ calls[k].arg + N <= n)
    BY <1>o DEF StampBelongs
  <2>4. QED
    BY <1>0, <1>g, <2>2, <2>3
<1>1. CASE calls' = calls
  <2>1. \A k, l \in DOMAIN calls : calls[k].arg = calls[l].arg => k = l
    BY DEF StampBelongs
  <2>2. QED
    BY <1>1, <1>o, <2>1 DEF StampBelongs
<1>2. CASE Deliver /\ found > 0 /\ slot[minIdx].cb # 0
  <2> DEFINE f == slot[minIdx].cb
             L == Len(calls) + 1
  <2>1. minIdx \in Slots /\ f \in requested /\ f \notin Delivered /\ f # 0
    BY <1>0, <1>2 DEF IsrType, CbInv
  <2>2. HasStamp(slot[minIdx])
    BY <1>2 DEF Deliver, PickInv
  <2>3. slot[minIdx].time = f /\ (slot[minIdx].cut = 0 \/ f + N <= n)
    <3>1. slot[minIdx].time = f
      BY <2>1, <2>2 DEF TimeInv
    <3>2. CASE tpc \in {"erase", "erase3"} /\ minIdx = nextIdx
      BY <1>0, <2>1, <3>1, <3>2, RingOld
    <3>3. QED
      BY <2>1, <2>2, <3>1, <3>2 DEF TimeInv
  <2>4. UNCHANGED n
    BY <1>2 DEF Deliver, taskVars
  <2>5. /\ DOMAIN calls' = DOMAIN calls \cup {L} /\ L \notin DOMAIN calls
        /\ \A k \in DOMAIN calls : calls'[k] = calls[k]
        /\ calls'[L].arg = f /\ calls'[L].stamp = slot[minIdx].time
        /\ calls'[L].cut = slot[minIdx].cut
    <3>1. /\ DOMAIN calls' = 1..L /\ DOMAIN calls = 1..Len(calls) /\ Len(calls) \in Nat
          /\ \A k \in DOMAIN calls : calls'[k] = calls[k]
          /\ calls'[L].arg = f /\ calls'[L].stamp = slot[minIdx].time
          /\ calls'[L].cut = slot[minIdx].cut
      BY <1>0, <1>2, DeliverCalls, Zenon
    <3>2. 1..L = 1..Len(calls) \cup {L} /\ L \notin 1..Len(calls)
      BY <3>1
    <3>3. QED
      BY <3>1, <3>2, Zenon
  <2> HIDE DEF f, L
  <2>6. ASSUME NEW k \in DOMAIN calls'
        PROVE  /\ calls'[k].arg \in requested'
               /\ calls'[k].stamp = calls'[k].arg
               /\ calls'[k].cut = 0 \/ calls'[k].arg + N <= n'
    <3>1. CASE k = L
      BY <1>g, <2>1, <2>3, <2>4, <2>5, <3>1
    <3>2. CASE k \in DOMAIN calls
      BY <1>o, <2>5, <3>2
    <3>3. QED
      BY <2>5, <2>6, <3>1, <3>2
  <2>7. \A k \in DOMAIN calls : calls[k].arg # f
    BY <2>1 DEF Delivered
  <2>8. \A k, l \in DOMAIN calls : calls[k].arg = calls[l].arg => k = l
    BY DEF StampBelongs
  <2>9. \A k, l \in DOMAIN calls' : calls'[k].arg = calls'[l].arg => k = l
    BY <2>5, <2>7, <2>8
  <2>10. QED
    BY <2>6, <2>9 DEF StampBelongs
<1>3. QED
  BY <1>0, <1>1, <1>2, Grows, DeliverCalls

\* The frames handed over, and the index behind the last of them.
Handed == IF tpc \in {"idle", "kick"} THEN n ELSE n - 1

End == IF tpc = "kick" THEN Succ(nextIdx) ELSE nextIdx

Backlog == Handed - dma.closed

\* The DMA's descriptors are the last Backlog ones before End, with consecutive
\* frames; the DMA is at the oldest.
QueueInv ==
    /\ Backlog \in 0..N
    /\ \A j \in Slots : slot[j].own <=> Back(j, End) < Backlog
    /\ \A j \in Slots : slot[j].own => slot[j].buf = Handed - Back(j, End)
    /\ IF Backlog = 0 THEN dma.at = End ELSE Back(dma.at, End) = Backlog - 1

BufferInv == tpc = "handOver" => slot[nextIdx].buf = n

LEMMA BufferKept == Base /\ BufferInv /\ [Next]_vars => BufferInv'
<1> SUFFICES ASSUME Base, BufferInv, [Next]_vars PROVE BufferInv'
  OBVIOUS
<1>0. TypeInv /\ TaskType
  BY TypeParts DEF Base, TypeInv
<1>1. CASE Quiet
  BY <1>1 DEF Quiet, taskVars, BufferInv
<1>2. CASE DmaClose
  BY <1>0, <1>2, DmaCloseWrites DEF DmaClose, stateVars, taskVars, BufferInv, TaskType
<1>3. CASE Deliver /\ found > 0
  BY <1>0, <1>3, DeliverWrites DEF Deliver, taskVars, BufferInv, TaskType
<1>4. CASE Fill
  BY <1>0, <1>4, FillWrites DEF Fill, BufferInv
<1>5. CASE (\E stamped \in BOOLEAN : Transmit(stamped)) \/ WaitReleased \/ EraseStamp
           \/ EraseMode \/ EraseFlags \/ HandOver \/ Kick
  BY <1>5 DEF Transmit, WaitReleased, EraseStamp, EraseMode, EraseFlags, HandOver, Kick, TaskStep, BufferInv
<1>6. QED
  BY <1>1, <1>2, <1>3, <1>4, <1>5, StepCases

\* The index behind the last frame handed over moves with the hand-over alone.
LEMMA QueueEnds ==
    ASSUME Base, [Next]_vars
    PROVE  /\ Handed \in Int /\ End \in Slots /\ nextIdx \in Slots
           /\ dma.at \in Slots /\ dma.closed \in Nat
           /\ ~HandOver => Handed' = Handed /\ End' = End
           /\ HandOver => Handed' = Handed + 1 /\ End' = Succ(End) /\ End = nextIdx
           /\ ~DmaClose => dma'.at = dma.at /\ dma'.closed = dma.closed
<1>0. TypeInv /\ TaskType /\ DmaType
  BY TypeParts DEF Base, TypeInv
<1>1. Handed \in Int /\ End \in Slots
  BY <1>0, SuccIsNext DEF Handed, End, TaskType
<1>2. ~HandOver => Handed' = Handed /\ End' = End
  <2>1. CASE Quiet \/ DmaClose \/ Deliver
    BY <2>1 DEF Quiet, DmaClose, Deliver, stateVars, taskVars, Handed, End, Succ
  <2>2. CASE (\E stamped \in BOOLEAN : Transmit(stamped)) \/ WaitReleased \/ EraseStamp
             \/ EraseMode \/ EraseFlags \/ Fill
    BY <1>0, <2>2 DEF Transmit, WaitReleased, EraseStamp, EraseMode, EraseFlags, Fill, TaskStep, stateVars,
                      Handed, End, TaskType
  <2>3. CASE Kick
    BY <1>0, <2>3, SuccIsNext DEF Kick, TaskStep, Handed, End, TaskType
  <2>4. QED
    BY <2>1, <2>2, <2>3, StepCases
<1>3. HandOver => Handed' = Handed + 1 /\ End' = Succ(End) /\ End = nextIdx
  BY <1>0 DEF HandOver, TaskStep, stateVars, Handed, End, TaskType, Succ
<1>4. ~DmaClose => dma'.at = dma.at /\ dma'.closed = dma.closed
  <2>1. CASE DmaFetch \/ DmaRaise \/ Kick
    BY <1>0, <2>1 DEF DmaFetch, DmaRaise, Kick, DmaType
  <2>2. CASE DmaReceives \/ UNCHANGED vars
    BY <2>2 DEF DmaReceives, vars
  <2>3. CASE IsrStep
    BY <2>3 DEF IsrStep, IsrEnter, IsrClear, IsrNotify, Scan, Deliver, IsrExit
  <2>4. CASE (\E stamped \in BOOLEAN : Transmit(stamped)) \/ WaitReleased \/ EraseStamp
             \/ EraseMode \/ EraseFlags \/ Fill \/ HandOver
    BY <2>4 DEF Transmit, WaitReleased, EraseStamp, EraseMode, EraseFlags, Fill, HandOver
  <2>5. QED
    BY <2>1, <2>2, <2>3, <2>4 DEF Next, TransmitStep, DmaStep
<1>5. QED
  BY <1>0, <1>1, <1>2, <1>3, <1>4 DEF TaskType, DmaType

LEMMA QueueKept ==
    Base /\ SendInv /\ BufferInv /\ QueueInv /\ [Next]_vars => QueueInv'
<1> SUFFICES ASSUME Base, SendInv, BufferInv, QueueInv, [Next]_vars PROVE QueueInv'
  OBVIOUS
<1>0. TypeInv /\ ChosenInv /\ SlotType /\ TaskType /\ DmaType /\ IsrType /\ Released
  BY TypeParts DEF Base, TypeInv
<1>q. /\ Handed \in Int /\ End \in Slots /\ nextIdx \in Slots
      /\ dma.at \in Slots /\ dma.closed \in Nat
      /\ ~HandOver => Handed' = Handed /\ End' = End
      /\ HandOver => Handed' = Handed + 1 /\ End' = Succ(End) /\ End = nextIdx
      /\ ~DmaClose => dma'.at = dma.at /\ dma'.closed = dma.closed
  BY QueueEnds
<1>b. \A j \in Slots : Back(j, End) \in 0..N - 1
  BY <1>q, BackRange
<1>n. N \in Nat \ {0}
  BY TxAssumption
<1> DEFINE B == Handed' - dma'.closed
<1>s. ASSUME B \in 0..N,
             \A j \in Slots : slot'[j].own <=> Back(j, End') < B,
             \A j \in Slots : slot'[j].own => slot'[j].buf = Handed' - Back(j, End'),
             IF B = 0 THEN dma'.at = End' ELSE Back(dma'.at, End') = B - 1
      PROVE  QueueInv'
  BY <1>s DEF QueueInv, Backlog, Back
<1>1. CASE HandOver
  <2>1. ~DmaClose
    BY <1>1 DEF HandOver, DmaClose, TaskStep, taskVars
  <2>2. ~slot[nextIdx].own /\ slot[nextIdx].buf = n /\ Handed = n - 1 /\ n \in Nat
    BY <1>0, <1>1 DEF Released, BufferInv, HandOver, TaskStep, Handed, TaskType
  <2>3. Back(nextIdx, End) = N - 1 /\ Backlog \in 0..N - 1
    BY <1>q, <1>n, <1>1, <2>2, BackRange DEF QueueInv
  <2>4. \A j \in Slots : Back(j, End') = IF j = nextIdx THEN 0 ELSE Back(j, End) + 1
    BY <1>q, <1>1, BackMoves
  <2>5. B = Backlog + 1
    BY <1>q, <1>1, <2>1 DEF Backlog
  <2>6. slot'[nextIdx].own /\ slot'[nextIdx].buf = n
        /\ \A j \in Slots \ {nextIdx} : slot'[j] = slot[j]
    BY <1>0, <1>1, <2>2, HandOverWrites
  <2> HIDE DEF B
  <2>7. \A j \in Slots : slot'[j].own <=> Back(j, End') < B
    BY <1>b, <2>3, <2>4, <2>5, <2>6 DEF QueueInv
  <2>8. \A j \in Slots : slot'[j].own => slot'[j].buf = Handed' - Back(j, End')
    BY <1>b, <1>q, <1>1, <2>2, <2>4, <2>6 DEF QueueInv
  <2>9. B \in 0..N /\ IF B = 0 THEN dma'.at = End' ELSE Back(dma'.at, End') = B - 1
    <3>1. CASE Backlog = 0
      BY <1>q, <1>n, <1>1, <2>1, <2>4, <2>5, <3>1 DEF QueueInv
    <3>2. CASE Backlog # 0
      <4>1. dma.at # nextIdx
        BY <2>3, <3>2, <1>q, <1>1, <1>n DEF QueueInv
      <4>2. QED
        BY <1>b, <1>q, <1>n, <2>1, <2>3, <2>4, <2>5, <3>2, <4>1 DEF QueueInv
    <3>3. QED
      BY <3>1, <3>2
  <2>10. QED
    BY <1>s, <2>7, <2>8, <2>9 DEF B
<1>2. CASE DmaClose
  <2>1. ~HandOver /\ slot[dma.at].own /\ dma.frame = slot[dma.at].buf
    BY <1>2 DEF HandOver, DmaClose, TaskStep, taskVars, SendInv
  <2>2. dma'.at = Succ(dma.at) /\ dma'.closed = dma.frame
    BY <1>q, <1>2, SuccIsNext DEF DmaClose
  <2>3. Back(dma.at, End) = Backlog - 1 /\ Backlog \in 1..N
    BY <1>b, <1>q, <2>1 DEF QueueInv
  <2>4. dma'.closed = dma.closed + 1 /\ B = Backlog - 1
    BY <1>q, <2>1, <2>2, <2>3 DEF QueueInv, Backlog
  <2>5. ~slot'[dma.at].own /\ \A j \in Slots \ {dma.at} : slot'[j] = slot[j]
    BY <1>0, <1>2, DmaCloseWrites
  <2>6. \A j \in Slots : Back(j, End) = Backlog - 1 => j = dma.at
    BY <1>q, <2>3, BackMoves
  <2>7. End' = End /\ Handed' = Handed
    BY <1>q, <2>1
  <2> HIDE DEF B
  <2>8. \A j \in Slots : slot'[j].own <=> Back(j, End') < B
    BY <1>b, <2>3, <2>4, <2>5, <2>6, <2>7 DEF QueueInv
  <2>9. \A j \in Slots : slot'[j].own => slot'[j].buf = Handed' - Back(j, End')
    BY <2>5, <2>7 DEF QueueInv
  <2>10. IF B = 0 THEN dma'.at = End' ELSE Back(dma'.at, End') = B - 1
    BY <1>q, <2>2, <2>3, <2>4, <2>7, BackMoves
  <2>11. B \in 0..N
    BY <1>n, <2>3, <2>4
  <2>12. QED
    BY <1>s, <2>8, <2>9, <2>10, <2>11 DEF B
<1>3. CASE ~HandOver /\ ~DmaClose
  <2>1. \A j \in Slots : slot[j].own => slot'[j] = slot[j]
    BY <1>0, <1>3, OwnedKept
  <2>2. \A j \in Slots : slot'[j].own => slot[j].own
    <3>1. CASE UNCHANGED slot
      BY <3>1
    <3>2. CASE EraseStamp \/ EraseMode \/ EraseFlags \/ Fill
      BY <1>0, <3>2, EraseStampWrites, EraseModeWrites, EraseFlagsWrites, FillWrites
    <3>3. CASE Deliver /\ found > 0
      BY <1>0, <3>3, DeliverWrites
    <3>4. QED
      BY <1>3, <3>1, <3>2, <3>3, StepCases DEF Quiet, Transmit, WaitReleased, Kick
  <2>3. B = Backlog /\ End' = End /\ Handed' = Handed /\ dma'.at = dma.at
    BY <1>q, <1>3 DEF Backlog
  <2>4. QED
    BY <1>s, <2>1, <2>2, <2>3 DEF QueueInv
<1>4. QED
  BY <1>1, <1>2, <1>3

\* A descriptor has a stamp, or will have one.
Waits(j) ==
    \/ HasStamp(slot[j])
    \/ slot[j].ttse /\ (slot[j].own \/ (tpc = "handOver" /\ j = nextIdx))

\* The callback of every frame filled is in such a descriptor, called, or wiped
\* by a frame a ring later.
KeptInv ==
    \A f \in requested :
        f <= Filled => \/ f \in Delivered
                       \/ f \in wiped /\ f + N <= n
                       \/ \E j \in Slots : slot[j].cb = f /\ Waits(j)

LEMMA KeptKept ==
    Base /\ SendInv /\ EmptyInv /\ AgeInv /\ KeptInv /\ [Next]_vars => KeptInv'
<1> SUFFICES ASSUME Base, SendInv, EmptyInv, AgeInv, KeptInv, [Next]_vars PROVE KeptInv'
  OBVIOUS
<1>0. TypeInv /\ TypeOK /\ SlotType /\ TaskType /\ DmaType /\ IsrType /\ Released /\ N \in Nat
  BY TypeParts, TxAssumption DEF Base, TypeInv
<1>g. n \in Nat /\ n' \in Nat /\ n <= n' /\ Filled \in Int /\ Filled' \in Int
  BY Grows
<1>r. \A f \in requested : f \in Nat /\ f # 0
  BY <1>0 DEF TaskType
<1>d. Delivered \subseteq Delivered'
  <2>1. CASE calls' = calls
    BY <2>1 DEF Delivered
  <2>2. QED
    BY <1>0, <2>1, Grows, DeliverCalls
<1>s. ASSUME \A f \in requested' : f <= Filled' => f \in requested /\ f <= Filled,
             wiped \subseteq wiped',
             \A j \in Slots : slot[j].cb # 0 /\ Waits(j)
                => \/ slot'[j].cb = slot[j].cb /\ Waits(j)'
                   \/ slot[j].cb \in Delivered'
                   \/ slot[j].cb \in wiped' /\ slot[j].cb + N <= n
      PROVE  KeptInv'
  <2> SUFFICES ASSUME NEW f \in requested', f <= Filled'
               PROVE  \/ f \in Delivered'
                      \/ f \in wiped' /\ f + N <= n'
                      \/ \E j \in Slots : slot'[j].cb = f /\ Waits(j)'
    BY Zenon DEF KeptInv
  <2>1. f \in requested /\ f <= Filled /\ f \in Nat /\ f # 0
    BY <1>r, <1>s
  <2>2. CASE f \in Delivered \/ (f \in wiped /\ f + N <= n)
    BY <1>0, <1>d, <1>g, <1>s, <2>1, <2>2
  <2>3. CASE \E j \in Slots : slot[j].cb = f /\ Waits(j)
    BY <1>0, <1>g, <1>s, <2>1, <2>3
  <2>4. QED
    BY <2>1, <2>2, <2>3 DEF KeptInv
<1>1. CASE Quiet
  <2>1. UNCHANGED <<slot, nextIdx, tpc, n, requested, wiped>>
    BY <1>1 DEF Quiet, taskVars
  <2>2. \A j \in Slots : Waits(j)' <=> Waits(j)
    BY <2>1 DEF Waits, HasStamp
  <2>3. QED
    BY <1>s, <2>1, <2>2 DEF Filled
<1>2. CASE (\E stamped \in BOOLEAN : Transmit(stamped)) \/ WaitReleased \/ Kick
  <2>1. UNCHANGED <<slot, wiped>> /\ tpc # "handOver" /\ tpc' # "handOver"
    BY <1>2 DEF Transmit, WaitReleased, Kick, TaskStep
  <2>2. \A f \in requested' : f <= Filled' => f \in requested /\ f <= Filled
    <3>1. CASE \E stamped \in BOOLEAN : Transmit(stamped)
      BY <1>g, <1>r, <3>1 DEF Transmit, TaskStep, Filled
    <3>2. CASE WaitReleased \/ Kick
      BY <1>g, <1>r, <3>2 DEF WaitReleased, Kick, TaskStep, Filled
    <3>3. QED
      BY <1>2, <3>1, <3>2
  <2>3. \A j \in Slots : Waits(j) => Waits(j)'
    BY <2>1 DEF Waits, HasStamp
  <2>4. QED
    BY <1>s, <2>1, <2>2, <2>3
<1>3. CASE EraseStamp \/ EraseMode
  <2>1. UNCHANGED <<nextIdx, n, requested, wiped>> /\ Filled' = Filled /\ tpc = "erase"
        /\ tpc' \in {"erase", "erase3"}
    BY <1>3 DEF EraseStamp, EraseMode, TaskStep, stateVars, Filled
  <2>2. ~slot[nextIdx].own
    BY <1>0, <2>1 DEF Released
  <2>3. Waits(nextIdx) => Waits(nextIdx)'
    BY <1>0, <1>3, <2>1, <2>2, EraseStampWrites, EraseModeWrites DEF Waits, HasStamp
  <2>4. \A j \in Slots \ {nextIdx} : Waits(j) => Waits(j)'
    BY <1>0, <1>3, <2>1, EraseStampWrites, EraseModeWrites DEF Waits, HasStamp
  <2>5. \A j \in Slots : slot'[j].cb = slot[j].cb
    BY <1>0, <1>3, EraseStampWrites, EraseModeWrites
  <2>6. QED
    BY <1>s, <2>1, <2>3, <2>4, <2>5
<1>4. CASE EraseFlags
  <2>1. UNCHANGED <<nextIdx, n, requested>> /\ Filled' = Filled /\ tpc = "erase3"
        /\ tpc' = "fill" /\ wiped \subseteq wiped'
    BY <1>4 DEF EraseFlags, TaskStep, stateVars, Filled
  <2>2. ~slot[nextIdx].own
    BY <1>0, <2>1 DEF Released
  <2>3. ASSUME slot[nextIdx].cb # 0, Waits(nextIdx)
        PROVE  slot[nextIdx].cb \in wiped' /\ slot[nextIdx].cb + N <= n
    <3>1. slot[nextIdx].ttss
      BY <2>1, <2>2, <2>3 DEF Waits, HasStamp
    <3>2. slot[nextIdx].cb \in wiped'
      BY <1>4, <3>1 DEF EraseFlags
    <3>3. QED
      BY <1>0, <2>1, <2>3, <3>2, RingOld
  <2>4. \A j \in Slots \ {nextIdx} : Waits(j) => Waits(j)'
    BY <1>0, <1>4, <2>1, EraseFlagsWrites DEF Waits, HasStamp
  <2>5. \A j \in Slots \ {nextIdx} : slot'[j].cb = slot[j].cb
    BY <1>0, <1>4, EraseFlagsWrites
  <2>6. QED
    BY <1>s, <2>1, <2>3, <2>4, <2>5
<1>5. CASE Fill
  <2>1. UNCHANGED <<nextIdx, n, requested, wiped>> /\ tpc = "fill" /\ tpc' = "handOver"
        /\ Filled = n - 1 /\ Filled' = n /\ nextIdx \in Slots
    BY <1>0, <1>5 DEF Fill, TaskStep, Filled, TaskType
  <2>2. ~slot[nextIdx].own /\ ~slot[nextIdx].ttss
    BY <1>0, <2>1 DEF Released, EmptyInv
  <2>3. \A j \in Slots : Waits(j) => j # nextIdx /\ Waits(j)' /\ slot'[j].cb = slot[j].cb
    <3>1. ~Waits(nextIdx)
      BY <2>1, <2>2 DEF Waits, HasStamp
    <3>2. \A j \in Slots \ {nextIdx} : slot'[j] = slot[j]
      BY <1>0, <1>5, FillWrites
    <3>3. \A j \in Slots \ {nextIdx} : Waits(j) => Waits(j)'
      BY <2>1, <3>2 DEF Waits, HasStamp
    <3>4. QED
      BY <3>1, <3>2, <3>3
  <2>4. n \in requested => slot'[nextIdx].cb = n /\ Waits(nextIdx)'
    BY <1>0, <1>5, <2>1, FillWrites DEF Waits
  <2>5. SUFFICES ASSUME NEW f \in requested, f <= n
                 PROVE  \/ f \in Delivered'
                        \/ f \in wiped' /\ f + N <= n'
                        \/ \E j \in Slots : slot'[j].cb = f /\ Waits(j)'
    BY <2>1, Zenon DEF KeptInv
  <2>6. CASE f = n
    BY <2>1, <2>4, <2>5, <2>6
  <2>7. CASE f # n
    <3>1. f <= Filled
      BY <1>g, <1>r, <2>1, <2>5, <2>7
    <3>2. \/ f \in Delivered
          \/ f \in wiped /\ f + N <= n
          \/ \E j \in Slots : slot[j].cb = f /\ Waits(j)
      BY <2>5, <3>1, Zenon DEF KeptInv
    <3>3. QED
      BY <1>d, <2>1, <2>3, <3>2
  <2>8. QED
    BY <2>6, <2>7
<1>6. CASE HandOver
  <2>1. UNCHANGED <<nextIdx, n, requested, wiped>> /\ Filled' = Filled /\ tpc = "handOver"
    BY <1>6 DEF HandOver, TaskStep, stateVars, Filled
  <2>2. ~slot[nextIdx].ttss
    BY <2>1 DEF EmptyInv
  <2>3. Waits(nextIdx) => Waits(nextIdx)'
    BY <1>0, <1>6, <2>1, <2>2, HandOverWrites DEF Waits, HasStamp
  <2>4. \A j \in Slots \ {nextIdx} : Waits(j) => Waits(j)'
    BY <1>0, <1>6, <2>1, HandOverWrites DEF Waits, HasStamp
  <2>5. \A j \in Slots : slot'[j].cb = slot[j].cb
    BY <1>0, <1>6, HandOverWrites
  <2>6. QED
    BY <1>s, <2>1, <2>3, <2>4, <2>5
<1>7. CASE DmaClose
  <2>1. UNCHANGED <<nextIdx, tpc, n, requested, wiped>> /\ Filled' = Filled /\ dma.at \in Slots
        /\ slot[dma.at].own
    BY <1>0, <1>7 DEF DmaClose, stateVars, taskVars, Filled, SendInv, DmaType
  <2>2. ASSUME NEW j \in Slots, j = dma.at, Waits(j) PROVE Waits(j)'
    BY <1>0, <1>7, <2>1, <2>2, DmaCloseWrites DEF Waits, HasStamp
  <2>3. \A j \in Slots \ {dma.at} : Waits(j) => Waits(j)'
    BY <1>0, <1>7, <2>1, DmaCloseWrites DEF Waits, HasStamp
  <2>4. \A j \in Slots : slot'[j].cb = slot[j].cb
    BY <1>0, <1>7, DmaCloseWrites
  <2>5. QED
    BY <1>s, <2>1, <2>2, <2>3, <2>4
<1>8. CASE Deliver /\ found > 0
  <2>1. UNCHANGED <<nextIdx, tpc, n, requested, wiped>> /\ Filled' = Filled
    BY <1>8 DEF Deliver, taskVars, Filled
  <2>2. slot[minIdx].cb # 0 => slot[minIdx].cb \in Delivered'
    BY <1>0, <1>8, DeliverCalls
  <2>3. \A j \in Slots \ {minIdx} : slot'[j] = slot[j]
    BY <1>0, <1>8, DeliverWrites
  <2>4. \A j \in Slots \ {minIdx} : Waits(j) => Waits(j)'
    BY <2>1, <2>3 DEF Waits, HasStamp
  <2>5. QED
    BY <1>s, <2>1, <2>2, <2>3, <2>4
<1>9. QED
  BY <1>1, <1>2, <1>3, <1>4, <1>5, <1>6, <1>7, <1>8, StepCases

LEMMA KeptIsRight ==
    ASSUME TypeOK, QueueInv, BufInv, BufferInv, KeptInv
    PROVE  StampKept
<1> SUFFICES ASSUME NEW f \in requested, f <= dma.closed
             PROVE  \/ f \in Delivered
                    \/ (f \in wiped /\ f + N <= n)
                    \/ \E j \in Slots : HasStamp(slot[j]) /\ slot[j].cb = f
  BY Zenon DEF StampKept
<1>0. TaskType /\ DmaType /\ N \in Nat
  BY TypeParts, TxAssumption
<1>1. n \in Nat /\ f \in Nat /\ dma.closed \in Nat /\ Backlog \in 0..N
  BY <1>0 DEF TaskType, DmaType, QueueInv
<1>2. dma.closed <= Handed /\ Handed <= Filled /\ Handed \in Int /\ Filled \in Int
  BY <1>1 DEF Backlog, Handed, Filled
<1>3. CASE \E j \in Slots : slot[j].cb = f /\ Waits(j)
  <2>1. PICK j \in Slots : slot[j].cb = f /\ Waits(j)
    BY <1>3
  <2>2. CASE HasStamp(slot[j])
    BY <2>1, <2>2
  <2>3. CASE slot[j].ttse /\ slot[j].own
    <3>1. slot[j].buf = f /\ f = Handed - Back(j, End) /\ Back(j, End) < Backlog
      BY <2>1, <2>3 DEF BufInv, QueueInv
    <3>2. Back(j, End) \in Int
      BY <1>0, <1>2, SuccIsNext, BackRange DEF End, TaskType
    <3>3. f > dma.closed
      BY <1>1, <1>2, <3>1, <3>2 DEF Backlog
    <3>4. QED
      BY <1>1, <3>3
  <2>4. CASE slot[j].ttse /\ tpc = "handOver" /\ j = nextIdx
    <3>1. f = n
      BY <2>1, <2>4 DEF BufInv, BufferInv
    <3>2. QED
      BY <1>1, <1>2, <2>4, <3>1 DEF Handed
  <2>5. QED
    BY <2>1, <2>2, <2>3, <2>4 DEF Waits
<1>4. f <= Filled
  BY <1>1, <1>2
<1>5. QED
  BY <1>3, <1>4, Zenon DEF KeptInv

StampInv ==
    /\ SendInv /\ AgeInv /\ EmptyInv /\ PickInv
    /\ OnceInv /\ CallsInv /\ BufInv /\ CbInv /\ TimeInv /\ StampBelongs
    /\ BufferInv /\ QueueInv /\ KeptInv

LEMMA StampInit == Init => ChosenInv /\ StampInv
<1> SUFFICES ASSUME Init PROVE ChosenInv /\ StampInv
  OBVIOUS
<1>1. 0 \in Slots /\ N \in Nat \ {0}
  BY TxAssumption DEF Slots
<1>2. ChosenInv /\ SendInv /\ EmptyInv /\ PickInv /\ BufferInv
  BY DEF Init, ChosenInv, SendInv, EmptyInv, PickInv, BufferInv
<1>3. AgeInv /\ OnceInv /\ BufInv /\ CbInv /\ TimeInv
  BY DEF Init, AgeInv, OnceInv, BufInv, CbInv, TimeInv, HasStamp
<1>4. CallsInv /\ StampBelongs /\ KeptInv
  BY DEF Init, CallsInv, StampBelongs, KeptInv
<1>5. QueueInv
  <2>1. Handed = 0 /\ End = 0 /\ Backlog = 0
    BY DEF Init, Handed, End, Backlog
  <2>2. \A j \in Slots : Back(j, End) \in 0..N - 1
    BY <1>1, <2>1, BackRange
  <2>3. QED
    BY <1>1, <2>1, <2>2 DEF Init, QueueInv
<1>6. QED
  BY <1>2, <1>3, <1>4, <1>5 DEF StampInv

LEMMA StampInvHolds == Spec => [](Base /\ StampInv)
<1>1. Base /\ StampInv /\ [Next]_vars => (Base /\ StampInv)'
  <2>1. Base /\ [Next]_vars => Base'
    BY TypeKept, ChosenKept DEF Base, TypeInv
  <2>2. Base /\ StampInv /\ [Next]_vars => StampInv'
    BY SendKept, AgeKept, EmptyKept, PickKept, OnceKept, CallsKept, BufKept, CbKept, TimeKept,
       BelongsKept, BufferKept, QueueKept, KeptKept, Zenon DEF StampInv
  <2>3. QED
    BY <2>1, <2>2
<1>2. Init => Base /\ StampInv
  BY TypeInit, StampInit DEF Base
<1>3. QED
  BY <1>1, <1>2, PTL DEF Spec

\* For any ring, counters, frames and interrupts: a callback is called once, with
\* its own frame's stamp or, if a frame a whole ring later has begun to erase it,
\* with what is left of it; and the stamp of a frame sent is not lost but to a
\* frame a whole ring later.
THEOREM StampsAreRight == Spec => []StampsRight
<1>1. Base /\ StampInv => StampsRight
  BY KeptIsRight DEF Base, TypeInv, StampInv, StampsRight
<1>2. QED
  BY <1>1, StampInvHolds, PTL

(***************************************************************************)
(* The ring is a channel                                                    *)
(***************************************************************************)

\* The frames behind frame m, in order.
Run(m, l) == [k \in 1..l |-> m + k]

\* The frame at the DMA, fetched and not yet sent, is no longer queued.
Ahead == IF dma.pc = "send" THEN 1 ELSE 0

Out == IF dma.pc = "send" THEN <<dma.frame>> ELSE <<>>

\* What is queued are the frames handed over and neither fetched nor sent.
ContentInv == Queued = Run(dma.closed + Ahead, Backlog - Ahead)

Owned == {j \in Slots : slot[j].own}

\* Back counts the DMA's descriptors: it takes each of 0..Backlog - 1 once.
LEMMA OwnedCount ==
    ASSUME QueueInv, End \in Slots
    PROVE  Cardinality(Owned) = Backlog
<1> USE TxAssumption
<1>0. Backlog \in 0..N /\ Backlog \in Nat /\ N \in Nat
  BY DEF QueueInv
<1> DEFINE f == [x \in 1..Backlog |-> Back(x - 1, End)]
<1>1. \A x \in 1..Backlog : x - 1 \in Slots /\ f[x] \in Slots /\ Back(f[x], End) = x - 1
  BY <1>0 DEF Back, Slots
<1>2. \A x \in 1..Backlog : f[x] \in Owned
  BY <1>0, <1>1 DEF QueueInv, Owned
<1>3. \A x, y \in 1..Backlog : f[x] = f[y] => x = y
  BY <1>0, <1>1
<1>4. \A j \in Owned : \E x \in 1..Backlog : f[x] = j
  <2>1. SUFFICES ASSUME NEW j \in Owned PROVE \E x \in 1..Backlog : f[x] = j
    OBVIOUS
  <2>2. j \in Slots /\ Back(j, End) < Backlog
    BY <2>1 DEF Owned, QueueInv
  <2>3. Back(j, End) \in 0..N - 1 /\ Back(Back(j, End), End) = j
    BY <2>2 DEF Back, Slots
  <2>4. Back(j, End) + 1 \in 1..Backlog /\ Back(j, End) + 1 - 1 = Back(j, End)
    BY <1>0, <2>2, <2>3
  <2>5. f[Back(j, End) + 1] = j
    BY <2>3, <2>4
  <2>6. QED
    BY <2>4, <2>5
<1>5. f \in [1..Backlog -> Owned]
  BY <1>2
<1> HIDE DEF f
<1>6. f \in Bijection(1..Backlog, Owned)
  BY <1>3, <1>4, <1>5, Fun_IsBij
<1>7. ExistsBijection(1..Backlog, Owned)
  BY <1>6, Zenon DEF ExistsBijection
<1>8. QED
  BY <1>0, <1>7, FS_CountingElements

\* The DMA's descriptors hold the frames behind the last one sent, in order.
LEMMA QueueHolds ==
    ASSUME QueueInv, End \in Slots, dma.at \in Slots, Handed \in Int, dma.closed \in Nat,
           NEW m \in 0..Backlog - 1
    PROVE  slot[(dma.at + m) % N].buf = dma.closed + 1 + m
<1> USE TxAssumption
<1>0. Backlog \in 0..N /\ Back(dma.at, End) = Backlog - 1 /\ m \in Int
  BY DEF QueueInv
<1> DEFINE j == IF dma.at + m >= N THEN dma.at + m - N ELSE dma.at + m
<1>1. (dma.at + m) % N = j
  BY <1>0 DEF Slots
<1>2. j \in Slots /\ Back(j, End) = Backlog - 1 - m
  BY <1>0 DEF Slots, Back
<1>3. slot[j].buf = Handed - Back(j, End)
  <2>1. Back(j, End) < Backlog
    BY <1>0, <1>2
  <2> HIDE DEF j
  <2>2. QED
    BY <1>2, <2>1 DEF QueueInv
<1>4. Handed - (Backlog - 1 - m) = dma.closed + 1 + m
  BY <1>0 DEF Backlog
<1> HIDE DEF j
<1>5. QED
  BY <1>1, <1>2, <1>3, <1>4

LEMMA ContentIsRun == Base /\ StampInv => ContentInv
<1> SUFFICES ASSUME Base, StampInv PROVE Queued = Run(dma.closed + Ahead, Backlog - Ahead)
  BY DEF ContentInv
<1>0. TaskType /\ DmaType /\ QueueInv /\ SendInv
  BY TypeParts DEF Base, TypeInv, StampInv
<1>1. /\ End \in Slots /\ dma.at \in Slots /\ dma.at \in Int /\ Handed \in Int
      /\ dma.closed \in Nat /\ Ahead \in 0..1 /\ Backlog \in Int
  BY <1>0, SuccIsNext DEF TaskType, DmaType, End, Handed, Ahead, Backlog, Slots
<1>2. Cardinality(Owned) = Backlog
  BY <1>0, <1>1, OwnedCount
<1>3. ASSUME NEW k \in 1..Backlog - Ahead
      PROVE  slot[(dma.at + Ahead + k - 1) % N].buf = dma.closed + Ahead + k
  <2>1. Ahead + k - 1 \in 0..Backlog - 1
    BY <1>1
  <2>2. /\ slot[(dma.at + (Ahead + k - 1)) % N].buf = dma.closed + 1 + (Ahead + k - 1)
        /\ dma.at + (Ahead + k - 1) = dma.at + Ahead + k - 1
        /\ dma.closed + 1 + (Ahead + k - 1) = dma.closed + Ahead + k
    <3>1. slot[(dma.at + (Ahead + k - 1)) % N].buf = dma.closed + 1 + (Ahead + k - 1)
      BY <1>0, <1>1, <2>1, QueueHolds
    <3>2. QED
      BY <1>1, <3>1
  <2>3. QED
    BY <2>2
<1>4. Queued = [k \in 1..Backlog - Ahead |-> slot[(dma.at + Ahead + k - 1) % N].buf]
  <2>1. CASE dma.pc = "send"
    BY <1>2, <2>1 DEF Queued, Ahead, Owned
  <2>2. CASE dma.pc # "send"
    <3>1. dma.at + Ahead = dma.at /\ Backlog - Ahead = Backlog
      BY <1>1, <2>2 DEF Ahead
    <3>2. Queued = [k \in 1..Backlog - 0 |-> slot[(dma.at + k - 1) % N].buf]
      BY <1>2, <2>2 DEF Queued, Owned
    <3>3. QED
      BY <1>1, <3>1, <3>2
  <2>3. QED
    BY <2>1, <2>2
<1>5. QED
  BY <1>3, <1>4 DEF Run

\* A frame put behind a run continues it; one taken is its first.
LEMMA RunGrows ==
    ASSUME NEW m \in Nat, NEW l \in Nat
    PROVE  /\ Len(Run(m, l)) = l
           /\ Run(m, l) \o [k \in 1..1 |-> m + l + 1 + k - 1] = Run(m, l + 1)
<1>1. Run(m, l) \in Seq(Nat) /\ Len(Run(m, l)) = l
  BY DEF Run
<1>2. [k \in 1..1 |-> m + l + 1 + k - 1] = <<m + l + 1>>
  OBVIOUS
<1>3. Run(m, l) \o <<m + l + 1>> = Run(m, l + 1)
  BY <1>1 DEF Run
<1>4. QED
  BY <1>1, <1>2, <1>3

LEMMA RunShrinks ==
    ASSUME NEW m \in Nat, NEW l \in Nat, 0 < l
    PROVE  /\ SubSeq(Run(m, l), 1, 1) = <<m + 1>>
           /\ SubSeq(Run(m, l), 1 + 1, Len(Run(m, l))) = Run(m + 1, l - 1)
<1>1. Run(m, l) \in Seq(Nat) /\ Len(Run(m, l)) = l
  BY DEF Run
<1>2. SubSeq(Run(m, l), 1, 1) = <<m + 1>>
  <2>1. SubSeq(Run(m, l), 1, 1) = [k \in 1..1 |-> m + k]
    BY <1>1 DEF Run
  <2>2. [k \in 1..1 |-> m + k] = <<m + 1>>
    OBVIOUS
  <2>3. QED
    BY <2>1, <2>2
<1>3. SubSeq(Run(m, l), 2, l) = Run(m + 1, l - 1)
  BY <1>1 DEF Run
<1>4. 1 + 1 = 2
  OBVIOUS
<1>5. QED
  BY <1>1, <1>2, <1>3, <1>4

\* The number of the next frame to be handed over.
Upcoming == IF tpc \in {"idle", "kick"} THEN n + 1 ELSE n

\* What the channel's steps say of this.
LEMMA ChannelSteps ==
    ASSUME \/ /\ Len(Queued) + 1 < N + 1
              /\ Queued' = Queued \o [k \in 1..1 |-> Upcoming + k - 1]
              /\ Upcoming' = Upcoming + 1 /\ Out' = Out
           \/ /\ 1 <= Len(Queued) /\ Out' = SubSeq(Queued, 1, 1)
              /\ Queued' = SubSeq(Queued, 1 + 1, Len(Queued)) /\ Upcoming' = Upcoming
           \/ Out' = <<>> /\ Queued' = Queued /\ Upcoming' = Upcoming
           \/ Out' = Out /\ Queued' = Queued /\ Upcoming' = Upcoming
    PROVE  [Channel!Next]_Channel!absVars
<1>1. CASE /\ Len(Queued) + 1 < N + 1
           /\ Queued' = Queued \o [k \in 1..1 |-> Upcoming + k - 1]
           /\ Upcoming' = Upcoming + 1 /\ Out' = Out
  <2>1. Channel!Put(1)
    BY <1>1, Zenon DEF Channel!Put, Upcoming, Out
  <2>2. QED
    BY <2>1 DEF Channel!Next
<1>2. CASE /\ 1 <= Len(Queued) /\ Out' = SubSeq(Queued, 1, 1)
           /\ Queued' = SubSeq(Queued, 1 + 1, Len(Queued)) /\ Upcoming' = Upcoming
  <2>1. Channel!Take(1)
    BY <1>2, Zenon DEF Channel!Take, Upcoming, Out
  <2>2. QED
    BY <2>1 DEF Channel!Next
<1>3. CASE Out' = <<>> /\ Queued' = Queued /\ Upcoming' = Upcoming
  <2>1. Channel!Done
    BY <1>3, Zenon DEF Channel!Done, Upcoming, Out
  <2>2. QED
    BY <2>1, Zenon DEF Channel!Next
<1>4. CASE Out' = Out /\ Queued' = Queued /\ Upcoming' = Upcoming
  <2>1. UNCHANGED Channel!absVars
    BY <1>4, Zenon DEF Channel!absVars, Upcoming, Out
  <2>2. QED
    BY <2>1, Zenon
<1>5. QED
  BY <1>1, <1>2, <1>3, <1>4, Zenon

\* The hand-over puts a frame, the DMA takes one and is done with it; no other
\* step of the task, the DMA or the handler changes what is queued.
LEMMA StepsOfChannel ==
    Base /\ StampInv /\ ContentInv /\ ContentInv' /\ [Next]_vars
        => [Channel!Next]_Channel!absVars
<1> SUFFICES ASSUME Base, StampInv, ContentInv, ContentInv', [Next]_vars
             PROVE  [Channel!Next]_Channel!absVars
  OBVIOUS
<1>0. TaskType /\ DmaType /\ QueueInv /\ SendInv /\ n \in Nat /\ N \in Nat
  BY TypeParts, TxAssumption DEF Base, TypeInv, StampInv, TaskType
<1>q. /\ Handed \in Int /\ End \in Slots /\ dma.at \in Slots /\ dma.closed \in Nat
      /\ ~HandOver => Handed' = Handed
      /\ HandOver => Handed' = Handed + 1 /\ End = nextIdx
      /\ ~DmaClose => dma'.at = dma.at /\ dma'.closed = dma.closed
  BY QueueEnds
<1>b. Backlog \in 0..N /\ Handed = dma.closed + Backlog
  BY <1>0, <1>q DEF QueueInv, Backlog
<1>u. Upcoming = Handed + 1 /\ Upcoming' = Handed' + 1
  <2>1. Upcoming = Handed + 1
    BY <1>0 DEF Upcoming, Handed
  <2>2. n' \in Nat
    BY Grows
  <2>3. Upcoming' = Handed' + 1
    <3>1. CASE tpc' \in {"idle", "kick"}
      BY <2>2, <3>1 DEF Upcoming, Handed
    <3>2. CASE tpc' \notin {"idle", "kick"}
      <4>1. Upcoming' = n' /\ Handed' = n' - 1
        BY <3>2, Zenon DEF Upcoming, Handed
      <4>2. \A x \in Nat : x = x - 1 + 1
        OBVIOUS
      <4>3. QED
        BY <2>2, <4>1, <4>2, Zenon
    <3>3. QED
      BY <3>1, <3>2
  <2>4. QED
    BY <2>1, <2>3
<1>c. /\ Queued = Run(dma.closed + Ahead, Backlog - Ahead)
      /\ Queued' = Run(dma'.closed + Ahead', Handed' - dma'.closed - Ahead')
  BY Zenon DEF ContentInv, Backlog
<1>a. Ahead \in 0..Backlog /\ (dma.pc = "send" => dma.frame = dma.closed + 1)
  <2>1. CASE dma.pc = "send"
    <3>1. slot[dma.at].own /\ dma.frame = slot[dma.at].buf
      BY <1>0, <2>1 DEF SendInv
    <3>2. Back(dma.at, End) < Backlog /\ Back(dma.at, End) \in 0..N - 1
      BY <1>0, <1>q, <3>1, BackRange DEF QueueInv
    <3>3. Back(dma.at, End) = Backlog - 1 /\ slot[dma.at].buf = Handed - Back(dma.at, End)
      BY <1>0, <1>b, <1>q, <3>1, <3>2 DEF QueueInv
    <3>4. QED
      BY <1>b, <1>q, <2>1, <3>1, <3>2, <3>3 DEF Ahead
  <2>2. CASE dma.pc # "send"
    BY <1>b, <2>2 DEF Ahead
  <2>3. QED
    BY <2>1, <2>2
<1>1. CASE HandOver
  <2>1. dma' = dma /\ ~DmaClose /\ ~slot[nextIdx].own
    BY <1>1 DEF HandOver, DmaClose, TaskStep, Base, TypeInv, Released, taskVars
  <2>2. Out' = Out /\ Ahead' = Ahead
    BY <2>1 DEF Out, Ahead
  <2>3. Backlog < N
    BY <1>0, <1>1, <1>b, <1>q, <2>1, BackRange DEF QueueInv
  <2> DEFINE l == Backlog - Ahead
             m == dma.closed + Ahead
  <2>4. l \in Nat /\ m \in Nat /\ m + l + 1 = Upcoming /\ l <= Backlog
        /\ Handed' - dma'.closed - Ahead' = l + 1 /\ dma'.closed + Ahead' = m
    BY <1>a, <1>b, <1>q, <1>u, <1>1, <2>1, <2>2
  <2>5. Queued = Run(m, l) /\ Queued' = Run(m, l + 1)
    BY <1>c, <2>4
  <2> HIDE DEF l, m
  <2>6. Len(Queued) = l /\ Queued' = Queued \o [k \in 1..1 |-> m + l + 1 + k - 1]
    BY <2>4, <2>5, RunGrows
  <2>7. Queued' = Queued \o [k \in 1..1 |-> Upcoming + k - 1]
    BY <2>4, <2>6
  <2>8. Len(Queued) + 1 < N + 1 /\ Upcoming' = Upcoming + 1
    BY <1>0, <1>b, <1>q, <1>u, <1>1, <2>3, <2>4, <2>6
  <2>9. QED
    BY <2>2, <2>7, <2>8, ChannelSteps, Zenon
<1>2. CASE DmaFetch /\ slot[dma.at].own
  <2>1. /\ dma.pc = "run" /\ dma'.pc = "send" /\ dma'.frame = slot[dma.at].buf
        /\ ~HandOver /\ ~DmaClose
    BY <1>0, <1>2 DEF DmaFetch, DmaType, HandOver, DmaClose, TaskStep, taskVars
  <2>2. Ahead = 0 /\ Ahead' = 1 /\ Out' = <<dma'.frame>>
    BY <2>1 DEF Ahead, Out
  <2>3. Back(dma.at, End) < Backlog /\ Back(dma.at, End) \in 0..N - 1
    BY <1>0, <1>2, <1>q, BackRange DEF QueueInv
  <2>4. Back(dma.at, End) = Backlog - 1 /\ slot[dma.at].buf = Handed - Back(dma.at, End)
    BY <1>0, <1>2, <1>b, <1>q, <2>3 DEF QueueInv
  <2>5. dma'.frame = dma.closed + 1 /\ 0 < Backlog /\ Backlog \in Nat
    BY <1>b, <1>q, <2>1, <2>3, <2>4
  <2>6. /\ Handed' - dma'.closed - Ahead' = Backlog - 1 /\ dma'.closed + Ahead' = dma.closed + 1
        /\ Backlog - Ahead = Backlog /\ dma.closed + Ahead = dma.closed
    BY <1>b, <1>q, <2>1, <2>2
  <2>7. Queued = Run(dma.closed, Backlog) /\ Queued' = Run(dma.closed + 1, Backlog - 1)
    BY <1>c, <2>6
  <2>8. Out' = SubSeq(Queued, 1, 1) /\ Queued' = SubSeq(Queued, 1 + 1, Len(Queued))
    BY <1>q, <2>2, <2>5, <2>7, RunShrinks
  <2>9. 1 <= Len(Queued) /\ Upcoming' = Upcoming
    <3>1. Len(Run(dma.closed, Backlog)) = Backlog
      BY <1>q, <2>5, RunGrows
    <3>2. QED
      BY <1>q, <1>u, <2>1, <2>5, <2>7, <3>1
  <2>10. QED
    BY <2>8, <2>9, ChannelSteps, Zenon
<1>3. CASE DmaClose
  <2>1. /\ dma.pc = "send" /\ dma'.pc # "send" /\ dma'.closed = dma.frame /\ ~HandOver
    BY <1>3 DEF DmaClose, HandOver, TaskStep, taskVars
  <2>2. Ahead = 1 /\ Ahead' = 0 /\ Out' = <<>> /\ Upcoming' = Upcoming
    BY <1>q, <1>u, <2>1 DEF Ahead, Out
  <2>3. /\ Handed' - dma'.closed - Ahead' = Backlog - Ahead
        /\ dma'.closed + Ahead' = dma.closed + Ahead
    BY <1>a, <1>b, <1>q, <2>1, <2>2
  <2>4. Queued' = Queued
    BY <1>c, <2>3
  <2>5. QED
    BY <2>2, <2>4, ChannelSteps, Zenon
<1>4. CASE ~HandOver /\ ~DmaClose /\ ~(DmaFetch /\ slot[dma.at].own)
  <2>1. (dma'.pc = "send" <=> dma.pc = "send") /\ dma'.frame = dma.frame
    <3>1. CASE DmaFetch \/ DmaRaise
      BY <1>0, <1>4, <3>1 DEF DmaFetch, DmaRaise, DmaType
    <3>2. CASE Kick
      BY <1>0, <3>2 DEF Kick, DmaType
    <3>3. CASE UNCHANGED dma
      BY <3>3
    <3>4. ~DmaFetch /\ ~DmaRaise /\ ~Kick => UNCHANGED dma
      BY <1>4 DEF Next, TransmitStep, DmaStep, IsrStep, Transmit, WaitReleased, EraseStamp,
         EraseMode, EraseFlags, Fill, DmaReceives, IsrEnter, IsrClear, IsrNotify, Scan, Deliver, IsrExit,
         vars
    <3>5. QED
      BY <3>1, <3>2, <3>3, <3>4
  <2>2. Ahead' = Ahead /\ Out' = Out
    BY <2>1 DEF Ahead, Out
  <2>3. Upcoming' = Upcoming /\ dma'.closed = dma.closed /\ Handed' = Handed
    BY <1>q, <1>u, <1>4
  <2>4. Queued' = Queued
    BY <1>c, <2>2, <2>3 DEF Backlog
  <2>5. QED
    BY <2>2, <2>3, <2>4, ChannelSteps, Zenon
<1>5. QED
  BY <1>1, <1>2, <1>3, <1>4

\* From the hand-over to the wire the ring is a first-in first-out channel of N
\* frames, for every N: each frame is sent once, as it was given, in order.
THEOREM RingIsChannel == Spec => ImplementsChannel
<1>1. Init => Channel!Init
  <2>1. ASSUME Init PROVE Queued = <<>> /\ tpc = "idle" /\ n = 0 /\ dma.pc = "stopped"
    <3>1. dma.pc = "stopped" /\ tpc = "idle" /\ n = 0
      BY <2>1 DEF Init
    <3>2. {j \in Slots : slot[j].own} = {}
      BY <2>1 DEF Init
    <3>3. Cardinality({}) = 0
      BY FS_EmptySet
    <3>4. Queued = [k \in 1..0 - 0 |-> slot[(dma.at + k - 1) % N].buf]
      BY <3>1, <3>2, <3>3 DEF Queued
    <3>5. 1..0 - 0 = {}
      OBVIOUS
    <3>6. Queued = <<>>
      BY <3>4, <3>5
    <3>7. QED
      BY <3>1, <3>6
  <2>2. QED
    BY <2>1 DEF Channel!Init
<1>2. Base /\ StampInv /\ ContentInv /\ ContentInv' /\ [Next]_vars
          => [Channel!Next]_Channel!absVars
  BY StepsOfChannel
<1>3. QED
  BY <1>1, <1>2, ContentIsRun, StampInvHolds, PTL DEF Spec, ImplementsChannel, Channel!Spec
=============================================================================
