----------------------------- MODULE EthRxProofs -----------------------------
(***************************************************************************)
(* Proofs about EthRx, for a ring of any size, any number of frames and     *)
(* both stacks, also when the ring fills: types; no frame is lost, passed   *)
(* on twice or with the time stamp of another one; and the order of frames. *)
(***************************************************************************)
EXTENDS EthRx, FiniteSetTheorems, TLAPS

(***************************************************************************)
(* The ring                                                                 *)
(***************************************************************************)

LEMMA NextIs ==
    ASSUME NEW j \in Slots
    PROVE  NextDesc(j) \in Slots /\ NextDesc(j) = (IF j = N - 1 THEN 0 ELSE j + 1)
<1>1. CASE j = N - 1
  <2>1. (j + 1) % N = 0
    BY <1>1, RxAssumption DEF Slots
  <2>2. QED
    BY <1>1, <2>1, RxAssumption DEF NextDesc, Slots
<1>2. CASE j # N - 1
  <2>1. j + 1 \in 0..N - 1
    BY <1>2, RxAssumption DEF Slots
  <2>2. (j + 1) % N = j + 1
    BY <2>1, RxAssumption
  <2>3. QED
    BY <1>2, <2>1, <2>2 DEF NextDesc, Slots
<1>3. QED
  BY <1>1, <1>2

LEMMA PrevIs ==
    ASSUME NEW j \in Slots
    PROVE  PrevDesc(j) \in Slots /\ PrevDesc(j) = (IF j = 0 THEN N - 1 ELSE j - 1)
<1>1. CASE j = 0
  <2>1. (0 - 1) % N = N - 1
    BY RxAssumption
  <2>2. QED
    BY <1>1, <2>1, RxAssumption DEF PrevDesc, Slots
<1>2. CASE j # 0
  <2>1. j - 1 \in 0..N - 1
    BY <1>2, RxAssumption DEF Slots
  <2>2. (j - 1) % N = j - 1
    BY <2>1, RxAssumption
  <2>3. QED
    BY <1>2, <2>1, <2>2 DEF PrevDesc, Slots
<1>3. QED
  BY <1>1, <1>2

LEMMA PrevOfNext ==
    ASSUME NEW j \in Slots
    PROVE  PrevDesc(NextDesc(j)) = j /\ NextDesc(PrevDesc(j)) = j
<1>1. PrevDesc(NextDesc(j)) = j
  BY NextIs, PrevIs DEF Slots
<1>2. NextDesc(PrevDesc(j)) = j
  BY NextIs, PrevIs DEF Slots
<1>3. QED
  BY <1>1, <1>2

LEMMA NextDistinct == \A j, k \in Slots : NextDesc(j) = NextDesc(k) => j = k
  BY PrevOfNext

(***************************************************************************)
(* Types                                                                    *)
(***************************************************************************)

LEMMA RecordTypes ==
    /\ Armed \in Slot /\ NoEvent \in Event
    /\ \A f \in 0..MaxFrames : Context(f) \in Slot /\ \A s \in BOOLEAN : Packet(f, s) \in Slot
  BY RxAssumption DEF Slot, Armed, Packet, Context, Event, NoEvent

LEMMA TypeInit == Init => TypeOK
<1> SUFFICES ASSUME Init PROVE TypeOK
  OBVIOUS
<1>1. slot \in [Slots -> Slot] /\ evt \in Event /\ log \in Seq(Event)
  BY RecordTypes DEF Init
<1>2. 0 \in Slots /\ 0 \in 0..MaxFrames /\ 0 \in 0..MaxTx
  BY RxAssumption DEF Slots
<1>3. dma \in [at : Slots, ctx : 0..MaxFrames]
  BY <1>2 DEF Init
<1>4. QED
  BY <1>1, <1>2, <1>3 DEF Init, TypeOK

LEMMA TypeKept == TypeOK /\ [Next]_vars => TypeOK'
<1> SUFFICES ASSUME TypeOK, [Next]_vars PROVE TypeOK'
  OBVIOUS
<1>0. /\ stack \in Stacks /\ slot \in [Slots -> Slot]
      /\ dma \in [at : Slots, ctx : 0..MaxFrames] /\ received \in 0..MaxFrames
      /\ dmacsr \subseteq {"RI", "TI"} /\ csr \subseteq {"RI", "TI"} /\ tx \in 0..MaxTx
      /\ ipc \in {"idle", "clear", "notify", "process", "exit"} /\ notified \in BOOLEAN
      /\ rpc \in {"idle", "walk", "look", "upcall", "restore", "restoreCtx"}
      /\ bd \in Slots /\ evt \in Event /\ log \in Seq(Event)
      /\ dropped \subseteq 0..MaxFrames /\ refused \in BOOLEAN /\ strayed \in BOOLEAN
  BY DEF TypeOK
<1>a. NextDesc(bd) \in Slots /\ PrevDesc(bd) \in Slots /\ NextDesc(NextDesc(bd)) \in Slots
      /\ NextDesc(dma.at) \in Slots
  BY <1>0, NextIs, PrevIs
<1> USE DEF isrVars, histVars, readVars
<1>1. CASE UNCHANGED vars
  BY <1>0, <1>1 DEF vars, TypeOK
<1>2. ASSUME NEW stamped \in BOOLEAN, DmaReceive(stamped) PROVE TypeOK'
  <2>1. received' \in 0..MaxFrames
    BY <1>0, <1>2, RxAssumption DEF DmaReceive
  <2>2. slot' \in [Slots -> Slot]
    BY <1>0, <1>2, <2>1, RecordTypes DEF DmaReceive
  <2>3. dma' \in [at : Slots, ctx : 0..MaxFrames]
    BY <1>0, <1>2, <1>a, <2>1 DEF DmaReceive
  <2>4. dmacsr' \subseteq {"RI", "TI"}
    BY <1>0, <1>2 DEF DmaReceive
  <2>5. QED
    BY <1>0, <1>2, <2>1, <2>2, <2>3, <2>4 DEF DmaReceive, TypeOK
<1>3. CASE DmaContext
  <2>1. slot' \in [Slots -> Slot]
    <3>1. dma.ctx \in 0..MaxFrames
      BY <1>0
    <3>2. Context(dma.ctx) \in Slot
      BY <3>1, RecordTypes
    <3>3. QED
      BY <1>0, <1>3, <3>2 DEF DmaContext
  <2>2. dma' \in [at : Slots, ctx : 0..MaxFrames] /\ dmacsr' \subseteq {"RI", "TI"}
    BY <1>0, <1>3, <1>a, RxAssumption DEF DmaContext
  <2>3. QED
    BY <1>0, <1>3, <2>1, <2>2 DEF DmaContext, TypeOK
<1>4. CASE DmaSent
  BY <1>0, <1>4, RxAssumption DEF DmaSent, TypeOK
<1>5. CASE IsrStep
  BY <1>0, <1>5 DEF IsrStep, IsrEnter, IsrClear, IsrNotify, IsrExit, TypeOK
<1>6. CASE Start \/ Walk
  BY <1>0, <1>6, <1>a DEF Start, Walk, ReadStep, TypeOK
<1>7. CASE Look
  <2>1. evt' \in Event /\ strayed' \in BOOLEAN
    <3>1. CASE slot[bd].own
      BY <1>0, <1>7, <3>1, RecordTypes, Zenon DEF Look
    <3>2. CASE ~slot[bd].own
      <4>1. PICK tsa \in SeenTsa(slot[bd]) :
              evt' = [frame |-> slot[bd].frame, stamped |-> tsa,
                      stamp |-> IF tsa THEN StampOf(bd) ELSE 0]
        BY <1>7, <3>2 DEF Look
      <4>2. tsa \in BOOLEAN /\ slot[bd].frame \in 0..MaxFrames /\ StampOf(bd) \in 0..MaxFrames
        BY <1>0, <1>a DEF SeenTsa, Slot, StampOf
      <4>3. QED
        BY <1>7, <3>2, <4>1, <4>2, RxAssumption DEF Look, Event
    <3>3. QED
      BY <3>1, <3>2
  <2>2. rpc' \in {"idle", "upcall"}
    BY <1>7 DEF Look
  <2>3. QED
    BY <1>0, <1>7, <2>1, <2>2 DEF Look, ReadStep, TypeOK
<1>8. CASE Upcall
  <2>1. CASE Accepted
    <3>1. log' \in Seq(Event)
      BY <1>0, <2>1 DEF Accepted
    <3>2. QED
      BY <1>0, <1>8, <2>1, <3>1 DEF Upcall, Accepted, ReadStep, TypeOK
  <2>2. CASE Refused
    BY <1>0, <1>8, <1>a, <2>2 DEF Upcall, Refused, Follower, ReadStep, TypeOK
  <2>3. CASE Dropped
    <3>1. dropped' \subseteq 0..MaxFrames
      BY <1>0, <2>3 DEF Dropped, Event
    <3>2. QED
      BY <1>0, <1>8, <2>3, <3>1 DEF Upcall, Dropped, ReadStep, TypeOK
  <2>4. QED
    BY <1>8, <2>1, <2>2, <2>3 DEF Upcall
<1>9. CASE Restore \/ RestoreCtx
  <2>1. slot' \in [Slots -> Slot]
    BY <1>0, <1>9, <1>a, RecordTypes DEF Restore, RestoreCtx
  <2>2. QED
    BY <1>0, <1>9, <1>a, <2>1 DEF Restore, RestoreCtx, Follower, ReadStep, TypeOK
<1>10. QED
  BY <1>1, <1>2, <1>3, <1>4, <1>5, <1>6, <1>7, <1>8, <1>9 DEF Next, ProcessRx

\* Every variable has its type: no index leaves the ring, for any ring, stack and load.
THEOREM TypeCorrect == Spec => []TypeOK
  BY TypeInit, TypeKept, PTL DEF Spec

(***************************************************************************)
(* What the steps write                                                     *)
(***************************************************************************)

HoldsPacket(j) == ~slot[j].own /\ slot[j].frame # 0

Still == UNCHANGED <<slot, dma, received, rpc, bd, evt, histVars>>

LEMMA StepCases ==
    ASSUME [Next]_vars
    PROVE  \/ Still \/ (\E stamped \in BOOLEAN : DmaReceive(stamped)) \/ DmaContext
           \/ Start \/ Walk \/ Look \/ (Upcall /\ Accepted) \/ (Upcall /\ Dropped)
           \/ (Upcall /\ Refused) \/ Restore \/ RestoreCtx
<1>1. UNCHANGED vars \/ DmaSent \/ IsrStep => Still
  BY DEF vars, readVars, DmaSent, IsrStep, IsrEnter, IsrClear, IsrNotify, IsrExit, Still
<1>2. QED
  BY <1>1 DEF Next, ProcessRx, Upcall

\* The reader moves on, the descriptors stay.
LEMMA Moved ==
    ASSUME Start \/ Walk \/ (Upcall /\ Refused)
    PROVE  /\ UNCHANGED <<slot, dma, received, evt, log, dropped, strayed>> /\ rpc' \in {"walk", "look"}
           /\ Start \/ Walk => UNCHANGED refused
           /\ rpc \in {"idle", "walk", "upcall"} /\ (rpc = "upcall" => refused')
           /\ Upcall /\ Refused => rpc' = "look"
  BY DEF Start, Walk, Upcall, Refused, ReadStep, histVars

LEMMA PacketWritten ==
    ASSUME TypeOK, NEW stamped \in BOOLEAN, DmaReceive(stamped)
    PROVE  /\ slot[dma.at].own /\ dma.ctx = 0 /\ received' = received + 1
           /\ dma'.at = NextDesc(dma.at) /\ dma'.ctx = (IF stamped THEN received + 1 ELSE 0)
           /\ ~slot'[dma.at].own /\ slot'[dma.at].frame = received + 1
           /\ slot'[dma.at].tsa <=> stamped
           /\ \A j \in Slots : j # dma.at => slot'[j] = slot[j]
           /\ UNCHANGED <<rpc, bd, evt, log, dropped, refused, strayed>>
<1>0. slot \in [Slots -> Slot] /\ dma.at \in Slots
  BY DEF TypeOK
<1>1. /\ slot[dma.at].own /\ dma.ctx = 0 /\ received' = received + 1
      /\ dma'.at = NextDesc(dma.at) /\ dma'.ctx = (IF stamped THEN received + 1 ELSE 0)
      /\ UNCHANGED <<rpc, bd, evt, log, dropped, refused, strayed>>
      /\ slot' = [slot EXCEPT ![dma.at] = Packet(received + 1, stamped)]
  BY DEF DmaReceive, readVars, histVars
<1>2. slot'[dma.at] = Packet(received + 1, stamped) /\ \A j \in Slots : j # dma.at => slot'[j] = slot[j]
  BY <1>0, <1>1
<1>3. QED
  BY <1>1, <1>2 DEF Packet

LEMMA ContextWritten ==
    ASSUME TypeOK, DmaContext
    PROVE  /\ slot[dma.at].own /\ dma.ctx # 0 /\ received' = received
           /\ dma'.at = NextDesc(dma.at) /\ dma'.ctx = 0
           /\ ~slot'[dma.at].own /\ slot'[dma.at].frame = 0 /\ slot'[dma.at].time = dma.ctx
           /\ \A j \in Slots : j # dma.at => slot'[j] = slot[j]
           /\ UNCHANGED <<rpc, bd, evt, log, dropped, refused, strayed>>
<1>0. slot \in [Slots -> Slot] /\ dma.at \in Slots
  BY DEF TypeOK
<1>1. /\ slot[dma.at].own /\ dma.ctx # 0 /\ received' = received
      /\ dma'.at = NextDesc(dma.at) /\ dma'.ctx = 0
      /\ UNCHANGED <<rpc, bd, evt, log, dropped, refused, strayed>>
      /\ slot' = [slot EXCEPT ![dma.at] = Context(dma.ctx)]
  BY DEF DmaContext, readVars, histVars
<1>2. slot'[dma.at] = Context(dma.ctx) /\ \A j \in Slots : j # dma.at => slot'[j] = slot[j]
  BY <1>0, <1>1
<1>3. QED
  BY <1>1, <1>2 DEF Context

LEMMA PacketGivenBack ==
    ASSUME TypeOK, Restore
    PROVE  /\ rpc = "restore" /\ slot'[bd].own /\ \A j \in Slots : j # bd => slot'[j] = slot[j]
           /\ evt.stamped => rpc' = "restoreCtx" /\ bd' = bd
           /\ ~evt.stamped => rpc' = "look" /\ bd' = NextDesc(bd)
           /\ UNCHANGED <<dma, received, evt, log, dropped, refused, strayed>>
  BY DEF TypeOK, Restore, ReadStep, Follower, Armed, histVars

LEMMA ContextGivenBack ==
    ASSUME TypeOK, RestoreCtx
    PROVE  /\ rpc = "restoreCtx" /\ slot'[NextDesc(bd)].own
           /\ \A j \in Slots : j # NextDesc(bd) => slot'[j] = slot[j]
           /\ rpc' = "look" /\ bd' = (IF evt.stamped THEN NextDesc(NextDesc(bd)) ELSE NextDesc(bd))
           /\ UNCHANGED <<dma, received, evt, log, dropped, refused, strayed>>
<1>1. NextDesc(bd) \in Slots
  BY NextIs DEF TypeOK
<1>2. QED
  BY <1>1 DEF TypeOK, RestoreCtx, ReadStep, Follower, Armed, histVars

\* A descriptor that is read without straying is a packet's, and so on.
LEMMA FrameRead ==
    ASSUME TypeOK, Look
    PROVE  /\ rpc = "look" /\ UNCHANGED <<slot, dma, received, bd, log, dropped, refused>>
           /\ strayed => strayed'
           /\ rpc' \in {"idle", "upcall"} /\ (rpc' = "idle" <=> slot[bd].own)
           /\ rpc' = "upcall" /\ ~strayed' =>
                 /\ HoldsPacket(bd) /\ evt'.frame = slot[bd].frame
                 /\ slot[bd].tsa <=> evt'.stamped
                 /\ evt'.stamped => /\ IsContext(slot[NextDesc(bd)])
                                    /\ evt'.stamp = slot[NextDesc(bd)].time
<1>1. rpc = "look" /\ UNCHANGED <<slot, dma, received, bd, log, dropped, refused>>
  BY DEF Look, ReadStep
<1>2. CASE slot[bd].own
  <2>1. rpc' = "idle" /\ strayed' = strayed
    BY <1>2 DEF Look
  <2>2. QED
    BY <1>1, <1>2, <2>1
<1>3. CASE ~slot[bd].own
  <2>1. /\ rpc' = "upcall"
        /\ strayed' = (\/ strayed \/ IsContext(slot[bd])
                       \/ (evt'.stamped /\ ~IsContext(slot[NextDesc(bd)])))
    BY <1>3 DEF Look
  <2>2. PICK tsa \in SeenTsa(slot[bd]) :
          evt' = [frame |-> slot[bd].frame, stamped |-> tsa,
                  stamp |-> IF tsa THEN StampOf(bd) ELSE 0]
    BY <1>3 DEF Look
  <2>3. evt'.frame = slot[bd].frame /\ evt'.stamped = tsa /\ (tsa => evt'.stamp = slot[NextDesc(bd)].time)
    BY <2>2 DEF StampOf
  <2>4. slot[bd].frame # 0 => tsa = slot[bd].tsa
    BY <2>2 DEF SeenTsa
  <2>5. ~strayed' => ~strayed /\ HoldsPacket(bd) /\ (evt'.stamped => IsContext(slot[NextDesc(bd)]))
    BY <1>3, <2>1, Zenon DEF IsContext, HoldsPacket
  <2>6. HoldsPacket(bd) => slot[bd].frame # 0
    BY DEF HoldsPacket
  <2>7. QED
    BY <1>1, <1>3, <2>1, <2>3, <2>4, <2>5, <2>6, Zenon
<1>4. QED
  BY <1>2, <1>3

LEMMA FrameLogged ==
    ASSUME TypeOK, Upcall, Accepted
    PROVE  /\ rpc = "upcall" /\ rpc' = "restore"
           /\ UNCHANGED <<slot, dma, received, bd, evt, dropped, refused, strayed>>
           /\ Len(log) \in Nat /\ DOMAIN log = 1..Len(log) /\ DOMAIN log' = 1..Len(log) + 1
           /\ log'[Len(log) + 1] = evt /\ \A k \in DOMAIN log : log'[k] = log[k]
           /\ PassedOn' = PassedOn \cup {evt.frame}
<1>1. /\ rpc = "upcall" /\ rpc' = "restore" /\ log' = Append(log, evt)
      /\ UNCHANGED <<slot, dma, received, bd, evt, dropped, refused, strayed>>
  BY DEF Upcall, Accepted, ReadStep
<1>2. /\ Len(log) \in Nat /\ DOMAIN log = 1..Len(log) /\ DOMAIN log' = 1..Len(log) + 1
      /\ log'[Len(log) + 1] = evt /\ \A k \in DOMAIN log : log'[k] = log[k]
  BY <1>1 DEF TypeOK
<1>3. PassedOn' = PassedOn \cup {evt.frame}
  <2>1. \A f : f \in PassedOn' <=> f \in PassedOn \cup {evt.frame}
    BY <1>2 DEF PassedOn
  <2>2. QED
    BY <2>1, Zenon
<1>4. QED
  BY <1>1, <1>2, <1>3

LEMMA FrameDropped ==
    ASSUME Upcall, Dropped
    PROVE  /\ rpc = "upcall" /\ rpc' = "restore" /\ dropped' = dropped \cup {evt.frame}
           /\ UNCHANGED <<slot, dma, received, bd, evt, log, refused, strayed>>
  BY DEF Upcall, Dropped, ReadStep

\* The frames ETHHW_ProcessRx is done with.
Gone == PassedOn \cup dropped

(***************************************************************************)
(* No frame is lost, and none gets another one's time stamp                 *)
(***************************************************************************)

\* A context descriptor comes after the stamped packet it belongs to, but while
\* ETHHW_ProcessRx is between the two descriptors of a frame; the context the DMA
\* still owes belongs to the packet it wrote last, and is in no descriptor yet.
PairInv ==
    ~strayed => \A p \in Slots :
        /\ IsContext(slot[NextDesc(p)]) =>
              \/ rpc = "restoreCtx" /\ p = bd
              \/ HoldsPacket(p) /\ slot[p].tsa /\ slot[p].frame = slot[NextDesc(p)].time
        /\ dma.ctx # 0 /\ dma.at = NextDesc(p) =>
              /\ HoldsPacket(p) /\ slot[p].tsa /\ slot[p].frame = dma.ctx
              /\ IsContext(slot[NextDesc(p)]) => rpc = "restoreCtx" /\ p = bd

\* What ETHHW_ProcessRx has read of a frame is still in its descriptors.
EvtInv ==
    ~strayed =>
        /\ rpc \in {"upcall", "restore"} =>
              HoldsPacket(bd) /\ slot[bd].frame = evt.frame /\ (slot[bd].tsa <=> evt.stamped)
        /\ rpc \in {"upcall", "restore"} /\ evt.stamped => evt.stamp = evt.frame
        /\ rpc = "restore" => evt.frame \in Gone
        /\ rpc = "restoreCtx" => evt.stamped
        /\ rpc \in {"upcall", "restore", "restoreCtx"} /\ evt.stamped =>
              \A p \in Slots : p = bd => IsContext(slot[NextDesc(p)])

\* Frames in the ring are received ones, each in one descriptor, and none is done
\* with but the one about to be restored. Every other frame is, in one way.
RingInv ==
    ~strayed =>
        /\ \A j \in Slots : HoldsPacket(j) =>
              /\ slot[j].frame \in 1..received
              /\ slot[j].frame \in Gone => rpc = "restore" /\ j = bd
        /\ \A j, k \in Slots :
              HoldsPacket(j) /\ HoldsPacket(k) /\ slot[j].frame = slot[k].frame => j = k
        /\ \A f \in 1..received :
              f \in Gone \/ \E j \in Slots : HoldsPacket(j) /\ slot[j].frame = f
        /\ dropped \subseteq 1..received /\ PassedOn \cap dropped = {}

LEMMA PairKept == TypeOK /\ EvtInv /\ PairInv /\ [Next]_vars => PairInv'
<1> SUFFICES ASSUME TypeOK, EvtInv, PairInv, [Next]_vars, ~strayed', NEW p \in Slots
             PROVE  /\ IsContext(slot[NextDesc(p)])' =>
                          \/ (rpc = "restoreCtx" /\ p = bd)'
                          \/ /\ HoldsPacket(p)' /\ slot'[p].tsa
                             /\ slot'[p].frame = slot'[NextDesc(p)].time
                    /\ dma'.ctx # 0 /\ dma'.at = NextDesc(p) =>
                          /\ HoldsPacket(p)' /\ slot'[p].tsa /\ slot'[p].frame = dma'.ctx
                          /\ IsContext(slot[NextDesc(p)])' => (rpc = "restoreCtx" /\ p = bd)'
  BY DEF PairInv, NextDesc
<1> DEFINE q == NextDesc(p)
           InPair == \/ rpc = "restoreCtx" /\ p = bd
                     \/ HoldsPacket(p) /\ slot[p].tsa /\ slot[p].frame = slot[q].time
<1>0. q \in Slots /\ bd \in Slots /\ dma.at \in Slots /\ NextDesc(bd) \in Slots /\ received \in Nat
  BY NextIs DEF TypeOK
<1>i. \A r \in Slots : NextDesc(r) = q => r = p
  BY NextDistinct
<1>1. ~strayed => /\ IsContext(slot[q]) => InPair
                  /\ dma.ctx # 0 /\ dma.at = q =>
                        /\ HoldsPacket(p) /\ slot[p].tsa /\ slot[p].frame = dma.ctx
                        /\ IsContext(slot[q]) => rpc = "restoreCtx" /\ p = bd
  BY DEF PairInv
<1>q. q' = q
  BY DEF NextDesc
<1> HIDE DEF q
<1>2. CASE Still
  BY <1>1, <1>2, <1>q DEF Still, HoldsPacket, IsContext, q, histVars
<1>3. ASSUME NEW stamped \in BOOLEAN, DmaReceive(stamped)
      PROVE  /\ IsContext(slot'[q]) => InPair'
             /\ dma'.ctx # 0 /\ dma'.at = q =>
                   /\ HoldsPacket(p)' /\ slot'[p].tsa /\ slot'[p].frame = dma'.ctx
                   /\ IsContext(slot'[q]) => (rpc = "restoreCtx" /\ p = bd)'
  <2>1. q # dma.at /\ IsContext(slot'[q]) => InPair /\ (HoldsPacket(p) => p # dma.at)
    BY <1>0, <1>1, <1>3, PacketWritten DEF HoldsPacket
  <2>2. ~IsContext(slot'[dma.at])
    BY <1>0, <1>3, PacketWritten DEF IsContext
  <2>3. IsContext(slot'[q]) => InPair'
    BY <1>0, <1>3, <1>q, <2>1, <2>2, PacketWritten DEF HoldsPacket
  <2>4. dma'.at = q => p = dma.at
    BY <1>0, <1>3, <1>i, PacketWritten
  <2>5. p = dma.at /\ IsContext(slot'[q]) => rpc = "restoreCtx" /\ p = bd
    BY <2>1, <2>2
  <2>6. QED
    BY <1>0, <1>3, <2>3, <2>4, <2>5, PacketWritten DEF HoldsPacket
<1>4. ASSUME DmaContext
      PROVE  /\ IsContext(slot'[q]) => InPair'
             /\ dma'.ctx = 0
  <2>1. CASE q = dma.at
    BY <1>0, <1>1, <1>4, <1>q, <2>1, ContextWritten DEF HoldsPacket
  <2>2. CASE q # dma.at
    BY <1>0, <1>1, <1>4, <1>q, <2>2, ContextWritten DEF HoldsPacket
  <2>3. QED
    BY <1>4, <2>1, <2>2, ContextWritten
<1>5. CASE Start \/ Walk \/ (Upcall /\ Refused)
  BY <1>1, <1>5, <1>q, Moved DEF HoldsPacket, q
<1>6. CASE Look
  BY <1>1, <1>6, <1>q, FrameRead DEF HoldsPacket, q
<1>7. CASE Upcall /\ (Accepted \/ Dropped)
  BY <1>1, <1>7, <1>q, FrameLogged, FrameDropped DEF HoldsPacket, q
<1>8. ASSUME Restore
      PROVE  /\ IsContext(slot'[q]) => InPair'
             /\ dma'.ctx # 0 /\ dma'.at = q =>
                   /\ HoldsPacket(p)' /\ slot'[p].tsa /\ slot'[p].frame = dma'.ctx
                   /\ IsContext(slot'[q]) => (rpc = "restoreCtx" /\ p = bd)'
  <2>1. /\ rpc = "restore" /\ slot'[bd].own /\ \A j \in Slots : j # bd => slot'[j] = slot[j]
        /\ evt.stamped => rpc' = "restoreCtx" /\ bd' = bd
        /\ dma' = dma /\ ~strayed
    BY <1>8, PacketGivenBack
  <2>2. (slot[bd].tsa <=> evt.stamped) /\ (evt.stamped => IsContext(slot[NextDesc(bd)]))
    BY <1>0, <2>1 DEF EvtInv
  <2>3. IsContext(slot'[q]) => IsContext(slot[q]) /\ slot'[q] = slot[q] /\ q # bd
    BY <1>0, <2>1 DEF IsContext
  <2>4. IsContext(slot[q]) => HoldsPacket(p) /\ slot[p].tsa /\ slot[p].frame = slot[q].time
    BY <1>1, <2>1
  <2>5. IsContext(slot'[q]) => InPair'
    BY <1>q, <2>1, <2>2, <2>3, <2>4 DEF HoldsPacket
  <2>6. dma.ctx # 0 /\ dma.at = q =>
           HoldsPacket(p) /\ slot[p].tsa /\ slot[p].frame = dma.ctx /\ ~IsContext(slot[q])
    BY <1>1, <2>1
  <2>7. dma.ctx # 0 /\ dma.at = q => p # bd
    BY <2>2, <2>6 DEF q
  <2>8. QED
    BY <2>1, <2>3, <2>5, <2>6, <2>7 DEF HoldsPacket
<1>9. ASSUME RestoreCtx
      PROVE  /\ IsContext(slot'[q]) => InPair'
             /\ dma'.ctx # 0 /\ dma'.at = q =>
                   /\ HoldsPacket(p)' /\ slot'[p].tsa /\ slot'[p].frame = dma'.ctx
                   /\ IsContext(slot'[q]) => (rpc = "restoreCtx" /\ p = bd)'
  <2>1. /\ rpc = "restoreCtx" /\ slot'[NextDesc(bd)].own
        /\ \A j \in Slots : j # NextDesc(bd) => slot'[j] = slot[j]
        /\ dma' = dma /\ ~strayed
    BY <1>9, ContextGivenBack
  <2>2. IsContext(slot[NextDesc(bd)])
    BY <1>0, <2>1 DEF EvtInv
  <2>3. HoldsPacket(p) => slot'[p] = slot[p]
    BY <2>1, <2>2 DEF HoldsPacket, IsContext
  <2>4. IsContext(slot'[q]) => IsContext(slot[q]) /\ slot'[q] = slot[q] /\ p # bd
    BY <1>0, <2>1 DEF IsContext, q
  <2>5. QED
    BY <1>1, <1>q, <2>1, <2>3, <2>4 DEF HoldsPacket
<1>10. QED
  BY <1>2, <1>3, <1>4, <1>5, <1>6, <1>7, <1>8, <1>9, <1>q, StepCases DEF q

LEMMA EvtKept == TypeOK /\ PairInv /\ EvtInv /\ [Next]_vars => EvtInv'
<1> SUFFICES ASSUME TypeOK, PairInv, EvtInv, [Next]_vars, ~strayed'
             PROVE  /\ rpc' \in {"upcall", "restore"} =>
                          /\ HoldsPacket(bd)' /\ slot'[bd'].frame = evt'.frame
                          /\ slot'[bd'].tsa <=> evt'.stamped
                    /\ rpc' \in {"upcall", "restore"} /\ evt'.stamped => evt'.stamp = evt'.frame
                    /\ rpc' = "restore" => evt'.frame \in Gone'
                    /\ rpc' = "restoreCtx" => evt'.stamped
                    /\ rpc' \in {"upcall", "restore", "restoreCtx"} /\ evt'.stamped =>
                          \A p \in Slots : p = bd' => IsContext(slot'[NextDesc(p)])
  BY DEF EvtInv, IsContext, NextDesc
<1>0. bd \in Slots /\ dma.at \in Slots /\ NextDesc(bd) \in Slots
  BY NextIs DEF TypeOK
<1>1. ~strayed =>
        /\ rpc \in {"upcall", "restore"} =>
              HoldsPacket(bd) /\ slot[bd].frame = evt.frame /\ (slot[bd].tsa <=> evt.stamped)
        /\ rpc \in {"upcall", "restore"} /\ evt.stamped => evt.stamp = evt.frame
        /\ rpc = "restore" => evt.frame \in Gone
        /\ rpc = "restoreCtx" => evt.stamped
        /\ rpc \in {"upcall", "restore", "restoreCtx"} /\ evt.stamped => IsContext(slot[NextDesc(bd)])
  BY <1>0 DEF EvtInv
<1>2. CASE Still
  BY <1>1, <1>2 DEF Still, histVars, HoldsPacket, PassedOn, Gone, IsContext
<1>3. CASE (\E stamped \in BOOLEAN : DmaReceive(stamped)) \/ DmaContext
  <2>1. /\ UNCHANGED <<rpc, bd, evt, log, dropped, strayed>> /\ slot[dma.at].own
        /\ \A j \in Slots : j # dma.at => slot'[j] = slot[j]
    BY <1>3, PacketWritten, ContextWritten
  <2>2. Gone' = Gone
    BY <2>1 DEF Gone, PassedOn
  <2>3. HoldsPacket(bd) => slot'[bd] = slot[bd]
    BY <1>0, <2>1 DEF HoldsPacket
  <2>4. IsContext(slot[NextDesc(bd)]) => slot'[NextDesc(bd)] = slot[NextDesc(bd)]
    BY <1>0, <2>1 DEF IsContext
  <2>5. QED
    BY <1>1, <2>1, <2>2, <2>3, <2>4 DEF HoldsPacket
<1>4. CASE Start \/ Walk \/ (Upcall /\ Refused)
  BY <1>4, Moved
<1>5. CASE Look
  <2>1. /\ rpc = "look" /\ ~strayed /\ slot' = slot /\ bd' = bd /\ rpc' \in {"idle", "upcall"}
        /\ rpc' = "upcall" =>
              /\ HoldsPacket(bd) /\ evt'.frame = slot[bd].frame /\ (slot[bd].tsa <=> evt'.stamped)
              /\ evt'.stamped => /\ IsContext(slot[NextDesc(bd)])
                                 /\ evt'.stamp = slot[NextDesc(bd)].time
    BY <1>5, FrameRead
  <2>2. IsContext(slot[NextDesc(bd)]) => slot[bd].frame = slot[NextDesc(bd)].time
    BY <1>0, <2>1 DEF PairInv
  <2>3. QED
    BY <2>1, <2>2 DEF HoldsPacket
<1>6. CASE Upcall /\ (Accepted \/ Dropped)
  <2>1. /\ rpc = "upcall" /\ rpc' = "restore" /\ UNCHANGED <<slot, bd, evt, strayed>>
        /\ evt.frame \in Gone'
    BY <1>6, FrameLogged, FrameDropped DEF Gone
  <2>2. QED
    BY <1>1, <2>1 DEF HoldsPacket
<1>7. CASE Restore
  <2>1. /\ rpc = "restore" /\ ~strayed /\ \A j \in Slots : j # bd => slot'[j] = slot[j]
        /\ evt.stamped => rpc' = "restoreCtx" /\ bd' = bd
        /\ ~evt.stamped => rpc' = "look"
        /\ evt' = evt
    BY <1>7, PacketGivenBack
  <2>2. evt.stamped => IsContext(slot[NextDesc(bd)]) /\ NextDesc(bd) # bd
    BY <1>1, <2>1 DEF HoldsPacket, IsContext
  <2>3. QED
    BY <1>0, <2>1, <2>2
<1>8. CASE RestoreCtx
  BY <1>8, ContextGivenBack
<1>9. QED
  BY <1>2, <1>3, <1>4, <1>5, <1>6, <1>7, <1>8, StepCases

\* Only what has been received is passed on.
LEMMA ReceivedPassedOn == ~strayed /\ StampBelongs => PassedOn \subseteq 1..received
  BY DEF StampBelongs, PassedOn

LEMMA BelongsKept == TypeOK /\ EvtInv /\ RingInv /\ StampBelongs /\ [Next]_vars => StampBelongs'
<1> SUFFICES ASSUME TypeOK, EvtInv, RingInv, StampBelongs, [Next]_vars, ~strayed' PROVE StampBelongs'
  BY DEF StampBelongs
<1>0. received \in Nat /\ bd \in Slots
  BY DEF TypeOK
<1>1. CASE ~(Upcall /\ Accepted)
  <2>1. log' = log /\ ~strayed /\ received' \in Nat /\ received' >= received
    <3>1. CASE Still \/ Start \/ Walk \/ Look \/ (Upcall /\ (Dropped \/ Refused)) \/ Restore
               \/ RestoreCtx
      BY <1>0, <3>1, Moved, FrameDropped, FrameRead, PacketGivenBack, ContextGivenBack DEF Still, histVars
    <3>2. CASE (\E stamped \in BOOLEAN : DmaReceive(stamped)) \/ DmaContext
      BY <1>0, <3>2, PacketWritten, ContextWritten
    <3>3. QED
      BY <1>1, <3>1, <3>2, StepCases
  <2>2. 1..received \subseteq 1..received'
    BY <1>0, <2>1
  <2>3. QED
    BY <2>1, <2>2 DEF StampBelongs
<1>2. CASE Upcall /\ Accepted
  <2>1. /\ rpc = "upcall" /\ UNCHANGED <<received, strayed>>
        /\ Len(log) \in Nat /\ DOMAIN log = 1..Len(log) /\ DOMAIN log' = 1..Len(log) + 1
        /\ log'[Len(log) + 1] = evt /\ \A k \in DOMAIN log : log'[k] = log[k]
    BY <1>2, FrameLogged
  <2>2. HoldsPacket(bd) /\ slot[bd].frame = evt.frame /\ (evt.stamped => evt.stamp = evt.frame)
    BY <2>1 DEF EvtInv
  <2>3. evt.frame \in 1..received /\ evt.frame \notin PassedOn
    BY <1>0, <2>1, <2>2 DEF RingInv, Gone
  <2>4. \A k \in DOMAIN log : log[k].frame # evt.frame
    BY <2>3 DEF PassedOn
  <2>5. \A k \in DOMAIN log' : k \in DOMAIN log \/ k = Len(log) + 1
    BY <2>1
  <2>6. QED
    BY <2>1, <2>2, <2>3, <2>4, <2>5 DEF StampBelongs
<1>3. QED
  BY <1>1, <1>2

LEMMA RingKept == TypeOK /\ EvtInv /\ StampBelongs /\ RingInv /\ [Next]_vars => RingInv'
<1> SUFFICES ASSUME TypeOK, EvtInv, StampBelongs, RingInv, [Next]_vars, ~strayed' PROVE RingInv'
  BY DEF RingInv
<1>0. received \in Nat /\ bd \in Slots /\ dma.at \in Slots /\ NextDesc(bd) \in Slots
  BY NextIs DEF TypeOK
<1>1. ~strayed =>
        /\ \A j \in Slots : HoldsPacket(j) =>
              /\ slot[j].frame \in 1..received
              /\ slot[j].frame \in Gone => rpc = "restore" /\ j = bd
        /\ \A j, k \in Slots :
              HoldsPacket(j) /\ HoldsPacket(k) /\ slot[j].frame = slot[k].frame => j = k
        /\ \A f \in 1..received :
              f \in Gone \/ \E j \in Slots : HoldsPacket(j) /\ slot[j].frame = f
        /\ dropped \subseteq 1..received /\ PassedOn \cap dropped = {}
  BY DEF RingInv
<1>2. CASE Still \/ Start \/ Walk \/ Look \/ (Upcall /\ Refused)
  <2>1. /\ ~strayed /\ UNCHANGED <<slot, received, log, dropped>>
        /\ rpc = "restore" => rpc' = rpc /\ bd' = bd
    BY <1>2, Moved, FrameRead DEF Still, histVars
  <2>2. Gone' = Gone /\ PassedOn' = PassedOn
    BY <2>1 DEF Gone, PassedOn
  <2>3. QED
    BY <1>1, <2>1, <2>2 DEF RingInv, HoldsPacket
<1>3. ASSUME NEW stamped \in BOOLEAN, DmaReceive(stamped) PROVE RingInv'
  <2>1. /\ slot[dma.at].own /\ received' = received + 1
        /\ ~slot'[dma.at].own /\ slot'[dma.at].frame = received + 1
        /\ \A j \in Slots : j # dma.at => slot'[j] = slot[j]
        /\ UNCHANGED <<rpc, bd, log, dropped, strayed>>
    BY <1>3, PacketWritten
  <2>2. PassedOn' = PassedOn /\ Gone' = Gone /\ Gone \subseteq 1..received
    BY <1>1, <2>1, ReceivedPassedOn DEF PassedOn, Gone
  <2>3. received + 1 \notin Gone /\ 1..received' = 1..received \cup {received + 1}
    BY <1>0, <2>1, <2>2
  <2>4. \A j \in Slots : HoldsPacket(j)' <=> HoldsPacket(j) \/ j = dma.at
    BY <1>0, <2>1 DEF HoldsPacket
  <2>5. \A j \in Slots : HoldsPacket(j) =>
           j # dma.at /\ slot'[j].frame = slot[j].frame /\ slot[j].frame # received + 1
    BY <1>0, <1>1, <2>1 DEF HoldsPacket
  <2>6. \A j \in Slots : HoldsPacket(j)' =>
           /\ slot'[j].frame \in 1..received'
           /\ slot'[j].frame \in Gone' => (rpc = "restore" /\ j = bd)'
    BY <1>1, <2>1, <2>2, <2>3, <2>4, <2>5
  <2>7. \A j, k \in Slots :
           HoldsPacket(j)' /\ HoldsPacket(k)' /\ slot'[j].frame = slot'[k].frame => j = k
    BY <1>1, <2>1, <2>4, <2>5
  <2>8. \A f \in 1..received' :
           f \in Gone' \/ \E j \in Slots : HoldsPacket(j)' /\ slot'[j].frame = f
    BY <1>0, <1>1, <2>1, <2>2, <2>3, <2>4, <2>5
  <2>9. dropped' \subseteq 1..received' /\ PassedOn' \cap dropped' = {}
    BY <1>1, <2>1, <2>2, <2>3
  <2>10. QED
    BY <2>6, <2>7, <2>8, <2>9 DEF RingInv
<1>4. CASE DmaContext
  <2>1. /\ slot[dma.at].own /\ received' = received /\ slot'[dma.at].frame = 0
        /\ \A j \in Slots : j # dma.at => slot'[j] = slot[j]
        /\ UNCHANGED <<rpc, bd, log, dropped, strayed>>
    BY <1>4, ContextWritten
  <2>2. PassedOn' = PassedOn /\ Gone' = Gone
    BY <2>1 DEF PassedOn, Gone
  <2>3. \A j \in Slots : (HoldsPacket(j)' <=> HoldsPacket(j)) /\ (HoldsPacket(j) => slot'[j] = slot[j])
    BY <1>0, <2>1 DEF HoldsPacket
  <2>4. QED
    BY <1>1, <2>1, <2>2, <2>3 DEF RingInv
<1>5. CASE Upcall /\ (Accepted \/ Dropped)
  <2>1. /\ rpc = "upcall" /\ rpc' = "restore" /\ UNCHANGED <<slot, bd, received, strayed>>
        /\ \/ PassedOn' = PassedOn \cup {evt.frame} /\ dropped' = dropped
           \/ dropped' = dropped \cup {evt.frame} /\ log' = log
    BY <1>5, FrameLogged, FrameDropped
  <2>2. log' = log => PassedOn' = PassedOn
    BY DEF PassedOn
  <2>3. HoldsPacket(bd) /\ slot[bd].frame = evt.frame
    BY <2>1 DEF EvtInv
  <2>4. \A j \in Slots : HoldsPacket(j)' <=> HoldsPacket(j)
    BY <2>1 DEF HoldsPacket
  <2>5. evt.frame \notin Gone /\ Gone' = Gone \cup {evt.frame} /\ evt.frame \in 1..received
    BY <1>0, <1>1, <2>1, <2>2, <2>3 DEF Gone
  <2>6. dropped' \subseteq 1..received' /\ PassedOn' \cap dropped' = {}
    BY <1>1, <2>1, <2>2, <2>5 DEF Gone
  <2>7. QED
    BY <1>0, <1>1, <2>1, <2>3, <2>4, <2>5, <2>6 DEF RingInv
<1>6. CASE Restore
  <2>1. /\ rpc = "restore" /\ slot'[bd].own /\ \A j \in Slots : j # bd => slot'[j] = slot[j]
        /\ UNCHANGED <<received, log, dropped, strayed>>
    BY <1>6, PacketGivenBack
  <2>2. HoldsPacket(bd) /\ slot[bd].frame \in Gone
    BY <2>1 DEF EvtInv
  <2>3. \A j \in Slots : (HoldsPacket(j)' <=> HoldsPacket(j) /\ j # bd) /\ (j # bd => slot'[j] = slot[j])
    BY <2>1 DEF HoldsPacket
  <2>4. PassedOn' = PassedOn /\ Gone' = Gone
    BY <2>1 DEF PassedOn, Gone
  <2>5. QED
    BY <1>0, <1>1, <2>1, <2>2, <2>3, <2>4 DEF RingInv
<1>7. CASE RestoreCtx
  <2>1. /\ rpc = "restoreCtx" /\ slot'[NextDesc(bd)].own
        /\ \A j \in Slots : j # NextDesc(bd) => slot'[j] = slot[j]
        /\ UNCHANGED <<received, log, dropped, strayed>>
    BY <1>7, ContextGivenBack
  <2>2. IsContext(slot[NextDesc(bd)])
    BY <1>0, <2>1 DEF EvtInv
  <2>3. \A j \in Slots : (HoldsPacket(j)' <=> HoldsPacket(j)) /\ (HoldsPacket(j) => slot'[j] = slot[j])
    BY <1>0, <2>1, <2>2 DEF HoldsPacket, IsContext
  <2>4. PassedOn' = PassedOn /\ Gone' = Gone
    BY <2>1 DEF PassedOn, Gone
  <2>5. QED
    BY <1>1, <2>1, <2>3, <2>4 DEF RingInv
<1>8. QED
  BY <1>2, <1>3, <1>4, <1>5, <1>6, <1>7, StepCases

\* A frame of the ring is in one descriptor: what TLC counts.
LEMMA RingHoldsFrames == RingInv => FrameKept
<1> SUFFICES ASSUME RingInv, ~strayed, NEW f \in 1..received, f \notin Gone
             PROVE  Cardinality({j \in Slots : ~slot[j].own /\ slot[j].frame = f}) = 1
  BY DEF FrameKept, RingInv, Gone
<1>1. PICK j \in Slots : HoldsPacket(j) /\ slot[j].frame = f
  BY DEF RingInv
<1>2. \A k \in Slots : ~slot[k].own /\ slot[k].frame = f => k = j
  BY <1>1 DEF RingInv, HoldsPacket
<1>3. {k \in Slots : ~slot[k].own /\ slot[k].frame = f} = {j}
  BY <1>1, <1>2 DEF HoldsPacket
<1>4. QED
  BY <1>3, FS_Singleton

LEMMA RxInit == Init => TypeOK /\ PairInv /\ EvtInv /\ StampBelongs /\ RingInv
<1> SUFFICES ASSUME Init PROVE TypeOK /\ PairInv /\ EvtInv /\ StampBelongs /\ RingInv
  OBVIOUS
<1>1. /\ \A j \in Slots : slot[j].own
      /\ dma.ctx = 0 /\ received = 0 /\ rpc = "idle" /\ log = <<>> /\ dropped = {} /\ ~strayed
  BY DEF Init, Armed
<1>2. PairInv
  BY <1>1, NextIs DEF PairInv, IsContext
<1>3. EvtInv /\ RingInv /\ StampBelongs
  BY <1>1 DEF EvtInv, RingInv, StampBelongs, HoldsPacket, PassedOn
<1>4. QED
  BY <1>2, <1>3, TypeInit

\* Every frame received is in the ring, passed on or dropped by the stack, and what
\* is passed on is a received frame, once, with its own stamp, as long as no
\* descriptor has been mistaken: for any ring, also a full one, and any interleaving with the DMA.
THEOREM FramesAreRight == Spec => []FramesRight
<1> DEFINE Inv == TypeOK /\ PairInv /\ EvtInv /\ StampBelongs /\ RingInv
<1>1. Init => Inv
  BY RxInit
<1>2. Inv /\ [Next]_vars => Inv'
  BY TypeKept, PairKept, EvtKept, BelongsKept, RingKept, Zenon
<1>3. Inv => FramesRight
  BY RingHoldsFrames DEF FramesRight
<1>4. QED
  BY <1>1, <1>2, <1>3, PTL DEF Spec

(***************************************************************************)
(* Frames are passed on in the order of reception                           *)
(***************************************************************************)

\* How far descriptor j is ahead of the one the DMA is at.
Place(j) == IF j >= dma.at THEN j - dma.at ELSE j - dma.at + N

\* The first descriptor that ETHHW_ProcessRx has not given back.
First == IF rpc = "restoreCtx" THEN NextDesc(bd) ELSE bd

\* Seen from the DMA the armed descriptors come first, then the others in the
\* order of reception; ETHHW_ProcessRx searches among them, or is at the oldest.
OrderInv ==
    ~refused /\ ~strayed => \A j, k \in Slots :
        /\ Place(j) < Place(k) /\ ~slot[j].own => ~slot[k].own
        /\ Place(j) < Place(k) /\ HoldsPacket(j) /\ HoldsPacket(k) =>
              slot[j].frame < slot[k].frame
        /\ rpc = "walk" /\ j = bd => j = dma.at \/ ~slot[j].own
        /\ rpc \notin {"idle", "walk"} /\ j = First =>
              /\ ~slot[k].own => Place(j) <= Place(k)
              /\ slot[j].own => j = dma.at /\ slot[k].own

\* What has been passed on is older than what the ring holds.
LogInv ==
    ~refused /\ ~strayed => \A j \in Slots, k \in DOMAIN log :
        HoldsPacket(j) => log[k].frame < slot[j].frame \/ (rpc = "restore" /\ j = bd)

LEMMA Places ==
    ASSUME TypeOK, NEW j \in Slots
    PROVE  /\ Place(j) \in 0..N - 1 /\ (Place(j) = 0 <=> j = dma.at)
           /\ Place(NextDesc(j)) = (IF Place(j) = N - 1 THEN 0 ELSE Place(j) + 1)
           /\ \A k \in Slots : Place(j) = Place(k) => j = k
<1>1. dma.at \in Slots
  BY DEF TypeOK
<1>2. Place(j) \in 0..N - 1 /\ (Place(j) = 0 <=> j = dma.at)
  BY <1>1, RxAssumption DEF Place, Slots
<1>3. Place(NextDesc(j)) = (IF Place(j) = N - 1 THEN 0 ELSE Place(j) + 1)
  BY <1>1, NextIs, RxAssumption DEF Place, Slots
<1>4. \A k \in Slots : Place(j) = Place(k) => j = k
  BY <1>1, RxAssumption DEF Place, Slots
<1>5. QED
  BY <1>2, <1>3, <1>4

LEMMA PlacesMove ==
    ASSUME TypeOK, NEW j \in Slots
    PROVE  /\ dma'.at = dma.at => Place(j)' = Place(j)
           /\ dma'.at = NextDesc(dma.at) =>
                 Place(j)' = (IF j = dma.at THEN N - 1 ELSE Place(j) - 1)
<1>1. dma.at \in Slots
  BY DEF TypeOK
<1>2. NextDesc(dma.at) = (IF dma.at = N - 1 THEN 0 ELSE dma.at + 1)
  BY <1>1, NextIs
<1>3. QED
  BY <1>1, <1>2, RxAssumption DEF Place, Slots

\* The DMA takes the armed descriptor it is at.
LEMMA OrderAdvanced ==
    ASSUME TypeOK, RingInv, OrderInv, ~refused, ~strayed,
           (\E stamped \in BOOLEAN : DmaReceive(stamped)) \/ DmaContext
    PROVE  OrderInv'
<1> SUFFICES ASSUME NEW j \in Slots, NEW k \in Slots
             PROVE  /\ Place(j)' < Place(k)' /\ ~slot'[j].own => ~slot'[k].own
                    /\ Place(j)' < Place(k)' /\ HoldsPacket(j)' /\ HoldsPacket(k)' =>
                          slot'[j].frame < slot'[k].frame
                    /\ rpc' = "walk" /\ j = bd' => j = dma'.at \/ ~slot'[j].own
                    /\ rpc' \notin {"idle", "walk"} /\ j = First' =>
                          /\ ~slot'[k].own => Place(j)' <= Place(k)'
                          /\ slot'[j].own => j = dma'.at /\ slot'[k].own
  BY DEF OrderInv
<1>0. /\ dma.at \in Slots /\ slot[dma.at].own /\ dma'.at = NextDesc(dma.at)
      /\ ~slot'[dma.at].own /\ slot'[dma.at].frame \in {0, received + 1}
      /\ \A i \in Slots : i # dma.at => slot'[i] = slot[i]
      /\ rpc' = rpc /\ bd' = bd /\ received \in Nat
  BY PacketWritten, ContextWritten DEF TypeOK
<1>1. /\ Place(j) < Place(k) /\ ~slot[j].own => ~slot[k].own
      /\ Place(j) < Place(k) /\ HoldsPacket(j) /\ HoldsPacket(k) => slot[j].frame < slot[k].frame
      /\ rpc = "walk" /\ j = bd => j = dma.at \/ ~slot[j].own
      /\ rpc \notin {"idle", "walk"} /\ j = First =>
            /\ ~slot[k].own => Place(j) <= Place(k)
            /\ slot[j].own => j = dma.at /\ slot[k].own
  BY DEF OrderInv
<1>2. /\ Place(j) \in 0..N - 1 /\ Place(k) \in 0..N - 1
      /\ Place(j)' = (IF j = dma.at THEN N - 1 ELSE Place(j) - 1)
      /\ Place(k)' = (IF k = dma.at THEN N - 1 ELSE Place(k) - 1)
  BY <1>0, Places, PlacesMove
<1>3. First' = First
  BY <1>0 DEF First, NextDesc
<1>4. HoldsPacket(j) => slot[j].frame \in 1..received
  BY DEF RingInv
<1>5. Place(j)' < Place(k)' /\ ~slot'[j].own => ~slot'[k].own
  BY <1>0, <1>1, <1>2, RxAssumption
<1>6. Place(j)' < Place(k)' /\ HoldsPacket(j)' /\ HoldsPacket(k)' =>
         slot'[j].frame < slot'[k].frame
  <2>1. CASE k = dma.at /\ j # dma.at
    BY <1>0, <1>4, <2>1 DEF HoldsPacket
  <2>2. CASE k # dma.at /\ j # dma.at
    BY <1>0, <1>1, <1>2, <2>2 DEF HoldsPacket
  <2>3. CASE j = dma.at
    BY <1>2, <2>3, RxAssumption
  <2>4. QED
    BY <2>1, <2>2, <2>3
<1>7. rpc' = "walk" /\ j = bd' => j = dma'.at \/ ~slot'[j].own
  BY <1>0, <1>1
<1>8. rpc' \notin {"idle", "walk"} /\ j = First' =>
         /\ ~slot'[k].own => Place(j)' <= Place(k)'
         /\ slot'[j].own => j = dma'.at /\ slot'[k].own
  <2> SUFFICES ASSUME rpc \notin {"idle", "walk"}, j = First
               PROVE  /\ ~slot'[k].own => Place(j)' <= Place(k)'
                      /\ slot'[j].own => j = dma'.at /\ slot'[k].own
    BY <1>0, <1>3
  <2>1. slot[j].own <=> j = dma.at
    BY <1>0, <1>1
  <2>2. ~slot'[j].own
    BY <1>0, <2>1
  <2>3. ~slot'[k].own => Place(j)' <= Place(k)'
    BY <1>0, <1>1, <1>2, <2>1, RxAssumption
  <2>4. QED
    BY <2>2, <2>3
<1>9. QED
  BY <1>5, <1>6, <1>7, <1>8

\* The oldest descriptor is given back: the next one is the oldest then.
LEMMA OldestGivenBack ==
    ASSUME TypeOK, OrderInv, ~refused, ~strayed, rpc \notin {"idle", "walk"},
           First \in Slots, ~slot[First].own,
           slot'[First].own, \A i \in Slots : i # First => slot'[i] = slot[i],
           dma' = dma, rpc' \in {"look", "restoreCtx"}, First' = NextDesc(First)
    PROVE  OrderInv'
<1> DEFINE f == First
<1> SUFFICES ASSUME NEW j \in Slots, NEW k \in Slots
             PROVE  /\ Place(j)' < Place(k)' /\ ~slot'[j].own => ~slot'[k].own
                    /\ Place(j)' < Place(k)' /\ HoldsPacket(j)' /\ HoldsPacket(k)' =>
                          slot'[j].frame < slot'[k].frame
                    /\ j = First' =>
                          /\ ~slot'[k].own => Place(j)' <= Place(k)'
                          /\ slot'[j].own => j = dma'.at /\ slot'[k].own
  BY DEF OrderInv
<1>0. f \in Slots /\ ~slot[f].own /\ slot'[f].own /\ \A i \in Slots : i # f => slot'[i] = slot[i]
  OBVIOUS
<1>1. /\ \A i, l \in Slots : Place(i) < Place(l) /\ ~slot[i].own => ~slot[l].own
      /\ Place(j) < Place(k) /\ HoldsPacket(j) /\ HoldsPacket(k) => slot[j].frame < slot[k].frame
      /\ \A i \in Slots : ~slot[i].own => Place(f) <= Place(i)
  BY <1>0 DEF OrderInv
<1>2. /\ Place(j)' = Place(j) /\ Place(k)' = Place(k)
      /\ Place(j) \in 0..N - 1 /\ Place(k) \in 0..N - 1 /\ Place(f) \in 0..N - 1
      /\ Place(k) = Place(f) => k = f
      /\ Place(j) = 0 <=> j = dma.at
      /\ Place(NextDesc(f)) = (IF Place(f) = N - 1 THEN 0 ELSE Place(f) + 1)
  BY <1>0, Places, PlacesMove
<1> HIDE DEF f
<1>3. Place(j) < Place(k) /\ ~slot'[j].own => ~slot'[k].own
  BY <1>0, <1>1, <1>2
<1>4. Place(j) < Place(k) /\ HoldsPacket(j)' /\ HoldsPacket(k)' => slot'[j].frame < slot'[k].frame
  BY <1>0, <1>1 DEF HoldsPacket
<1>5. ASSUME j = NextDesc(f)
      PROVE  /\ ~slot'[k].own => Place(j) <= Place(k)
             /\ slot'[j].own => j = dma.at /\ slot'[k].own
  <2>1. ~slot'[k].own => Place(f) < Place(k)
    BY <1>0, <1>1, <1>2
  <2>2. ~slot'[k].own => Place(j) <= Place(k)
    BY <1>2, <1>5, <2>1
  <2>3. slot'[j].own => Place(f) = N - 1
    BY <1>0, <1>1, <1>2, <1>5, RxAssumption
  <2>4. QED
    BY <1>2, <1>5, <2>1, <2>2, <2>3, RxAssumption
<1>6. QED
  BY <1>2, <1>3, <1>4, <1>5 DEF f

LEMMA OrderKept == TypeOK /\ EvtInv /\ RingInv /\ OrderInv /\ [Next]_vars => OrderInv'
<1> SUFFICES ASSUME TypeOK, EvtInv, RingInv, OrderInv, [Next]_vars, ~refused', ~strayed'
             PROVE  OrderInv'
  BY DEF OrderInv
<1>0. bd \in Slots /\ dma.at \in Slots /\ NextDesc(bd) \in Slots /\ PrevDesc(bd) \in Slots
  BY NextIs, PrevIs DEF TypeOK
<1>k. ASSUME UNCHANGED <<slot, dma>>, ~refused, ~strayed,
             \A j, k \in Slots :
                /\ rpc' = "walk" /\ j = bd' => j = dma.at \/ ~slot[j].own
                /\ rpc' \notin {"idle", "walk"} /\ j = First' =>
                      /\ ~slot[k].own => Place(j) <= Place(k)
                      /\ slot[j].own => j = dma.at /\ slot[k].own
      PROVE  OrderInv'
  <2>1. \A j \in Slots : Place(j)' = Place(j) /\ (HoldsPacket(j)' <=> HoldsPacket(j))
    BY <1>k DEF Place, HoldsPacket
  <2>2. \A j, k \in Slots :
           /\ Place(j) < Place(k) /\ ~slot[j].own => ~slot[k].own
           /\ Place(j) < Place(k) /\ HoldsPacket(j) /\ HoldsPacket(k) => slot[j].frame < slot[k].frame
    BY <1>k DEF OrderInv
  <2>3. QED
    BY <1>k, <2>1, <2>2 DEF OrderInv
<1>1. CASE Still
  <2>1. UNCHANGED <<slot, dma, rpc, bd, refused, strayed>>
    BY <1>1 DEF Still, histVars
  <2>2. First' = First
    BY <2>1 DEF First, NextDesc
  <2>3. QED
    BY <1>k, <2>1, <2>2 DEF OrderInv
<1>2. CASE (\E stamped \in BOOLEAN : DmaReceive(stamped)) \/ DmaContext
  <2>1. ~refused /\ ~strayed
    BY <1>2, PacketWritten, ContextWritten
  <2>2. QED
    BY <1>2, <2>1, OrderAdvanced
<1>3. CASE Start
  <2>1. /\ UNCHANGED <<slot, dma, refused, strayed>> /\ rpc' = "walk" /\ bd' = dma.at
    BY <1>3 DEF Start, ReadStep, histVars
  <2>2. QED
    BY <1>k, <2>1
<1>4. CASE Walk
  <2>1. /\ rpc = "walk" /\ UNCHANGED <<slot, dma, refused, strayed>>
        /\ \/ ~slot[PrevDesc(bd)].own /\ bd' = PrevDesc(bd) /\ rpc' = "walk"
           \/ slot[PrevDesc(bd)].own /\ bd' = bd /\ rpc' = "look"
    BY <1>4 DEF Walk, ReadStep, histVars
  <2>2. CASE ~slot[PrevDesc(bd)].own /\ bd' = PrevDesc(bd) /\ rpc' = "walk"
    BY <1>k, <2>1, <2>2
  <2>3. CASE slot[PrevDesc(bd)].own /\ bd' = bd /\ rpc' = "look"
    <3> DEFINE p == PrevDesc(bd)
    <3>1. First' = bd
      BY <2>3 DEF First
    <3> SUFFICES ASSUME NEW k \in Slots
                 PROVE  /\ ~slot[k].own => Place(bd) <= Place(k)
                        /\ slot[bd].own => bd = dma.at /\ slot[k].own
      BY <1>k, <2>1, <2>3, <3>1
    <3>2. p \in Slots /\ NextDesc(p) = bd /\ slot[p].own
      BY <1>0, <2>3, PrevOfNext
    <3>3. /\ Place(k) < Place(p) /\ ~slot[k].own => ~slot[p].own
          /\ bd = dma.at \/ ~slot[bd].own
      BY <1>0, <2>1, <3>2 DEF OrderInv
    <3>4. /\ Place(p) \in 0..N - 1 /\ Place(k) \in 0..N - 1 /\ (Place(p) = Place(k) => p = k)
          /\ Place(bd) = (IF Place(p) = N - 1 THEN 0 ELSE Place(p) + 1)
      BY <3>2, Places
    <3>5. Place(bd) = 0 <=> bd = dma.at
      BY <1>0, Places
    <3> HIDE DEF p
    <3>6. ~slot[k].own => Place(p) < Place(k)
      BY <3>2, <3>3, <3>4
    <3>7. QED
      BY <3>3, <3>4, <3>5, <3>6, RxAssumption
  <2>4. QED
    BY <2>1, <2>2, <2>3
<1>5. CASE Look \/ (Upcall /\ (Accepted \/ Dropped))
  <2>1. /\ rpc \in {"look", "upcall"} /\ rpc' \in {"idle", "upcall", "restore"}
        /\ UNCHANGED <<slot, dma, bd>> /\ ~refused /\ ~strayed
    BY <1>5, FrameRead, FrameLogged, FrameDropped
  <2>2. First' = bd /\ First = bd
    BY <2>1 DEF First
  <2>3. \A k \in Slots : /\ ~slot[k].own => Place(bd) <= Place(k)
                         /\ slot[bd].own => bd = dma.at /\ slot[k].own
    BY <1>0, <2>1, <2>2 DEF OrderInv
  <2>4. QED
    BY <1>k, <2>1, <2>2, <2>3
<1>6. CASE Upcall /\ Refused
  BY <1>6 DEF Refused
<1>7. CASE Restore
  <2>1. /\ rpc = "restore" /\ slot'[bd].own /\ \A j \in Slots : j # bd => slot'[j] = slot[j]
        /\ evt.stamped => rpc' = "restoreCtx" /\ bd' = bd
        /\ ~evt.stamped => rpc' = "look" /\ bd' = NextDesc(bd)
        /\ dma' = dma /\ ~refused /\ ~strayed
    BY <1>7, PacketGivenBack
  <2>2. ~slot[bd].own /\ First = bd
    BY <2>1 DEF EvtInv, HoldsPacket, First
  <2>3. First' = NextDesc(bd) /\ rpc' \in {"look", "restoreCtx"}
    <3>1. CASE evt.stamped
      BY <2>1, <3>1 DEF First, NextDesc
    <3>2. CASE ~evt.stamped
      BY <2>1, <3>2 DEF First
    <3>3. QED
      BY <2>1, <3>1, <3>2
  <2>4. QED
    BY <1>0, <2>1, <2>2, <2>3, OldestGivenBack
<1>8. CASE RestoreCtx
  <2>1. /\ rpc = "restoreCtx" /\ slot'[NextDesc(bd)].own
        /\ \A j \in Slots : j # NextDesc(bd) => slot'[j] = slot[j]
        /\ rpc' = "look" /\ bd' = (IF evt.stamped THEN NextDesc(NextDesc(bd)) ELSE NextDesc(bd))
        /\ dma' = dma /\ ~refused /\ ~strayed
    BY <1>8, ContextGivenBack
  <2>2. ~slot[NextDesc(bd)].own /\ First = NextDesc(bd) /\ evt.stamped
    BY <1>0, <2>1 DEF EvtInv, IsContext, First
  <2>3. First' = NextDesc(NextDesc(bd))
    BY <2>1, <2>2 DEF First
  <2>4. QED
    BY <1>0, <2>1, <2>2, <2>3, OldestGivenBack
<1>9. QED
  BY <1>1, <1>2, <1>3, <1>4, <1>5, <1>6, <1>7, <1>8, StepCases

LEMMA LogKept ==
    TypeOK /\ EvtInv /\ StampBelongs /\ RingInv /\ OrderInv /\ LogInv /\ InOrder /\ [Next]_vars =>
        LogInv' /\ InOrder'
<1> SUFFICES ASSUME TypeOK, EvtInv, StampBelongs, RingInv, OrderInv, LogInv, InOrder, [Next]_vars,
                    ~refused', ~strayed'
             PROVE  LogInv' /\ InOrder'
  BY DEF LogInv, InOrder
<1>0. bd \in Slots /\ dma.at \in Slots /\ received \in Nat /\ NextDesc(bd) \in Slots
  BY NextIs DEF TypeOK
<1>1. CASE Still \/ Start \/ Walk \/ Look
  <2>1. UNCHANGED <<slot, log, refused>> /\ ~strayed /\ (rpc = "restore" => rpc' = rpc /\ bd' = bd)
    BY <1>1, Moved, FrameRead DEF Still, histVars
  <2>2. QED
    BY <2>1 DEF LogInv, InOrder, HoldsPacket
<1>2. CASE (\E stamped \in BOOLEAN : DmaReceive(stamped)) \/ DmaContext
  <2>1. /\ ~slot'[dma.at].own /\ slot'[dma.at].frame \in {0, received + 1}
        /\ \A j \in Slots : j # dma.at => slot'[j] = slot[j]
        /\ UNCHANGED <<rpc, bd, log>> /\ ~refused /\ ~strayed
    BY <1>2, PacketWritten, ContextWritten
  <2>2. \A k \in DOMAIN log : log[k].frame \in 1..received
    BY <2>1 DEF StampBelongs
  <2>3. ASSUME NEW j \in Slots, NEW k \in DOMAIN log, HoldsPacket(j)'
        PROVE  log[k].frame < slot'[j].frame \/ (rpc = "restore" /\ j = bd)
    <3>1. CASE j = dma.at
      BY <1>0, <2>1, <2>2, <2>3, <3>1 DEF HoldsPacket
    <3>2. CASE j # dma.at
      BY <2>1, <2>3, <3>2 DEF HoldsPacket, LogInv
    <3>3. QED
      BY <3>1, <3>2
  <2>4. QED
    BY <2>1, <2>3 DEF LogInv, InOrder
<1>3. CASE Upcall /\ Accepted
  <2>1. /\ rpc = "upcall" /\ rpc' = "restore" /\ UNCHANGED <<slot, bd>> /\ ~refused /\ ~strayed
        /\ Len(log) \in Nat /\ DOMAIN log = 1..Len(log) /\ DOMAIN log' = 1..Len(log) + 1
        /\ log'[Len(log) + 1] = evt /\ \A k \in DOMAIN log : log'[k] = log[k]
    BY <1>3, FrameLogged
  <2>2. HoldsPacket(bd) /\ slot[bd].frame = evt.frame /\ First = bd
    BY <2>1 DEF EvtInv, First
  <2>3. \A k \in DOMAIN log : log[k].frame < evt.frame
    BY <1>0, <2>1, <2>2 DEF LogInv
  <2>4. \A j \in Slots : HoldsPacket(j) /\ j # bd => evt.frame < slot[j].frame
    <3> SUFFICES ASSUME NEW j \in Slots, HoldsPacket(j), j # bd PROVE slot[bd].frame < slot[j].frame
      BY <2>2
    <3>1. Place(bd) <= Place(j)
      BY <1>0, <2>1, <2>2 DEF OrderInv, HoldsPacket
    <3>2. Place(bd) \in 0..N - 1 /\ Place(j) \in 0..N - 1 /\ Place(bd) # Place(j)
      BY <1>0, Places
    <3>3. Place(bd) < Place(j)
      BY <3>1, <3>2, RxAssumption
    <3>4. QED
      BY <1>0, <2>1, <2>2, <3>3 DEF OrderInv
  <2>5. \A k \in DOMAIN log' : k \in DOMAIN log \/ k = Len(log) + 1
    BY <2>1
  <2>6. \A j \in Slots : HoldsPacket(j)' <=> HoldsPacket(j)
    BY <2>1 DEF HoldsPacket
  <2>7. LogInv'
    BY <2>1, <2>4, <2>5, <2>6 DEF LogInv
  <2>8. InOrder'
    <3>1. \A k, l \in DOMAIN log : k < l => log[k].frame < log[l].frame
      BY <2>1 DEF InOrder
    <3>2. QED
      BY <2>1, <2>3, <2>5, <3>1 DEF InOrder
  <2>9. QED
    BY <2>7, <2>8
<1>4. CASE Upcall /\ (Dropped \/ Refused)
  BY <1>4, FrameDropped DEF Refused, LogInv, InOrder, HoldsPacket
<1>5. CASE Restore
  <2>1. /\ slot'[bd].own /\ \A j \in Slots : j # bd => slot'[j] = slot[j]
        /\ log' = log /\ ~refused /\ ~strayed
    BY <1>5, PacketGivenBack
  <2>2. \A j \in Slots : HoldsPacket(j)' => HoldsPacket(j) /\ j # bd /\ slot'[j] = slot[j]
    BY <2>1 DEF HoldsPacket
  <2>3. QED
    BY <2>1, <2>2 DEF LogInv, InOrder
<1>6. CASE RestoreCtx
  <2>1. /\ rpc = "restoreCtx" /\ slot'[NextDesc(bd)].own
        /\ \A j \in Slots : j # NextDesc(bd) => slot'[j] = slot[j]
        /\ log' = log /\ ~refused /\ ~strayed
    BY <1>6, ContextGivenBack
  <2>2. \A j \in Slots : HoldsPacket(j)' => HoldsPacket(j) /\ slot'[j] = slot[j]
    BY <2>1 DEF HoldsPacket
  <2>3. QED
    BY <2>1, <2>2 DEF LogInv, InOrder
<1>7. QED
  BY <1>1, <1>2, <1>3, <1>4, <1>5, <1>6, StepCases

\* As long as none is refused and no descriptor mistaken, frames are passed on in
\* the order of reception: for any ring, also one that fills while it is read.
THEOREM FramesInOrder == Spec => []InOrder
<1> DEFINE Inv == /\ TypeOK /\ PairInv /\ EvtInv /\ StampBelongs /\ RingInv
                  /\ OrderInv /\ LogInv /\ InOrder
<1>1. Init => Inv
  <2>1. Init => OrderInv /\ LogInv /\ InOrder
    BY DEF Init, Armed, OrderInv, LogInv, InOrder, HoldsPacket
  <2>2. QED
    BY <2>1, RxInit
<1>2. Inv /\ [Next]_vars => Inv'
  BY TypeKept, PairKept, EvtKept, BelongsKept, RingKept, OrderKept, LogKept, Zenon
<1>3. Inv => InOrder
  OBVIOUS
<1>4. QED
  BY <1>1, <1>2, <1>3, PTL DEF Spec
=============================================================================
