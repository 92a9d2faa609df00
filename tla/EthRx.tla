-------------------------------- MODULE EthRx --------------------------------
(***************************************************************************)
(* The receiving half of the Ethernet MAC driver (EthDrv/mac_drv.c) under   *)
(* both stacks: the DMA fills the descriptor ring and raises an interrupt;  *)
(* ETHHW_ISR makes the upcall; ETHHW_ProcessRx, in the handler itself       *)
(* (eth_drv_lwip.c) or in a thread (eth_drv_etherlib.c), finds the frames,  *)
(* passes them on and gives the descriptors back.                           *)
(***************************************************************************)
EXTENDS Integers, Sequences, FiniteSets

CONSTANTS N,            \* rxRingLen
          Stacks,       \* the stacks looked at: lwIP, EtherLib
          Spare,        \* bound on the load: one descriptor at least stays armed
          MaxFrames,    \* bound: frames received
          MaxTx         \* bound: transmit interrupts raised by the DMA

ASSUME RxAssumption == /\ N \in Nat \ {0} /\ MaxFrames \in Nat /\ MaxTx \in Nat
                       /\ Stacks \subseteq {"lwIP", "EtherLib"} /\ Spare \in BOOLEAN

Slots == 0..N - 1
Frames == 1..MaxFrames

VARIABLES
    stack,      \* lwIP: the upcall processes the ring; EtherLib: it wakes a thread
    slot,       \* the descriptors
    dma,        \* the descriptor the DMA is at, its frame if the context is to come
    received,   \* frames the DMA has written
    dmacsr, tx, \* register DMACSR; transmit interrupts raised so far
    ipc, csr,   \* ETHHW_ISR
    notified,   \* the thread has been notified
    rpc, bd, evt,                   \* ETHHW_ProcessRx
    log,        \* history: frames passed on, with their time stamps
    dropped,    \* history: frames the stack has taken and thrown away
    refused,    \* history: a frame has been refused
    strayed     \* history: a descriptor has been taken for what it is not

isrVars == <<ipc, csr, notified>>
histVars == <<log, dropped, refused, strayed>>
readVars == <<rpc, bd, evt, histVars>>
vars == <<stack, slot, dma, received, dmacsr, tx, isrVars, readVars>>

\* A descriptor armed (own), or with frame (0: a context descriptor), TSA and
\* in a context descriptor the time stamp: that of frame k is k.
Slot == [own : BOOLEAN, frame : 0..MaxFrames, tsa : BOOLEAN, time : 0..MaxFrames]
Armed == [own |-> TRUE, frame |-> 0, tsa |-> FALSE, time |-> 0]
Packet(f, stamped) == [own |-> FALSE, frame |-> f, tsa |-> stamped, time |-> 0]
Context(f) == [own |-> FALSE, frame |-> 0, tsa |-> FALSE, time |-> f]
IsContext(d) == ~d.own /\ d.frame = 0

\* Fault: the ring does not wrap around.
NextNoWrap(j) == j + 1

\* ETHHW_AdvanceDesc by 1 ...
NextDesc(j) == (j + 1) % N

\* ... and by -1.
PrevDesc(j) == (j - 1) % N

NoEvent == [frame |-> 0, stamped |-> FALSE, stamp |-> 0]

Init ==
    /\ stack \in Stacks
    /\ slot = [j \in Slots |-> Armed]
    /\ dma = [at |-> 0, ctx |-> 0] /\ received = 0
    /\ dmacsr = {} /\ tx = 0
    /\ ipc = "idle" /\ csr = {} /\ notified = FALSE
    /\ rpc = "idle" /\ bd = 0 /\ evt = NoEvent
    /\ log = <<>> /\ dropped = {} /\ refused = FALSE /\ strayed = FALSE

-----------------------------------------------------------------------------
(* The DMA. It waits at a descriptor it does not own.                        *)

Taken == Cardinality({j \in Slots : ~slot[j].own})

\* A packet is written; if it is stamped, its context descriptor follows.
DmaReceive(stamped) ==
    /\ received < MaxFrames /\ dma.ctx = 0 /\ slot[dma.at].own
    /\ Spare => Taken + (IF stamped THEN 2 ELSE 1) < N
    /\ received' = received + 1
    /\ slot' = [slot EXCEPT ![dma.at] = Packet(received', stamped)]
    /\ dma' = [at |-> NextDesc(dma.at), ctx |-> IF stamped THEN received' ELSE 0]
    /\ dmacsr' = IF stamped THEN dmacsr ELSE dmacsr \cup {"RI"}
    /\ UNCHANGED <<stack, tx, isrVars, readVars>>

DmaContext ==
    /\ dma.ctx # 0 /\ slot[dma.at].own
    /\ slot' = [slot EXCEPT ![dma.at] = Context(dma.ctx)]
    /\ dma' = [at |-> NextDesc(dma.at), ctx |-> 0]
    /\ dmacsr' = dmacsr \cup {"RI"}
    /\ UNCHANGED <<stack, received, tx, isrVars, readVars>>

\* The other half has sent a frame with time stamp.
DmaSent ==
    /\ tx < MaxTx /\ tx' = tx + 1
    /\ dmacsr' = dmacsr \cup {"TI"}
    /\ UNCHANGED <<stack, slot, dma, received, isrVars, readVars>>

-----------------------------------------------------------------------------
(* ETHHW_ISR. Each SET_BIT on DMACSR writes back, and so clears, every bit.  *)

IsrEnter ==
    /\ ipc = "idle" /\ dmacsr # {}
    /\ ipc' = "clear" /\ csr' = dmacsr
    /\ UNCHANGED <<stack, slot, dma, received, dmacsr, tx, notified, readVars>>

IsrClear ==
    /\ ipc = "clear" /\ dmacsr' = {}
    /\ ipc' = IF "RI" \in csr THEN "notify" ELSE "exit"
    /\ UNCHANGED <<stack, slot, dma, received, tx, csr, notified, readVars>>

\* NIS is cleared and the upcall made.
IsrNotify ==
    /\ ipc = "notify" /\ dmacsr' = {}
    /\ notified' = TRUE
    /\ ipc' = IF stack = "lwIP" THEN "process" ELSE "exit"
    /\ UNCHANGED <<stack, slot, dma, received, tx, csr, readVars>>

IsrExit ==
    /\ ipc = "exit" \/ (ipc = "process" /\ ~notified /\ rpc = "idle")
    /\ ipc' = "idle" /\ csr' = {} /\ dmacsr' = {}
    /\ UNCHANGED <<stack, slot, dma, received, tx, notified, readVars>>

-----------------------------------------------------------------------------
(* ETHHW_ProcessRx, called by the handler or by the thread.                  *)

ReadStep(from) ==
    /\ rpc = from /\ ipc = (IF stack = "lwIP" THEN "process" ELSE "idle")
    /\ UNCHANGED <<stack, dma, received, dmacsr, tx, ipc, csr>>

\* The search begins at the descriptor the DMA is at.
Start ==
    /\ ReadStep("idle") /\ notified /\ notified' = FALSE
    /\ bd' = dma.at /\ rpc' = "walk"
    /\ UNCHANGED <<slot, evt, histVars>>

\* Fault: the search goes back over one descriptor only.
WalkOnce ==
    /\ ReadStep("walk")
    /\ bd' = IF ~slot[PrevDesc(bd)].own THEN PrevDesc(bd) ELSE bd
    /\ rpc' = "look"
    /\ UNCHANGED <<slot, notified, evt, histVars>>

\* It goes back as long as descriptors belong to the application.
Walk ==
    /\ ReadStep("walk")
    /\ IF ~slot[PrevDesc(bd)].own THEN bd' = PrevDesc(bd) /\ rpc' = rpc
                                  ELSE rpc' = "look" /\ bd' = bd
    /\ UNCHANGED <<slot, notified, evt, histVars>>

\* Fault: the time stamp is taken from the packet's own descriptor.
StampOfPacket(j) == slot[j].time

\* The time stamp of the packet in descriptor j is in the next one.
StampOf(j) == slot[NextDesc(j)].time

\* In a context descriptor, taken for a packet's, TSA is a bit of the seconds.
SeenTsa(d) == IF d.frame = 0 THEN BOOLEAN ELSE {d.tsa}

Look ==
    /\ ReadStep("look")
    /\ IF slot[bd].own
       THEN rpc' = "idle" /\ evt' = NoEvent /\ UNCHANGED strayed
       ELSE /\ rpc' = "upcall"
            /\ \E tsa \in SeenTsa(slot[bd]) :
                  evt' = [frame |-> slot[bd].frame, stamped |-> tsa,
                          stamp |-> IF tsa THEN StampOf(bd) ELSE 0]
            /\ strayed' = (\/ strayed \/ IsContext(slot[bd])
                           \/ (evt'.stamped /\ ~IsContext(slot[NextDesc(bd)])))
    /\ UNCHANGED <<slot, bd, notified, log, dropped, refused>>

Follower == IF evt.stamped THEN NextDesc(NextDesc(bd)) ELSE NextDesc(bd)

Accepted ==
    /\ rpc' = "restore"
    /\ log' = Append(log, evt)
    /\ UNCHANGED <<bd, dropped, refused>>

\* lwIP: the input function returns an error, the copy of the frame is freed and
\* the frame reported as processed nevertheless.
Dropped ==
    /\ stack = "lwIP" /\ rpc' = "restore"
    /\ dropped' = dropped \cup {evt.frame}
    /\ UNCHANGED <<bd, log, refused>>

\* No memory: the descriptors are left as they are.
Refused ==
    /\ rpc' = "look" /\ bd' = Follower /\ refused' = TRUE
    /\ UNCHANGED <<log, dropped>>

Upcall ==
    /\ ReadStep("upcall")
    /\ Accepted \/ Dropped \/ Refused
    /\ UNCHANGED <<slot, notified, evt, strayed>>

\* Fault: ctx_bd is the next descriptor from the beginning.
RestoreNext ==
    /\ ReadStep("restore")
    /\ slot' = [slot EXCEPT ![bd] = Armed, ![NextDesc(bd)] = Armed]
    /\ rpc' = "look" /\ bd' = Follower
    /\ UNCHANGED <<notified, evt, histVars>>

\* Fault: one frame per call.
RestoreReturns ==
    /\ ReadStep("restore")
    /\ slot' = [slot EXCEPT ![bd] = Armed]
    /\ IF evt.stamped THEN rpc' = "restoreCtx" /\ bd' = bd
                      ELSE rpc' = "idle" /\ bd' = Follower
    /\ UNCHANGED <<notified, evt, histVars>>

\* ETHHW_RestoreRXDesc(bd). Without time stamp ctx_bd is NULL and the second
\* call writes to address 0, nothing of this driver.
Restore ==
    /\ ReadStep("restore")
    /\ slot' = [slot EXCEPT ![bd] = Armed]
    /\ IF evt.stamped THEN rpc' = "restoreCtx" /\ bd' = bd
                      ELSE rpc' = "look" /\ bd' = Follower
    /\ UNCHANGED <<notified, evt, histVars>>

RestoreCtx ==
    /\ ReadStep("restoreCtx")
    /\ slot' = [slot EXCEPT ![NextDesc(bd)] = Armed]
    /\ rpc' = "look" /\ bd' = Follower
    /\ UNCHANGED <<notified, evt, histVars>>

-----------------------------------------------------------------------------
(* Specification *)

IsrStep == IsrEnter \/ IsrClear \/ IsrNotify \/ IsrExit
ProcessRx == Start \/ Walk \/ Look \/ Upcall \/ Restore \/ RestoreCtx

Next == \/ \E stamped \in BOOLEAN : DmaReceive(stamped)
        \/ DmaContext
        \/ DmaSent
        \/ IsrStep
        \/ ProcessRx

Spec == Init /\ [][Next]_vars

\* Interrupts are taken, the thread is scheduled, the DMA ends what it began.
FairSpec == Spec /\ WF_vars(IsrStep) /\ WF_vars(ProcessRx) /\ WF_vars(DmaContext)

-----------------------------------------------------------------------------
(* Properties *)

Event == [frame : 0..MaxFrames, stamped : BOOLEAN, stamp : 0..MaxFrames]

\* Every variable has its type.
TypeOK ==
    /\ stack \in Stacks /\ slot \in [Slots -> Slot]
    /\ dma \in [at : Slots, ctx : 0..MaxFrames] /\ received \in 0..MaxFrames
    /\ dmacsr \subseteq {"RI", "TI"} /\ csr \subseteq {"RI", "TI"} /\ tx \in 0..MaxTx
    /\ ipc \in {"idle", "clear", "notify", "process", "exit"} /\ notified \in BOOLEAN
    /\ rpc \in {"idle", "walk", "look", "upcall", "restore", "restoreCtx"}
    /\ bd \in Slots /\ evt \in Event /\ log \in Seq(Event)
    /\ dropped \subseteq 0..MaxFrames /\ refused \in BOOLEAN /\ strayed \in BOOLEAN

PassedOn == {log[k].frame : k \in DOMAIN log}

\* Frames are passed on once each and in the order of reception, as long as
\* none has been refused and no descriptor mistaken.
InOrder ==
    ~refused /\ ~strayed =>
        \A k, l \in DOMAIN log : k < l => log[k].frame < log[l].frame

\* What is passed on is a received frame, once, refused before or not, and its
\* time stamp is its own.
StampBelongs ==
    ~strayed =>
        \A k \in DOMAIN log :
            /\ log[k].frame \in 1..received
            /\ log[k].stamped => log[k].stamp = log[k].frame
            /\ \A l \in DOMAIN log : log[l].frame = log[k].frame => l = k

\* A frame stays in the ring, in one descriptor, until it has been passed on, or
\* dropped by the stack.
FrameKept ==
    ~strayed =>
        \A f \in 1..received :
            \/ f \in PassedOn /\ f \notin dropped
            \/ f \in dropped /\ f \notin PassedOn
            \/ Cardinality({j \in Slots : ~slot[j].own /\ slot[j].frame = f}) = 1

\* Reception as a whole: every frame is in the ring, passed on or dropped by the
\* stack, never twice and with no other frame's time stamp.
FramesRight == StampBelongs /\ FrameKept

\* With the thread of the EtherLib driver, and no interrupt of the transmitter,
\* every frame is passed on without another one having to come.
AllRead ==
    \A f \in Frames :
        received >= f /\ stack = "EtherLib" ~> f \in PassedOn \/ refused \/ strayed \/ tx > 0

-----------------------------------------------------------------------------
(* What the source says of itself and does not hold. *)

\* mac_drv.c:345: the search is to "get the first unprocessed descriptor" ...
SearchEnds == rpc = "walk" ~> rpc # "walk"

\* ... which is the "(oldest one)": that of the frame received first.
OldestFound ==
    [][rpc = "walk" /\ rpc' = "look" /\ ~strayed =>
          \A j \in Slots : ~slot[j].own /\ slot[j].frame # 0 =>
              slot[bd].frame \in 1..slot[j].frame]_vars

\* mac_drv.c:362: the descriptor a stamp is taken from is the "context descriptor
\* holding the timestamp", so that the stamp is the frame's.
StampsOwn == \A k \in DOMAIN log : log[k].stamped => log[k].stamp = log[k].frame
=============================================================================
