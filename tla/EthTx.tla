-------------------------------- MODULE EthTx --------------------------------
(***************************************************************************)
(* The transmitting half of the Ethernet MAC driver (EthDrv/mac_drv.c): a   *)
(* task calls ETHHW_Transmit, which fills the next descriptor of the ring   *)
(* and hands it to the DMA; the DMA sends it, writes the time stamp back    *)
(* and raises an interrupt; ETHHW_ISR and ETHHW_ProcessTx call the          *)
(* callbacks. The task is preempted by the handler, the DMA runs beside.    *)
(***************************************************************************)
EXTENDS Integers, Sequences, FiniteSets

CONSTANTS N,            \* txRingLen
          CounterMod,   \* 2^16, scaled down: txCntSent and txCntAcked are uint16_t
          Parts,        \* stores in which memset clears a stamp: its two words
          MaxFrames,    \* bound: calls of ETHHW_Transmit
          MaxRx         \* bound: receive interrupts raised by the DMA

ASSUME TxAssumption == /\ N \in Nat \ {0} /\ CounterMod \in Nat \ {0}
                       /\ Parts \in Nat \ {0}
                       /\ MaxFrames \in Nat /\ MaxRx \in Nat

Slots == 0..N - 1
Frames == 1..MaxFrames

VARIABLES
    slot,       \* the descriptors with their extensions
    nextIdx, sent, acked,           \* ETHHW_State
    tpc, n, requested,              \* the task; its calls; frames to be stamped
    ipc, csr, i, first, minIdx, minDelta, found,    \* ETHHW_ISR, ETHHW_ProcessTx
    dmacsr,     \* register DMACSR: the pending interrupts
    dma,        \* the DMA: its descriptor, what it does, the frame, those closed
    rx,         \* receive interrupts raised so far
    calls,      \* history: callbacks invoked, with argument and time stamp
    wiped       \* history: frames whose unread stamp a later frame erased

stateVars == <<nextIdx, sent, acked>>
taskVars == <<tpc, n, requested, wiped>>
isrVars == <<ipc, csr, i, first, minIdx, minDelta, found, calls>>
vars == <<slot, stateVars, taskVars, isrVars, dmacsr, dma, rx>>

\* A descriptor: its flags OWN and TTSS, the time stamp (that of frame k is k,
\* 0 is none) and how many parts of it are cleared, TTSE with IOC, and the
\* buffer's frame; its extension: txCntr and callback with argument (those of
\* frame k are k, 0 is none).
Slot == [own : BOOLEAN, ttss : BOOLEAN, time : 0..MaxFrames, cut : 0..Parts, ttse : BOOLEAN,
         buf : 0..MaxFrames, cntr : 0..CounterMod - 1, cb : 0..MaxFrames]

Init ==
    /\ slot = [j \in Slots |-> [own |-> FALSE, ttss |-> FALSE, time |-> 0, cut |-> Parts,
                                ttse |-> FALSE, buf |-> 0, cntr |-> 0, cb |-> 0]]
    /\ nextIdx = 0 /\ sent = 0 /\ acked = 0
    /\ tpc = "idle" /\ n = 0 /\ requested = {} /\ wiped = {}
    /\ ipc = "idle" /\ csr = {} /\ i = 0 /\ first = TRUE
    /\ minIdx = 0 /\ minDelta = 0 /\ found = 0
    /\ calls = <<>>
    /\ dmacsr = {} /\ rx = 0
    /\ dma = [at |-> 0, pc |-> "stopped", frame |-> 0, closed |-> 0]

-----------------------------------------------------------------------------
(* The task: ETHHW_Transmit. It runs when no interrupt is served. *)

TaskStep(from, to) == ipc = "idle" /\ tpc = from /\ tpc' = to

Transmit(stamped) ==
    /\ TaskStep("idle", "wait") /\ n < MaxFrames
    /\ n' = n + 1
    /\ requested' = IF stamped THEN requested \cup {n + 1} ELSE requested
    /\ UNCHANGED <<slot, stateVars, wiped, isrVars, dmacsr, dma, rx>>

\* Fault: the descriptor is taken without waiting.
WaitNot ==
    /\ TaskStep("wait", "erase")
    /\ UNCHANGED <<slot, stateVars, n, requested, wiped, isrVars, dmacsr, dma, rx>>

\* The busy wait "for descriptor to become released by the DMA".
WaitReleased ==
    /\ TaskStep("wait", "erase") /\ ~slot[nextIdx].own
    /\ UNCHANGED <<slot, stateVars, n, requested, wiped, isrVars, dmacsr, dma, rx>>

\* memset writes upwards: the time stamp in DES0 and DES1 goes first, one store
\* after the other ...
EraseStamp ==
    /\ TaskStep("erase", "erase") /\ slot[nextIdx].cut < Parts
    /\ slot' = [slot EXCEPT ![nextIdx].cut = @ + 1]
    /\ UNCHANGED <<stateVars, n, requested, wiped, isrVars, dmacsr, dma, rx>>

\* ... then DES2 ...
EraseMode ==
    /\ TaskStep("erase", "erase3") /\ slot[nextIdx].cut = Parts
    /\ slot' = [slot EXCEPT ![nextIdx].ttse = FALSE]
    /\ UNCHANGED <<stateVars, n, requested, wiped, isrVars, dmacsr, dma, rx>>

\* ... and DES3 with the flags last.
EraseFlags ==
    /\ TaskStep("erase3", "fill")
    /\ slot' = [slot EXCEPT ![nextIdx].own = FALSE, ![nextIdx].ttss = FALSE]
    /\ wiped' = IF slot[nextIdx].ttss THEN wiped \cup {slot[nextIdx].cb} ELSE wiped
    /\ UNCHANGED <<stateVars, n, requested, isrVars, dmacsr, dma, rx>>

\* Fault: an extension in use is not filled again.
FillOnce ==
    /\ TaskStep("fill", "handOver")
    /\ sent' = (sent + 1) % CounterMod
    /\ slot' = [slot EXCEPT ![nextIdx].cb = IF @ = 0 /\ n \in requested THEN n ELSE @,
                            ![nextIdx].cntr = sent', ![nextIdx].buf = n,
                            ![nextIdx].ttse = n \in requested]
    /\ UNCHANGED <<nextIdx, acked, n, requested, wiped, isrVars, dmacsr, dma, rx>>

\* The extension keeps an old callback if no time stamp is asked for.
Fill ==
    /\ TaskStep("fill", "handOver")
    /\ sent' = (sent + 1) % CounterMod
    /\ slot' = [slot EXCEPT ![nextIdx].cb = IF n \in requested THEN n ELSE @,
                            ![nextIdx].cntr = sent', ![nextIdx].buf = n,
                            ![nextIdx].ttse = n \in requested]
    /\ UNCHANGED <<nextIdx, acked, n, requested, wiped, isrVars, dmacsr, dma, rx>>

\* The checksum bits of DES3, when it is given to the DMA, and TTSS, when it
\* comes back, are the same bit.
HandOver ==
    /\ TaskStep("handOver", "kick")
    /\ slot' = [slot EXCEPT ![nextIdx].own = TRUE, ![nextIdx].ttss = TRUE]
    /\ UNCHANGED <<stateVars, n, requested, wiped, isrVars, dmacsr, dma, rx>>

\* Fault: the index does not wrap around.
KickNoWrap ==
    /\ TaskStep("kick", "idle")
    /\ nextIdx' = nextIdx + 1
    /\ dma' = IF dma.pc = "stopped" THEN [dma EXCEPT !.pc = "run"] ELSE dma
    /\ UNCHANGED <<slot, sent, acked, n, requested, wiped, isrVars, dmacsr, rx>>

\* Fault: the tail pointer is written when the ring is full only.
KickLate ==
    /\ TaskStep("kick", "idle")
    /\ nextIdx' = (nextIdx + 1) % N
    /\ dma' = IF slot[nextIdx'].own THEN [dma EXCEPT !.pc = "run"] ELSE dma
    /\ UNCHANGED <<slot, sent, acked, n, requested, wiped, isrVars, dmacsr, rx>>

\* The next descriptor is up; the write to the tail pointer resumes the DMA.
Kick ==
    /\ TaskStep("kick", "idle")
    /\ nextIdx' = (nextIdx + 1) % N
    /\ dma' = IF dma.pc = "stopped" THEN [dma EXCEPT !.pc = "run"] ELSE dma
    /\ UNCHANGED <<slot, sent, acked, n, requested, wiped, isrVars, dmacsr, rx>>

-----------------------------------------------------------------------------
(* The DMA. It sends one frame after the other and stops at a descriptor it  *)
(* does not own.                                                             *)

DmaFetch ==
    /\ dma.pc = "run"
    /\ dma' = IF slot[dma.at].own
              THEN [dma EXCEPT !.pc = "send", !.frame = slot[dma.at].buf]
              ELSE [dma EXCEPT !.pc = "stopped"]
    /\ UNCHANGED <<slot, stateVars, taskVars, isrVars, dmacsr, rx>>

\* The frame is sent: the descriptor is written back with its time stamp.
DmaClose ==
    /\ dma.pc = "send"
    /\ LET d == slot[dma.at] IN
       /\ slot' = [slot EXCEPT ![dma.at].own = FALSE, ![dma.at].ttss = d.ttse,
                               ![dma.at].time = IF d.ttse THEN dma.frame ELSE @,
                               ![dma.at].cut = IF d.ttse THEN 0 ELSE @]
       /\ dma' = [at |-> (dma.at + 1) % N, pc |-> IF d.ttse THEN "raise" ELSE "run",
                  frame |-> 0, closed |-> dma.frame]
    /\ UNCHANGED <<stateVars, taskVars, isrVars, dmacsr, rx>>

DmaRaise ==
    /\ dma.pc = "raise"
    /\ dmacsr' = dmacsr \cup {"TI"}
    /\ dma' = [dma EXCEPT !.pc = "run"]
    /\ UNCHANGED <<slot, stateVars, taskVars, isrVars, rx>>

\* The other half has received a frame.
DmaReceives ==
    /\ rx < MaxRx /\ rx' = rx + 1
    /\ dmacsr' = dmacsr \cup {"RI"}
    /\ UNCHANGED <<slot, stateVars, taskVars, isrVars, dma>>

-----------------------------------------------------------------------------
(* The interrupt handler. Bits of DMACSR are cleared by writing them as one, *)
(* and SET_BIT writes back all that it reads: each one clears every bit.     *)

IsrEnter ==
    /\ ipc = "idle" /\ dmacsr # {}
    /\ csr' = dmacsr /\ ipc' = "clear"
    /\ UNCHANGED <<slot, stateVars, taskVars, i, first, minIdx, minDelta, found,
                   calls, dmacsr, dma, rx>>

IsrClear ==
    /\ ipc = "clear"
    /\ dmacsr' = {}
    /\ IF "RI" \in csr
       THEN ipc' = "notify" /\ UNCHANGED <<i, first, minIdx, minDelta, found>>
       ELSE /\ ipc' = "scan" /\ i' = 0 /\ first' = TRUE
            /\ minIdx' = 0 /\ minDelta' = 0 /\ found' = 0
    /\ UNCHANGED <<slot, stateVars, taskVars, csr, calls, dma, rx>>

\* A receive interrupt: NIS is cleared, the upcall made, TI is not looked at.
IsrNotify ==
    /\ ipc = "notify" /\ ipc' = "exit"
    /\ dmacsr' = {}
    /\ UNCHANGED <<slot, stateVars, taskVars, csr, i, first, minIdx, minDelta, found,
                   calls, dma, rx>>

\* Fault: the search does not look who owns the descriptor.
HasStampBit(d) == d.ttss

HasStamp(d) == d.ttss /\ ~d.own

\* One descriptor of the search for the oldest time stamp. Distances are taken
\* between the counters as they are, wrapped around or not.
Scan ==
    /\ ipc = "scan"
    /\ LET delta == slot[i].cntr - acked IN
       IF HasStamp(slot[i])
       THEN /\ found' = found + 1 /\ first' = FALSE
            /\ IF first \/ delta = 1 \/ delta < minDelta
               THEN minIdx' = i /\ minDelta' = delta
               ELSE UNCHANGED <<minIdx, minDelta>>
       ELSE UNCHANGED <<found, first, minIdx, minDelta>>
    /\ IF i = N - 1 THEN ipc' = "deliver" /\ i' = 0 ELSE ipc' = ipc /\ i' = i + 1
    /\ UNCHANGED <<slot, stateVars, taskVars, csr, calls, dmacsr, dma, rx>>

\* Fault: the descriptor is not cleared.
DeliverKeeps ==
    /\ ipc = "deliver"
    /\ IF found > 0
       THEN LET d == slot[minIdx] IN
            /\ calls' = IF d.cb # 0
                        THEN Append(calls, [arg |-> d.cb, stamp |-> d.time, cut |-> d.cut])
                        ELSE calls
            /\ acked' = d.cntr
            /\ found' = found - 1
       ELSE UNCHANGED <<calls, acked, found>>
    /\ ipc' = "exit"
    /\ first' = TRUE
    /\ UNCHANGED <<slot, nextIdx, sent, taskVars, csr, i, minIdx, minDelta, dmacsr, dma, rx>>

\* The callback, then the descriptor is cleared. found is not reset between two
\* searches, so the loop goes on after the last stamp, at the same descriptor.
Deliver ==
    /\ ipc = "deliver"
    /\ IF found > 0
       THEN LET d == slot[minIdx] IN
            /\ calls' = IF d.cb # 0
                        THEN Append(calls, [arg |-> d.cb, stamp |-> d.time, cut |-> d.cut])
                        ELSE calls
            /\ slot' = [slot EXCEPT ![minIdx] = [@ EXCEPT !.own = FALSE, !.ttss = FALSE,
                                                  !.time = 0, !.cut = Parts, !.ttse = FALSE,
                                                  !.cb = 0]]
            /\ acked' = d.cntr
            /\ found' = found - 1
       ELSE UNCHANGED <<calls, slot, acked, found>>
    /\ ipc' = IF found > 1 THEN "scan" ELSE "exit"
    /\ first' = TRUE
    /\ UNCHANGED <<nextIdx, sent, taskVars, csr, i, minIdx, minDelta, dmacsr, dma, rx>>

\* NIS is cleared once more, and with it what was raised meanwhile.
IsrExit ==
    /\ ipc = "exit" /\ ipc' = "idle"
    /\ dmacsr' = {} /\ csr' = {}
    /\ UNCHANGED <<slot, stateVars, taskVars, i, first, minIdx, minDelta, found, calls,
                   dma, rx>>

-----------------------------------------------------------------------------
(* Specification *)

TransmitStep == \/ WaitReleased
                \/ EraseStamp \/ EraseMode \/ EraseFlags
                \/ Fill \/ HandOver \/ Kick
DmaStep == DmaFetch \/ DmaClose \/ DmaRaise
IsrStep == IsrEnter \/ IsrClear \/ IsrNotify \/ Scan \/ Deliver \/ IsrExit

Next == \/ \E stamped \in BOOLEAN : Transmit(stamped)
        \/ TransmitStep
        \/ DmaStep
        \/ DmaReceives
        \/ IsrStep

Spec == Init /\ [][Next]_vars

\* The task is scheduled, the link is up, interrupts are taken.
FairSpec == Spec /\ WF_vars(TransmitStep) /\ WF_vars(DmaStep) /\ WF_vars(IsrStep)

-----------------------------------------------------------------------------
(* Properties *)

\* Every variable has its type.
TypeOK ==
    /\ slot \in [Slots -> Slot]
    /\ nextIdx \in Slots /\ sent \in 0..CounterMod - 1 /\ acked \in 0..CounterMod - 1
    /\ tpc \in {"idle", "wait", "erase", "erase3", "fill", "handOver", "kick"}
    /\ n \in 0..MaxFrames /\ requested \subseteq 1..n /\ wiped \subseteq Frames
    /\ ipc \in {"idle", "clear", "notify", "scan", "deliver", "exit"}
    /\ csr \subseteq {"RI", "TI"} /\ dmacsr \subseteq {"RI", "TI"}
    /\ i \in Slots /\ first \in BOOLEAN /\ minIdx \in Slots
    /\ minDelta \in -CounterMod..CounterMod /\ found \in Nat
    /\ calls \in Seq([arg : Frames, stamp : 0..MaxFrames, cut : 0..Parts])
    /\ dma \in [at : Slots, pc : {"run", "stopped", "send", "raise"},
                frame : 0..MaxFrames, closed : 0..MaxFrames]
    /\ rx \in 0..MaxRx

\* A descriptor the DMA owns is changed by the DMA alone: neither the task nor
\* the surplus rounds of ETHHW_ProcessTx write to a frame under way.
OwnedUntouched ==
    [][\A j \in Slots : slot[j].own /\ slot'[j] # slot[j] => DmaClose]_vars

\* A callback is called once for a frame at most, with that frame's argument
\* and what is left of its time stamp: all of it, unless ETHHW_Transmit, a whole
\* ring later, was interrupted while erasing it; then parts of it, or all, are 0.
\* Nothing of it is another frame's.
StampBelongs ==
    /\ \A k \in DOMAIN calls :
          LET c == calls[k] IN
          c.arg \in requested /\ c.stamp = c.arg /\ (c.cut = 0 \/ c.arg + N <= n)
    /\ \A k, l \in DOMAIN calls : calls[k].arg = calls[l].arg => k = l

Delivered == {calls[k].arg : k \in DOMAIN calls}

\* The stamp of a frame that has been sent is handed over, or still in its
\* descriptor, unless a frame a whole ring later has taken the descriptor.
StampKept ==
    \A f \in requested :
        f <= dma.closed =>
            \/ f \in Delivered
            \/ (f \in wiped /\ f + N <= n)
            \/ \E j \in Slots : HasStamp(slot[j]) /\ slot[j].cb = f

\* The time stamps: the two above, whatever frame, task step or interrupt comes
\* between a transmission and its callback.
StampsRight == StampBelongs /\ StampKept

\* The frames handed over and not yet sent, read off the ring.
Queued ==
    LET from == IF dma.pc = "send" THEN dma.at + 1 ELSE dma.at
        len  == Cardinality({j \in Slots : slot[j].own})
                    - (IF dma.pc = "send" THEN 1 ELSE 0)
    IN [k \in 1..len |-> slot[(from + k - 1) % N].buf]

Channel == INSTANCE AbstractFifo
             WITH Size <- N + 1, MaxRead <- 1, MaxPush <- 1,
                  content <- Queued,
                  next <- IF tpc \in {"idle", "kick"} THEN n + 1 ELSE n,
                  out <- IF dma.pc = "send" THEN <<dma.frame>> ELSE <<>>,
                  void <- FALSE

\* The ring is a first-in first-out channel of at most N frames, from the
\* hand-over to the wire: each frame is sent once, as it was given, in order.
ImplementsChannel == Channel!Spec

\* Every frame given to ETHHW_Transmit is sent.
AllSent == \A f \in Frames : n >= f ~> dma.closed >= f

-----------------------------------------------------------------------------
(* What the source says of itself and does not hold. *)

\* mac_drv.h: the callback is "invoked on transmission completion".
StampsDelivered ==
    \A f \in Frames : f \in requested /\ dma.closed >= f ~> f \in Delivered

\* mac_drv.c:406: the search looks at "only descriptors holding a timestamp", so
\* what a callback gets is a whole one.
StampsWhole == \A k \in DOMAIN calls : calls[k].cut = 0
=============================================================================
