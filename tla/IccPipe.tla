-------------------------------- MODULE IccPipe --------------------------------
(***************************************************************************)
(* One direction of the pipe between the two cores: the ring of             *)
(* ICC/icc_queue.c in shared memory, its senders on one core, the hardware  *)
(* semaphore (HSEM) whose release interrupts the other core, and the        *)
(* interrupt handler there that drains the ring.                            *)
(*                                                                         *)
(* The cores run in parallel and the senders of a core preempt each other,  *)
(* so each access to the shared indices is a step of its own. A byte is     *)
(* represented by its number in the stream of accepted bytes.               *)
(***************************************************************************)
EXTENDS Integers

CONSTANTS
    Senders,   \* the tasks and handlers of the sending core
    Length,    \* ICCQueue.length
    MaxWrite,  \* the longest icc_write
    MaxBytes,  \* bound of the model: no write starts beyond so many bytes
    Modulus,   \* the range of uint16_t, the type of the receiver's count
    Rereads,   \* does iccq_avail load writeIdx twice? (-O0)
    Gated      \* does icc_recv_cb turn interrupts away before sInitialized? (CM4)

ASSUME LengthAssumption == Length \in Nat /\ Length >= 2
ASSUME WriteAssumption == MaxWrite \in Nat \ {0} /\ MaxBytes \in Nat
ASSUME ModulusAssumption == Modulus \in Nat /\ Modulus >= 2 * Length
ASSUME BuildAssumption == Rereads \in BOOLEAN /\ Gated \in BOOLEAN

VARIABLES
    elements, writeIdx, readIdx, \* the ICCQueue
    spc, left, newIdx,           \* icc_write: step, characters left, MQ_NEXT
    rpc, above, seen,            \* the handler: step, writeIdx < readIdx, writeIdx
    avail, c,                    \* the handler: iterations left, the character
    open,                        \* icc_open_pipe has been called by the receiver
    ready,                       \* sInitialized of the CLI, on the CM4
    missed,                      \* history: bytes accepted at the last interrupt turned away
    locked, raw, ier,            \* the HSEM: lock, status and enable bit
    pushed, popped               \* history: bytes accepted and removed

queueVars == <<elements, writeIdx, readIdx>>
sendVars == <<spc, left, newIdx>>
recvVars == <<rpc, above, seen, avail, c>>
gateVars == <<open, ready, missed>>
hsemVars == <<locked, raw, ier>>
vars == <<queueVars, sendVars, recvVars, gateVars, hsemVars, pushed, popped>>

Slots == 0 .. Length - 1

\* Fault: the index may rest one past the end of the ring.
NextIdxLate(i) == IF i = Length THEN 0 ELSE i + 1

\* MQ_NEXT, (i + 1) % length.
NextIdx(i) == IF i + 1 = Length THEN 0 ELSE i + 1

\* iccq_avail, from the outcome of "writeIdx < readIdx" and the later loads.
Avail(lower, w, r) ==
    LET end == IF lower THEN w + Length ELSE w
    IN IF end >= r THEN end - r ELSE Modulus + end - r

AvailNow == Avail(writeIdx < readIdx, writeIdx, readIdx)

-----------------------------------------------------------------------------
\* iccq_create, by icc_init; the receiver has not opened the pipe yet.
Init ==
    /\ elements = [i \in Slots |-> 0] /\ writeIdx = 0 /\ readIdx = 0
    /\ spc = [s \in Senders |-> "idle"] /\ left = [s \in Senders |-> 0]
    /\ newIdx = [s \in Senders |-> 0]
    /\ rpc = "idle" /\ above = FALSE /\ seen = 0 /\ avail = 0 /\ c = 0
    /\ open = FALSE /\ ready = ~Gated /\ missed = 0
    /\ locked = FALSE /\ raw = FALSE /\ ier = FALSE
    /\ pushed = 0 /\ popped = 0

\* icc_open_pipe: notification and interrupt are enabled. A release before
\* has left its status bit set, so nothing sent earlier is overlooked.
OpenPipe ==
    /\ ~open
    /\ open' = TRUE /\ ier' = TRUE
    /\ UNCHANGED <<queueVars, sendVars, recvVars, ready, missed, locked, raw, pushed, popped>>

\* task_cli has started.
CliStarts ==
    /\ ~ready
    /\ ready' = TRUE
    /\ UNCHANGED <<queueVars, sendVars, recvVars, open, missed, hsemVars, pushed, popped>>

-----------------------------------------------------------------------------
(* icc_write: iccq_push for each character until one fails, then icc_notify *)

Write(s, n) ==
    /\ spc[s] = "idle" /\ pushed + n <= MaxBytes
    /\ spc' = [spc EXCEPT ![s] = "check"]
    /\ left' = [left EXCEPT ![s] = n]
    /\ UNCHANGED <<queueVars, newIdx, recvVars, gateVars, hsemVars, pushed, popped>>

\* Fault: no check for a full ring.
PushUnchecked(s) ==
    /\ spc[s] = "check"
    /\ spc' = [spc EXCEPT ![s] = "copy"]
    /\ UNCHANGED <<queueVars, left, newIdx, recvVars, gateVars, hsemVars, pushed, popped>>

\* Fault: a full ring makes icc_write return without notifying.
PushReturns(s) ==
    /\ spc[s] = "check"
    /\ spc' = [spc EXCEPT ![s] = IF NextIdx(writeIdx) = readIdx THEN "idle" ELSE "copy"]
    /\ UNCHANGED <<queueVars, left, newIdx, recvVars, gateVars, hsemVars, pushed, popped>>

\* A full ring ends the writing; the rest of the characters is dropped.
PushCheck(s) ==
    /\ spc[s] = "check"
    /\ spc' = [spc EXCEPT ![s] = IF NextIdx(writeIdx) = readIdx THEN "take" ELSE "copy"]
    /\ UNCHANGED <<queueVars, left, newIdx, recvVars, gateVars, hsemVars, pushed, popped>>

PushCopy(s) ==
    /\ spc[s] = "copy"
    /\ elements' = [elements EXCEPT ![writeIdx] = pushed + 1]
    /\ spc' = [spc EXCEPT ![s] = "load"]
    /\ UNCHANGED <<writeIdx, readIdx, left, newIdx, recvVars, gateVars, hsemVars, pushed, popped>>

PushLoad(s) ==
    /\ spc[s] = "load"
    /\ newIdx' = [newIdx EXCEPT ![s] = NextIdx(writeIdx)]
    /\ spc' = [spc EXCEPT ![s] = "store"]
    /\ UNCHANGED <<queueVars, left, recvVars, gateVars, hsemVars, pushed, popped>>

PushStore(s) ==
    /\ spc[s] = "store"
    /\ writeIdx' = newIdx[s]
    /\ pushed' = pushed + 1
    /\ left' = [left EXCEPT ![s] = @ - 1]
    /\ spc' = [spc EXCEPT ![s] = IF left[s] = 1 THEN "take" ELSE "check"]
    /\ UNCHANGED <<elements, readIdx, newIdx, recvVars, gateVars, hsemVars, popped>>

\* icc_notify. Only this core takes this semaphore, so FastTake succeeds even
\* when another sender of the core has it.
NotifyTake(s) ==
    /\ spc[s] = "take"
    /\ locked' = TRUE
    /\ spc' = [spc EXCEPT ![s] = "release"]
    /\ UNCHANGED <<queueVars, left, newIdx, recvVars, gateVars, raw, ier, pushed, popped>>

\* HAL_HSEM_Release: freeing the semaphore sets the status bit; a semaphore
\* another sender has freed already does not.
NotifyRelease(s) ==
    /\ spc[s] = "release"
    /\ locked' = FALSE /\ raw' = (raw \/ locked)
    /\ spc' = [spc EXCEPT ![s] = "idle"]
    /\ UNCHANGED <<queueVars, left, newIdx, recvVars, gateVars, ier, pushed, popped>>

-----------------------------------------------------------------------------
(* HSEM1_IRQHandler: HAL_HSEM_IRQHandler and HAL_HSEM_FreeCallback *)

\* The HAL masks the notification, clears the status and calls back; the
\* callback does nothing on the CM4 before the CLI has started.
Irq ==
    /\ rpc = "idle" /\ open /\ raw /\ ier
    /\ ier' = FALSE /\ raw' = FALSE
    /\ rpc' = IF ready THEN "compare" ELSE "activate"
    /\ missed' = IF ready THEN missed ELSE pushed
    /\ UNCHANGED <<queueVars, sendVars, above, seen, avail, c, open, ready, locked, pushed, popped>>

\* The comparison in iccq_avail, called by icc_recv_cb and by iccq_pop.
Compare ==
    /\ rpc \in {"compare", "popCompare"}
    /\ above' = (writeIdx < readIdx) /\ seen' = writeIdx
    /\ rpc' = IF rpc = "compare" THEN "count" ELSE "popAdvance"
    /\ UNCHANGED <<queueVars, sendVars, avail, c, gateVars, hsemVars, pushed, popped>>

AvailSeen == Avail(above, IF Rereads THEN writeIdx ELSE seen, readIdx)

\* Fault: one iteration too many.
CountInclusive ==
    /\ rpc = "count"
    /\ avail' = AvailSeen + 1
    /\ rpc' = "top"
    /\ UNCHANGED <<queueVars, sendVars, above, seen, c, gateVars, hsemVars, pushed, popped>>

\* The number of iterations is settled once, before the loop.
Count ==
    /\ rpc = "count"
    /\ avail' = AvailSeen
    /\ rpc' = IF AvailSeen > 0 THEN "top" ELSE "activate"
    /\ UNCHANGED <<queueVars, sendVars, above, seen, c, gateVars, hsemVars, pushed, popped>>

\* Fault: the element behind the top is taken.
TopNext ==
    /\ rpc = "top"
    /\ c' = elements[NextIdx(readIdx)]
    /\ rpc' = "popCompare"
    /\ UNCHANGED <<queueVars, sendVars, above, seen, avail, gateVars, hsemVars, pushed, popped>>

Top ==
    /\ rpc = "top"
    /\ c' = elements[readIdx]
    /\ rpc' = "popCompare"
    /\ UNCHANGED <<queueVars, sendVars, above, seen, avail, gateVars, hsemVars, pushed, popped>>

PopAdvance ==
    /\ rpc = "popAdvance"
    /\ IF AvailSeen > 0 THEN readIdx' = NextIdx(readIdx) /\ popped' = popped + 1
                        ELSE UNCHANGED <<readIdx, popped>>
    /\ rpc' = "deliver"
    /\ UNCHANGED <<elements, writeIdx, sendVars, above, seen, avail, c, gateVars, hsemVars, pushed>>

\* MSGchar(c) or bfifo_push(&sInputFifo, &c, 1), and the end of one iteration.
Deliver ==
    /\ rpc = "deliver"
    /\ avail' = avail - 1
    /\ rpc' = IF avail = 1 THEN "activate" ELSE "top"
    /\ UNCHANGED <<queueVars, sendVars, above, seen, c, gateVars, hsemVars, pushed, popped>>

\* Fault: the status is cleared at the end of the handler again.
ActivateClears ==
    /\ rpc = "activate"
    /\ ier' = TRUE /\ raw' = FALSE
    /\ rpc' = "idle"
    /\ UNCHANGED <<queueVars, sendVars, above, seen, avail, c, gateVars, locked, pushed, popped>>

\* HAL_HSEM_ActivateNotification at the end of the callback.
Activate ==
    /\ rpc = "activate"
    /\ ier' = TRUE
    /\ rpc' = "idle"
    /\ UNCHANGED <<queueVars, sendVars, above, seen, avail, c, gateVars, locked, raw, pushed, popped>>

-----------------------------------------------------------------------------
SendStep(s) == \/ PushCheck(s) \/ PushCopy(s) \/ PushLoad(s) \/ PushStore(s)
               \/ NotifyTake(s) \/ NotifyRelease(s)

RecvStep == \/ Irq \/ Compare \/ Count \/ Top \/ PopAdvance \/ Deliver \/ Activate

Next == \/ OpenPipe
        \/ CliStarts
        \/ \E s \in Senders : \/ SendStep(s)
                              \/ \E n \in 1..MaxWrite : Write(s, n)
        \/ RecvStep

Spec == Init /\ [][Next]_vars

\* Writes come to their end, the receiver opens its pipe, starts its CLI and
\* takes interrupts.
FairSpec == /\ Spec /\ WF_vars(OpenPipe) /\ WF_vars(CliStarts) /\ WF_vars(RecvStep)
            /\ \A s \in Senders : WF_vars(SendStep(s))

-----------------------------------------------------------------------------
(* Properties *)

SendPCs == {"idle", "check", "copy", "load", "store", "take", "release"}
RecvPCs == {"idle", "compare", "count", "top", "popCompare", "popAdvance",
            "deliver", "activate"}

\* Every variable has its type; the indices stay in the ring.
TypeOK ==
    /\ elements \in [Slots -> Nat] /\ writeIdx \in Slots /\ readIdx \in Slots
    /\ spc \in [Senders -> SendPCs] /\ left \in [Senders -> 0..MaxWrite]
    /\ newIdx \in [Senders -> Slots]
    /\ rpc \in RecvPCs /\ above \in BOOLEAN /\ seen \in Slots
    /\ avail \in 0..Modulus - 1 /\ c \in Nat
    /\ open \in BOOLEAN /\ ready \in BOOLEAN /\ missed \in Nat
    /\ locked \in BOOLEAN /\ raw \in BOOLEAN /\ ier \in BOOLEAN
    /\ pushed \in Nat /\ popped \in Nat

\* A sender whose notification is still to come: one that has not taken the
\* semaphore yet, or the one that will free it.
Announcing(s) == \/ spc[s] \in {"check", "copy", "load", "store", "take"}
                 \/ spc[s] = "release" /\ locked

\* No lost notification: bytes in the ring that the handler is not about to
\* remove have their interrupt pending, or a sender that will still raise it;
\* also when several senders take and free the semaphore over each other, and
\* for what was sent before the pipe was opened. Only what an interrupt found
\* before sInitialized is left lying, and only until the next push.
PendingIsAnnounced ==
    rpc \in {"idle", "activate"} /\ AvailNow > 0 /\ pushed # missed =>
        raw \/ \E s \in Senders : Announcing(s)

\* An iccq_push that succeeds has stored an element: what was pushed and not
\* removed is what iccq_avail tells. (icc_queue.h: "return true on success".)
PushedIsStored == AvailNow = pushed - popped

\* The characters handed to MSGchar are the stored ones, each once, in order.
ReceivedInOrder == rpc \in {"popCompare", "popAdvance"} => c = popped + 1

\* Each iteration of the drain loop finds an element to take: iccq_avail is the
\* "number of available elements" (icc_queue.h), never more.
LoopFindsElements == rpc \in {"top", "popCompare", "popAdvance"} =>
                         avail <= pushed - popped

\* The drain loop takes what is stored and nothing else: the two above.
DrainRight == ReceivedInOrder /\ LoopFindsElements

\* What has been accepted from a sender reaches the other core, unless the
\* interrupts it raised were turned away before the CLI had started.
AllDelivered == \A n \in 1..MaxBytes : pushed >= n ~> popped >= n \/ missed >= n
=============================================================================
