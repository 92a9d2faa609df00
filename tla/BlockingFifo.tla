----------------------------- MODULE BlockingFifo -----------------------------
(***************************************************************************)
(* The blocking byte FIFO of blocking_io/blocking_fifo.c, with the callers  *)
(* it has in this firmware: one consumer task looping over bfifo_wait_avail,*)
(* bfifo_read and bfifo_pop; a task that pushes during start-up; and, once  *)
(* the pipe between the cores is open, an interrupt handler pushing bytes.  *)
(*                                                                         *)
(* Tasks may be preempted between any two accesses to the shared fields, so *)
(* each bfifo_get_used() of a task is two steps: the comparison inside      *)
(* bfifo_monotonic_write_index and the subtraction. An interrupt handler    *)
(* is one step for the tasks of its core. A byte is represented by its      *)
(* number in the stream of accepted bytes, 1, 2, 3...                       *)
(***************************************************************************)
EXTENDS Integers

CONSTANTS
    Size,      \* BFifo.size, the bytes of the ring
    MaxRead,   \* the longest bfifo_read: 256 (serial I/O) or 1 (CLI)
    MaxPush,   \* the longest bfifo_push of a task
    MaxBytes,  \* bound of the model: the bytes accepted in a behaviour
    Modulus,   \* the range of uint32_t
    Rereads,   \* does bfifo_monotonic_write_index load writeIdx twice? (-O0)
    PopWaits   \* is bfifo_pop called with osWaitForever (CLI) or 0 (serial)?

ASSUME SizeAssumption == Size \in Nat /\ Size >= 2
ASSUME CallAssumption == /\ MaxRead \in 1..Size
                         /\ MaxPush \in 1..Size
                         /\ MaxBytes \in Nat
ASSUME ModulusAssumption == Modulus \in Nat /\ Modulus > 3 * Size
ASSUME BuildAssumption == Rereads \in BOOLEAN /\ PopWaits \in BOOLEAN

VARIABLES
    mem, readIdx, writeIdx,  \* BFifo: the ring and its indices
    readSem, writeSem,       \* BFifo: the binary semaphores
    ppc, req, pAbove, pSize, \* bfifo_push of the task: step, size, readIdx > writeIdx, pushSize
    cpc, cAbove, cW, cSize,  \* the consumer: step, readIdx > writeIdx, writeIdx, readSize
    buf,                     \* the consumer's destination buffer
    isrOn,                   \* the pushing interrupt is enabled
    pushed, popped,          \* history: bytes accepted, bytes released
    overrun                  \* history: some push has left no slot free

fifoVars == <<mem, readIdx, writeIdx, readSem, writeSem>>
pushVars == <<ppc, req, pAbove, pSize>>
consVars == <<cpc, cAbove, cW, cSize, buf>>
histVars == <<pushed, popped, overrun>>
vars == <<fifoVars, pushVars, consVars, isrOn, histVars>>

Slots == 0 .. Size - 1

\* MIN of blocking_fifo.c.
Least(a, b) == IF a < b THEN a ELSE b

\* uint32_t subtraction.
USub(a, b) == IF a >= b THEN a - b ELSE Modulus + a - b

\* Fault: the index may rest one past the end of the ring.
WrapLate(i) == IF i > Size THEN i - Size ELSE i

\* An index advanced by at most Size: "if (newIdx >= size) newIdx -= size".
Wrap(i) == IF i >= Size THEN i - Size ELSE i

\* The distance from slot i up to slot j, around the ring.
Ahead(i, j) == IF j >= i THEN j - i ELSE j - i + Size

\* Fault: the used size takes no account of the rollover.
UsedUnrolled(above, w, r) == USub(w, r)

\* bfifo_get_used, from the outcome of "readIdx > writeIdx" and the later
\* loads w and r of the two indices.
Used(above, w, r) == USub(IF above THEN w + Size ELSE w, r)

\* bfifo_get_used and bfifo_get_free when nothing moves meanwhile.
UsedNow == Used(readIdx > writeIdx, writeIdx, readIdx)
FreeNow == USub(Size, UsedNow)

\* Fault: the second block of a push is not copied.
StoredFirstBlock(n) == [i \in Slots |-> IF i >= writeIdx /\ i - writeIdx < n
                                        THEN pushed + i - writeIdx + 1
                                        ELSE mem[i]]

\* The two memcpy's of a push: the ring with the next n accepted bytes
\* stored from writeIdx on.
Stored(n) == [i \in Slots |-> IF Ahead(writeIdx, i) < n
                              THEN pushed + Ahead(writeIdx, i) + 1
                              ELSE mem[i]]

\* Does a push of n bytes leave no slot free?
Fills(n) == pushed - popped + n >= Size

-----------------------------------------------------------------------------
\* bfifo_create. A FIFO is either pushed by a task first (serial I/O) or by
\* the interrupt only (CLI input).
Init ==
    /\ mem = [i \in Slots |-> 0]
    /\ readIdx = 0 /\ writeIdx = 0
    /\ readSem = 0 /\ writeSem = 1
    /\ ppc = "idle" /\ req = 0 /\ pAbove = FALSE /\ pSize = 0
    /\ cpc = "wait" /\ cAbove = FALSE /\ cW = 0 /\ cSize = 0
    /\ buf = [k \in 1..MaxRead |-> 0]
    /\ isrOn \in BOOLEAN
    /\ pushed = 0 /\ popped = 0 /\ overrun = FALSE

\* The start-up task has printed its greetings and opens the pipe.
OpenPipe ==
    /\ ~isrOn /\ ppc = "idle"
    /\ isrOn' = TRUE
    /\ UNCHANGED <<fifoVars, pushVars, consVars, histVars>>

-----------------------------------------------------------------------------
(* bfifo_push called by a task. *)

PushCall(n) ==
    /\ ppc = "idle" /\ ~isrOn
    /\ pushed + n <= MaxBytes
    /\ ppc' = "acquire" /\ req' = n
    /\ UNCHANGED <<fifoVars, pAbove, pSize, consVars, isrOn, histVars>>

PushAcquire ==
    /\ ppc = "acquire" /\ writeSem = 1
    /\ writeSem' = 0
    /\ ppc' = "compare"
    /\ UNCHANGED <<mem, readIdx, writeIdx, readSem, req, pAbove, pSize,
                   consVars, isrOn, histVars>>

PushCompare ==
    /\ ppc \in {"compare", "compare2"}
    /\ pAbove' = (readIdx > writeIdx)
    /\ ppc' = IF ppc = "compare" THEN "size" ELSE "release"
    /\ UNCHANGED <<fifoVars, req, pSize, consVars, isrOn, histVars>>

PushSize ==
    /\ ppc = "size"
    /\ pSize' = Least(USub(Size, Used(pAbove, writeIdx, readIdx)), req)
    /\ ppc' = "copy"
    /\ UNCHANGED <<fifoVars, req, pAbove, consVars, isrOn, histVars>>

PushCopy ==
    /\ ppc = "copy"
    /\ mem' = Stored(pSize)
    /\ overrun' = (overrun \/ Fills(pSize))
    /\ ppc' = "publish"
    /\ UNCHANGED <<readIdx, writeIdx, readSem, writeSem, req, pAbove, pSize,
                   consVars, isrOn, pushed, popped>>

PushPublish ==
    /\ ppc = "publish"
    /\ writeIdx' = Wrap(writeIdx + pSize)
    /\ pushed' = pushed + pSize
    /\ ppc' = "compare2"
    /\ UNCHANGED <<mem, readIdx, readSem, writeSem, req, pAbove, pSize,
                   consVars, isrOn, popped, overrun>>

\* The free size is computed again and the write semaphore released if any.
PushReleaseWrite ==
    /\ ppc = "release"
    /\ writeSem' = IF USub(Size, Used(pAbove, writeIdx, readIdx)) > 0
                   THEN 1 ELSE writeSem
    /\ ppc' = "wake"
    /\ UNCHANGED <<mem, readIdx, writeIdx, readSem, req, pAbove, pSize,
                   consVars, isrOn, histVars>>

PushReleaseRead ==
    /\ ppc = "wake"
    /\ readSem' = 1
    /\ ppc' = "idle"
    /\ UNCHANGED <<mem, readIdx, writeIdx, writeSem, req, pAbove, pSize,
                   consVars, isrOn, histVars>>

-----------------------------------------------------------------------------
\* bfifo_push of one byte from the interrupt handler: the acquire of writeSem
\* fails at once in an interrupt and its result is not looked at.
IsrPush ==
    /\ isrOn /\ pushed < MaxBytes
    /\ LET n == Least(FreeNow, 1)
       IN /\ mem' = Stored(n)
          /\ overrun' = (overrun \/ Fills(n))
          /\ writeIdx' = Wrap(writeIdx + n)
          /\ pushed' = pushed + n
    /\ writeSem' = IF USub(Size, Used(readIdx > writeIdx', writeIdx', readIdx)) > 0
                   THEN 1 ELSE writeSem
    /\ readSem' = 1
    /\ UNCHANGED <<readIdx, pushVars, consVars, isrOn, popped>>

-----------------------------------------------------------------------------
(* The consumer: bfifo_wait_avail, bfifo_read, bfifo_pop, then its own work. *)

WaitAcquire ==
    /\ cpc = "wait" /\ readSem = 1
    /\ readSem' = 0
    /\ cpc' = "waitRelease"
    /\ UNCHANGED <<mem, readIdx, writeIdx, writeSem, pushVars,
                   cAbove, cW, cSize, buf, isrOn, histVars>>

\* Fault: bfifo_wait_avail keeps the semaphore.
WaitKeeps ==
    /\ cpc = "waitRelease"
    /\ cpc' = "readCompare"
    /\ UNCHANGED <<fifoVars, pushVars, cAbove, cW, cSize, buf, isrOn, histVars>>

WaitRelease ==
    /\ cpc = "waitRelease"
    /\ readSem' = 1
    /\ cpc' = "readCompare"
    /\ UNCHANGED <<mem, readIdx, writeIdx, writeSem, pushVars,
                   cAbove, cW, cSize, buf, isrOn, histVars>>

\* The comparison in bfifo_monotonic_write_index, in each of the consumer's
\* three calls of bfifo_get_used.
Compare ==
    /\ cpc \in {"readCompare", "popCompare", "popCompare2"}
    /\ cAbove' = (readIdx > writeIdx)
    /\ cW' = writeIdx
    /\ cpc' = CASE cpc = "readCompare" -> "readSize"
                [] cpc = "popCompare"  -> "popAdvance"
                [] cpc = "popCompare2" -> "popRelease"
    /\ UNCHANGED <<fifoVars, pushVars, cSize, buf, isrOn, histVars>>

\* bfifo_get_used as the consumer sees it after Compare.
UsedSeen == Used(cAbove, IF Rereads THEN writeIdx ELSE cW, readIdx)

ReadSize ==
    /\ cpc = "readSize"
    /\ cSize' = Least(UsedSeen, MaxRead)
    /\ cpc' = "readCopy"
    /\ UNCHANGED <<fifoVars, pushVars, cAbove, cW, buf, isrOn, histVars>>

\* Fault: the copy starts one byte late.
ReadCopyLate ==
    /\ cpc = "readCopy"
    /\ buf' = [k \in 1..MaxRead |-> IF k <= cSize THEN mem[Wrap(readIdx + k)] ELSE buf[k]]
    /\ cpc' = IF cSize = 0 THEN "done" ELSE "popAcquire"
    /\ UNCHANGED <<fifoVars, pushVars, cAbove, cW, cSize, isrOn, histVars>>

\* The two memcpy's of bfifo_read. With nothing read, bfifo_pop returns at
\* once (serial I/O) or is not called (CLI).
ReadCopy ==
    /\ cpc = "readCopy"
    /\ buf' = [k \in 1..MaxRead |-> IF k <= cSize THEN mem[Wrap(readIdx + k - 1)]
                                                  ELSE buf[k]]
    /\ cpc' = IF cSize = 0 THEN "done" ELSE "popAcquire"
    /\ UNCHANGED <<fifoVars, pushVars, cAbove, cW, cSize, isrOn, histVars>>

PopAcquire ==
    /\ cpc = "popAcquire"
    /\ PopWaits => readSem = 1
    /\ readSem' = 0
    /\ cpc' = "popCompare"
    /\ UNCHANGED <<mem, readIdx, writeIdx, writeSem, pushVars,
                   cAbove, cW, cSize, buf, isrOn, histVars>>

\* Fault: all there is is popped, whatever size was asked for.
PopAdvanceAll ==
    /\ cpc = "popAdvance"
    /\ readIdx' = Wrap(readIdx + UsedSeen) /\ popped' = popped + UsedSeen
    /\ cpc' = "popReleaseWrite"
    /\ UNCHANGED <<mem, writeIdx, readSem, writeSem, pushVars,
                   cAbove, cW, cSize, buf, isrOn, pushed, overrun>>

PopAdvance ==
    /\ cpc = "popAdvance"
    /\ LET popSize == Least(UsedSeen, cSize)
       IN /\ readIdx' = Wrap(readIdx + popSize)
          /\ popped' = popped + popSize
    /\ cpc' = "popReleaseWrite"
    /\ UNCHANGED <<mem, writeIdx, readSem, writeSem, pushVars,
                   cAbove, cW, cSize, buf, isrOn, pushed, overrun>>

\* Fault: the pop does not release the write semaphore.
PopReleaseNoWrite ==
    /\ cpc = "popReleaseWrite"
    /\ cpc' = "popCompare2"
    /\ UNCHANGED <<fifoVars, pushVars, cAbove, cW, cSize, buf, isrOn, histVars>>

PopReleaseWrite ==
    /\ cpc = "popReleaseWrite"
    /\ writeSem' = 1
    /\ cpc' = "popCompare2"
    /\ UNCHANGED <<mem, readIdx, writeIdx, readSem, pushVars,
                   cAbove, cW, cSize, buf, isrOn, histVars>>

\* Fault: the pop does not release the read semaphore for what is left.
PopReleaseNoRead ==
    /\ cpc = "popRelease"
    /\ cpc' = "done"
    /\ UNCHANGED <<fifoVars, pushVars, cAbove, cW, cSize, buf, isrOn, histVars>>

PopReleaseRead ==
    /\ cpc = "popRelease"
    /\ readSem' = IF UsedSeen > 0 THEN 1 ELSE readSem
    /\ cpc' = "done"
    /\ UNCHANGED <<mem, readIdx, writeIdx, writeSem, pushVars,
                   cAbove, cW, cSize, buf, isrOn, histVars>>

\* The caller is done with the bytes and waits for more.
ConsumerLoop ==
    /\ cpc = "done"
    /\ cpc' = "wait"
    /\ UNCHANGED <<fifoVars, pushVars, cAbove, cW, cSize, buf, isrOn, histVars>>

-----------------------------------------------------------------------------
\* A push in progress, and an operation of the consumer.
PushStep == \/ PushAcquire \/ PushCompare \/ PushSize \/ PushCopy
            \/ PushPublish \/ PushReleaseWrite \/ PushReleaseRead

ReadStep == \/ WaitAcquire \/ WaitRelease \/ Compare \/ ReadSize \/ ReadCopy
            \/ PopAcquire \/ PopAdvance \/ PopReleaseWrite \/ PopReleaseRead

FifoNext == \/ OpenPipe
            \/ \E n \in 1..MaxPush : PushCall(n)
            \/ PushStep
            \/ IsrPush
            \/ ReadStep

Next == FifoNext \/ ConsumerLoop

Spec == Init /\ [][Next]_vars

\* The tasks have one priority and are time-sliced: neither is held back.
FairSpec == Spec /\ WF_vars(PushStep) /\ WF_vars(ReadStep) /\ WF_vars(ConsumerLoop)

-----------------------------------------------------------------------------
(* Properties *)

PushPCs == {"idle", "acquire", "compare", "size", "copy", "publish",
            "compare2", "release", "wake"}
ConsPCs == {"wait", "waitRelease", "readCompare", "readSize", "readCopy",
            "popAcquire", "popCompare", "popAdvance", "popReleaseWrite",
            "popCompare2", "popRelease", "done"}

\* Every variable has its type; in particular the indices written by
\* bfifo_push and bfifo_pop are slots of the ring even when a torn read of
\* the other index has made the used or free size wrong.
TypeOK ==
    /\ mem \in [Slots -> Nat] /\ readIdx \in Slots /\ writeIdx \in Slots
    /\ readSem \in {0, 1} /\ writeSem \in {0, 1}
    /\ ppc \in PushPCs /\ req \in 0..MaxPush /\ pAbove \in BOOLEAN
    /\ pSize \in 0..MaxPush
    /\ cpc \in ConsPCs /\ cAbove \in BOOLEAN /\ cW \in Slots
    /\ cSize \in 0..MaxRead
    /\ buf \in [1..MaxRead -> Nat]
    /\ isrOn \in BOOLEAN /\ pushed \in Nat /\ popped \in Nat
    /\ overrun \in BOOLEAN

\* No lost wake-up: a consumer waiting in bfifo_wait_avail while the indices
\* say there are bytes finds readSem released, or the push that stored them
\* is still on its way to release it.
BytesWakeConsumer ==
    cpc = "wait" /\ UsedNow > 0 =>
        readSem = 1 \/ ppc \in {"compare2", "release", "wake"}

\* Whatever timeout bfifo_pop is given, it takes readSem at once: the
\* semaphore released by bfifo_wait_avail cannot be gone.
PopFindsSemaphore == cpc = "popAcquire" => readSem = 1

\* Pushers are not locked out: when no push is in progress writeSem is free,
\* or bfifo_pop is about to free it. A push that saw no free slot (which only
\* a pop in the middle of its bfifo_get_used can make it see) leaves writeSem
\* taken, and that pop releases it.
PusherNotLockedOut ==
    ppc \in {"idle", "acquire"} => writeSem = 1 \/ cpc = "popReleaseWrite"

\* Both semaphores do what they are for: the three above, for any reads and
\* pushes and in both builds.
SemaphoresRight == BytesWakeConsumer /\ PopFindsSemaphore /\ PusherNotLockedOut

\* As long as no push has used up the last free slot, bfifo_get_used is the
\* number of bytes pushed and not yet popped.
UsedIsStored == ~overrun => UsedNow = pushed - popped

\* As long as no push has used up the last free slot, what bfifo_read hands
\* over are the oldest bytes not popped yet, in order and unchanged.
ReadInOrder ==
    ~overrun /\ cpc \in {"popAcquire", "popCompare", "popAdvance"} =>
        \A k \in 1..cSize : buf[k] = popped + k

\* bfifo_pop releases exactly the bytes that the preceding bfifo_read
\* returned: the caller neither sees a byte twice nor misses one.
PopsWhatWasRead ==
    [][~overrun /\ popped' # popped => popped' = popped + cSize]_vars
=============================================================================
