----------------------------- MODULE SerialOutput -----------------------------
(***************************************************************************)
(* The serial output of the CM7 (standard_output/serial_io.c): the thread   *)
(* that reads lines from its BlockingFifo, starts a UART transmission by    *)
(* DMA and waits for the event flag set by the transmission-complete        *)
(* callback. The FIFO's consumer is that thread, buf is its lineBuf.        *)
(***************************************************************************)
EXTENDS FifoRefinement

VARIABLES
    tpc,        \* the thread: in the FIFO, or waiting for the event flag
    flag,       \* SERIAL_IO_TX_CPLT_FLAG
    busy,       \* the DMA is transmitting lineBuf
    wire        \* history: bytes transmitted

uartVars == <<tpc, flag, busy, wire>>
serialVars == <<vars, uartVars>>

SerialInit == Init /\ tpc = "fifo" /\ flag = FALSE /\ busy = FALSE /\ wire = 0

\* HAL_UART_Transmit_DMA refuses a transmission of no bytes, and one while
\* another is under way; the thread does not look at its result.
Transmit ==
    /\ tpc = "fifo" /\ cpc = "done"
    /\ busy' = (busy \/ cSize > 0)
    /\ tpc' = "flag"
    /\ UNCHANGED <<vars, flag, wire>>

\* Fault: the callback is not registered.
TxSilent == busy /\ busy' = FALSE /\ wire' = wire + cSize /\ UNCHANGED <<vars, tpc, flag>>

\* The DMA has sent lineBuf; the callback sets the flag.
TxComplete ==
    /\ busy
    /\ busy' = FALSE /\ flag' = TRUE
    /\ wire' = wire + cSize
    /\ UNCHANGED <<vars, tpc>>

\* Fault: the wait does not clear the flag.
FlagWaitKeeps == tpc = "flag" /\ flag /\ tpc' = "fifo" /\ ConsumerLoop /\ UNCHANGED <<flag, busy, wire>>

\* Fault: the wait times out.
FlagWaitTimesOut ==
    /\ tpc = "flag" /\ flag' = FALSE /\ tpc' = "fifo"
    /\ ConsumerLoop
    /\ UNCHANGED <<busy, wire>>

\* osEventFlagsWait returns and clears the flag.
FlagWait ==
    /\ tpc = "flag" /\ flag
    /\ flag' = FALSE /\ tpc' = "fifo"
    /\ ConsumerLoop
    /\ UNCHANGED <<busy, wire>>

SerialNext == \/ FifoNext /\ UNCHANGED uartVars
              \/ Transmit
              \/ TxComplete
              \/ FlagWait

SerialSpec == SerialInit /\ [][SerialNext]_serialVars

\* The thread is scheduled, and a transmission comes to its end.
FairSerialSpec ==
    /\ SerialSpec
    /\ WF_serialVars(PushStep /\ UNCHANGED uartVars)
    /\ WF_serialVars(ReadStep /\ UNCHANGED uartVars)
    /\ WF_serialVars(Transmit) /\ WF_serialVars(TxComplete) /\ WF_serialVars(FlagWait)

-----------------------------------------------------------------------------
(* Properties *)

\* Every variable has its type.
SerialTypeOK ==
    /\ TypeOK
    /\ tpc \in {"fifo", "flag"} /\ flag \in BOOLEAN /\ busy \in BOOLEAN
    /\ wire \in Nat

\* The flag tells of this transmission: it is never left over from an earlier
\* one, so the thread does not go on while the DMA is transmitting.
FlagIsCurrent == flag => ~busy /\ tpc = "flag"

\* lineBuf is not written while the DMA reads it.
LineBufStable == [][busy => buf' = buf /\ cSize' = cSize]_serialVars

\* As long as the ring has not been filled, what the DMA transmits continues
\* what has been transmitted: no byte is repeated, skipped or altered.
WireInOrder == ~overrun /\ busy => \A k \in 1..cSize : buf[k] = wire + k

\* Once only the interrupt pushes, and never fills the ring, every byte is
\* transmitted: the thread is never stuck waiting for a flag nobody sets.
AllTransmitted ==
    [](~overrun /\ ppc = "idle") =>
        \A n \in 1..MaxBytes : pushed >= n ~> wire >= n

\* bfifo_wait_avail is to "wait for available data" (blocking_fifo.h): after
\* it the thread has something to transmit and comes back from the flag.
ThreadReturns == [](~overrun) => (tpc = "flag" ~> tpc = "fifo")
=============================================================================
