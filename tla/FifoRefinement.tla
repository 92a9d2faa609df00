---------------------------- MODULE FifoRefinement ----------------------------
(***************************************************************************)
(* blocking_fifo.c implements AbstractFifo: the content of the channel is   *)
(* read off the ring between the two indices, and the bytes handed over are *)
(* those in the consumer's buffer from the store of readIdx until its loop. *)
(***************************************************************************)
EXTENDS BlockingFifo, Sequences

RingContent == [k \in 1..UsedNow |-> mem[Wrap(readIdx + k - 1)]]

HandedOver ==
    IF cpc \in {"popReleaseWrite", "popCompare2", "popRelease", "done"}
    THEN SubSeq(buf, 1, cSize) ELSE <<>>

Channel == INSTANCE AbstractFifo
             WITH content <- IF overrun THEN <<>> ELSE RingContent,
                  next    <- IF overrun THEN 0 ELSE pushed + 1,
                  out     <- IF overrun THEN <<>> ELSE HandedOver,
                  void    <- overrun

\* Every step of the FIFO, its torn reads of the indices included, is a step
\* of the abstract channel or changes nothing of it, until the ring is filled:
\* bytes leave in the order they came, none is lost, doubled or altered.
ImplementsChannel == Channel!Spec
=============================================================================
