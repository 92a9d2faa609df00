----------------------------- MODULE IccRefinement -----------------------------
(***************************************************************************)
(* With a single sender the ring of icc_queue.c is the channel of           *)
(* AbstractFifo, one byte put and one taken at a time; unlike the blocking  *)
(* FIFO it keeps a slot free by itself and so never voids the promise.      *)
(***************************************************************************)
EXTENDS IccPipe, Sequences

Channel == INSTANCE AbstractFifo
             WITH Size    <- Length, MaxRead <- 1, MaxPush <- 1,
                  content <- [k \in 1..AvailNow |-> elements[(readIdx + k - 1) % Length]],
                  next    <- pushed + 1,
                  out     <- IF rpc = "deliver" THEN <<c>> ELSE <<>>,
                  void    <- FALSE

\* Every step of the cores is a put, a take or nothing of the channel, and no
\* push ever overruns it.
ImplementsChannel == Channel!Spec
=============================================================================
