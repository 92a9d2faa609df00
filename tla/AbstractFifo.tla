----------------------------- MODULE AbstractFifo -----------------------------
(***************************************************************************)
(* What blocking_fifo.c promises its callers: a first-in first-out channel  *)
(* of bytes, as long as it holds fewer than Size of them. Once a push has   *)
(* used the last free slot the promise is void. Byte n of the stream is n.  *)
(***************************************************************************)
EXTENDS Integers, Sequences

CONSTANTS Size, MaxRead, MaxPush

VARIABLES content, \* the bytes pushed and not yet popped, oldest first
          next,    \* the number of the next byte to be pushed
          out,     \* the bytes handed over by a pop, until the caller is done
          void     \* the channel has been filled

absVars == <<content, next, out, void>>

Init == content = <<>> /\ next = 1 /\ out = <<>> /\ void = FALSE

\* A push appends its bytes, all at once, and leaves a slot free.
Put(n) ==
    /\ ~void /\ Len(content) + n < Size
    /\ content' = content \o [k \in 1..n |-> next + k - 1]
    /\ next' = next + n
    /\ UNCHANGED <<out, void>>

\* A pop hands over the n oldest bytes and removes them.
Take(n) ==
    /\ ~void /\ n <= Len(content)
    /\ out' = SubSeq(content, 1, n)
    /\ content' = SubSeq(content, n + 1, Len(content))
    /\ UNCHANGED <<next, void>>

\* The caller asks for more bytes.
Done == ~void /\ out' = <<>> /\ UNCHANGED <<content, next, void>>

\* The channel is filled: nothing is promised from here on.
Fill == void'

Next == \/ \E n \in 1..MaxPush : Put(n)
        \/ \E n \in 1..MaxRead : Take(n)
        \/ Done
        \/ Fill

Spec == Init /\ [][Next]_absVars
=============================================================================
