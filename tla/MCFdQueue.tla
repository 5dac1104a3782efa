----------------------------- MODULE MCFdQueue -----------------------------
(***************************************************************************)
(* FdQueue on small instances, and its refinement of HandOff: the ring     *)
(* read from out is the queue, and what was pushed and is no longer in it  *)
(* was delivered.                                                          *)
(***************************************************************************)
EXTENDS FdQueue, Sequences

HO == INSTANCE HandOff WITH
        Capacity <- N,
        queue <- [i \in 1 .. nelts |-> data[(out + i - 1) % N]],
        delivered <- pushed - nelts,
        sound <- ~overrun

\* fd_queue_t implements a bounded first-in first-out queue, each socket handed
\* to one worker once, until the listener pushes without room.
ImplementsHandOff == HO!Spec
=============================================================================
