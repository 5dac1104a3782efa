------------------------------ MODULE HandOff ------------------------------
(***************************************************************************)
(* What the queue of an httpd child promises the listener and the workers: *)
(* a first-in first-out queue of at most Capacity sockets that hands every *)
(* socket to exactly one worker, in the order they were pushed. It holds   *)
(* for as long as the listener respects the precondition of                *)
(* ap_queue_push_socket(): after a push without room sound is FALSE.       *)
(***************************************************************************)
EXTENDS Naturals, Sequences

CONSTANTS Capacity

VARIABLES queue,      \* the sockets in the queue, numbered as they are pushed
          delivered,  \* how many were handed to a worker
          sound

vars == <<queue, delivered, sound>>

Init == queue = <<>> /\ delivered = 0 /\ sound = TRUE

Push ==
    /\ sound
    /\ Len(queue) < Capacity
    /\ queue' = Append(queue, delivered + Len(queue) + 1)
    /\ UNCHANGED <<delivered, sound>>

Pop ==
    /\ sound
    /\ queue # <<>>
    /\ Head(queue) = delivered + 1
    /\ delivered' = delivered + 1
    /\ queue' = Tail(queue)
    /\ UNCHANGED sound

\* A push without room breaks the queue: from here on anything goes.
Overrun == sound /\ Len(queue) = Capacity /\ sound' = FALSE

Broken == ~sound /\ UNCHANGED sound

Next == Push \/ Pop \/ Overrun \/ Broken

Spec == Init /\ [][Next]_vars
=============================================================================
