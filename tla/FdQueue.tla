------------------------------ MODULE FdQueue ------------------------------
(***************************************************************************)
(* The hand-off of accepted sockets from the listener thread of an httpd   *)
(* child process to its worker threads: fd_queue_info_t (the count of idle *)
(* workers the listener reserves from) and fd_queue_t (the ring of sockets *)
(* and the list of timer events the workers pop), of                       *)
(* server/mpm_fdqueue.c, with the loops of the threads of                  *)
(* server/mpm/event/event.c that call them.                                *)
(*                                                                         *)
(* A critical section without a wait is one step; an atomic operation      *)
(* outside a mutex is a step of its own, so a worker can be preempted      *)
(* between counting itself idle and signalling the listener.               *)
(***************************************************************************)
EXTENDS Integers, FiniteSets

CONSTANTS Workers,      \* the worker threads of the child
          MaxSockets,   \* bound: sockets the listener pushes
          MaxTimers,    \* bound: timer events the listener pushes
          MaxTerms,     \* bound: calls of ap_queue_info_term()
          MaxSpurious   \* bound: spurious wakeups of the listener

ASSUME WorkersAssumption == IsFiniteSet(Workers) /\ Workers # {}

ASSUME BoundsAssumption ==
    /\ MaxSockets \in Nat /\ MaxTimers \in Nat
    /\ MaxTerms \in Nat /\ MaxSpurious \in Nat

\* threads_per_child, which is also the capacity (bounds) of the queue
N == Cardinality(Workers)

VARIABLES
    idlers,         \* queue_info->idlers - zero_pt
    terminated,     \* queue_info->terminated
    data,           \* queue->data: socket numbers, 0 an unused slot
    in, out, nelts, \* queue->in, queue->out, queue->nelts
    overrun,        \* AP_DEBUG_ASSERT(!ap_queue_full(queue)) has failed
    timers,         \* length of queue->timers
    closed,         \* queue->terminated
    listenerMayExit, workersMayExit,  \* listener_may_exit, workers_may_exit
    lpc,            \* where the listener is
    have,           \* have_idle_worker
    wpc,            \* where each worker is
    sd,             \* the socket each worker popped last
    pushed,         \* sockets pushed so far: the next socket is pushed + 1
    ticks,          \* timer events pushed so far
    terms,          \* calls of ap_queue_info_term() so far
    spurious,       \* spurious wakeups of the listener so far
    strays          \* waits of the listener that no worker ended

ring == <<data, in, out, nelts, overrun>>
lvars == <<lpc, have>>
bounds == <<pushed, ticks, terms, spurious, strays>>
flags == <<listenerMayExit, workersMayExit>>
vars == <<idlers, terminated, ring, timers, closed, flags, lvars, wpc, sd,
          bounds>>

\* The listener has taken an idler off the count and has not returned yet.
Pending == IF lpc \in {"lock", "blocked", "woken"} THEN 1 ELSE 0
Held == IF have THEN 1 ELSE 0
\* A worker counts as idle from ap_queue_info_set_idle() until it has popped
\* a socket; one that exits keeps the count it added.
Idle == {w \in Workers : wpc[w] # "busy"}
\* Counted idle below zero and on the way to signal the listener.
Signalling == {w \in Workers : wpc[w] = "signal"}

ap_queue_full == nelts = N
ap_queue_empty == nelts = 0 /\ timers = 0

\* ap_queue_info_create(), ap_queue_create(); every worker starts not idle.
Init ==
    /\ idlers = 0 /\ terminated = FALSE
    /\ data = [i \in 0 .. N - 1 |-> 0] /\ in = 0 /\ out = 0 /\ nelts = 0
    /\ overrun = FALSE
    /\ timers = 0 /\ closed = FALSE
    /\ listenerMayExit = FALSE /\ workersMayExit = FALSE
    /\ lpc = "run" /\ have = FALSE
    /\ wpc = [w \in Workers |-> "busy"] /\ sd = [w \in Workers |-> 0]
    /\ pushed = 0 /\ ticks = 0 /\ terms = 0 /\ spurious = 0 /\ strays = 0

-----------------------------------------------------------------------------
(* Condition variables *)

\* apr_thread_cond_signal(queue->not_empty): one of the waiting poppers wakes.
SignalNotEmpty ==
    \/ /\ \A w \in Workers : wpc[w] # "wait"
       /\ UNCHANGED wpc
    \/ \E w \in Workers : wpc[w] = "wait" /\ wpc' = [wpc EXCEPT ![w] = "woken"]

\* apr_thread_cond_broadcast(queue->not_empty)
BroadcastNotEmpty ==
    wpc' = [w \in Workers |-> IF wpc[w] = "wait" THEN "woken" ELSE wpc[w]]

-----------------------------------------------------------------------------
(* The listener *)

\* get_worker(blocking = 0) that finds an idler; without one it changes nothing.
ap_queue_info_try_get_idler ==
    /\ lpc = "run" /\ ~have
    /\ idlers > 0
    /\ idlers' = idlers - 1
    /\ have' = TRUE
    /\ UNCHANGED <<terminated, ring, timers, closed, flags, lpc, wpc,
                   sd, bounds>>

\* get_worker(blocking = 1): the decrement that opens
\* ap_queue_info_wait_for_idler(); with no idler left it goes for the mutex.
ap_queue_info_wait_for_idler ==
    /\ lpc = "run" /\ ~have
    /\ idlers' = idlers - 1
    /\ IF idlers > 0 THEN have' = TRUE /\ UNCHANGED lpc
                     ELSE lpc' = "lock" /\ UNCHANGED have
    /\ UNCHANGED <<terminated, ring, timers, closed, flags, wpc, sd,
                   bounds>>

\* Mutant of RecheckIdlers: the listener never blocks.
MutantNoBlock ==
    /\ lpc = "lock" /\ lpc' = "run" /\ have' = TRUE
    /\ UNCHANGED <<idlers, terminated, ring, timers, closed, flags, wpc, sd,
                   bounds>>

\* The re-check under idlers_mutex: block while the count is negative.
RecheckIdlers ==
    /\ lpc = "lock"
    /\ IF idlers < 0 THEN lpc' = "blocked" /\ UNCHANGED have
                     ELSE lpc' = "run" /\ have' = TRUE
    /\ UNCHANGED <<idlers, terminated, ring, timers, closed, flags,
                   wpc, sd, bounds>>

\* Mutant of ReturnFromWait: APR_EOF backs out the decrement.
MutantBackOut ==
    /\ lpc = "woken" /\ lpc' = "run" /\ have' = TRUE
    /\ idlers' = IF terminated THEN idlers + 1 ELSE idlers
    /\ UNCHANGED <<terminated, ring, timers, closed, flags, wpc, sd, bounds>>

\* The wait is over: APR_SUCCESS and, once terminated, APR_EOF both leave the
\* listener with a reserved worker; the count is not looked at again.
ReturnFromWait ==
    /\ lpc = "woken"
    /\ lpc' = "run" /\ have' = TRUE
    /\ UNCHANGED <<idlers, terminated, ring, timers, closed, flags,
                   wpc, sd, bounds>>

\* Write the next socket at slot and go on at next.
PushAt(slot, next) ==
    /\ lpc = "run" /\ have
    /\ pushed < MaxSockets
    /\ pushed' = pushed + 1
    /\ data' = [data EXCEPT ![slot] = pushed + 1]
    /\ in' = next
    /\ nelts' = nelts + 1
    /\ overrun' = (overrun \/ ap_queue_full)
    /\ SignalNotEmpty
    /\ have' = FALSE
    /\ UNCHANGED <<idlers, terminated, out, timers, closed, flags, lpc, sd,
                   ticks, terms, spurious, strays>>

wrap(i) == IF i >= N THEN i - N ELSE i

\* Mutants of ap_queue_push_socket: no wrap; increment before the write.
MutantNoWrap == PushAt(in, in + 1)
MutantPreIncrement == PushAt(wrap(in + 1), wrap(in + 1))

\* push2worker() with a reserved worker. The slot is written whether or not
\* the ring is full: the test for it is an assertion of debug builds.
ap_queue_push_socket == PushAt(in, wrap(in + 1))

\* Mutant of ap_queue_push_timer: no signal.
MutantNoSignal ==
    /\ lpc = "run" /\ ticks < MaxTimers
    /\ ticks' = ticks + 1 /\ timers' = timers + 1
    /\ UNCHANGED <<idlers, terminated, ring, closed, flags, lvars, wpc, sd,
                   pushed, terms, spurious, strays>>

\* push_timer2worker(): a timer event needs no reserved worker.
ap_queue_push_timer ==
    /\ lpc = "run"
    /\ ticks < MaxTimers
    /\ ticks' = ticks + 1
    /\ timers' = timers + 1
    /\ SignalNotEmpty
    /\ UNCHANGED <<idlers, terminated, ring, closed, flags, lvars, sd,
                   pushed, terms, spurious, strays>>

\* Mutant of ap_queue_term: one waiting worker is woken, not all.
MutantTermOne ==
    /\ lpc = "run" /\ listenerMayExit
    /\ closed' = TRUE /\ SignalNotEmpty /\ lpc' = "exit"
    /\ UNCHANGED <<idlers, terminated, ring, timers, flags, have, sd, bounds>>

\* The listener leaves its loop: ap_queue_term(), then the thread exits.
ap_queue_term ==
    /\ lpc = "run"
    /\ listenerMayExit
    /\ closed' = TRUE
    /\ BroadcastNotEmpty
    /\ lpc' = "exit"
    /\ UNCHANGED <<idlers, terminated, ring, timers, flags, have, sd,
                   bounds>>

-----------------------------------------------------------------------------
(* The workers *)

\* The worker counts itself idle; if signal holds it goes on to signal.
SetIdle(w, signal) ==
    /\ wpc[w] = "busy"
    /\ idlers' = idlers + 1
    /\ wpc' = [wpc EXCEPT ![w] = IF signal THEN "signal" ELSE "check"]
    /\ UNCHANGED <<terminated, ring, timers, closed, flags, lvars, sd, bounds>>

\* Mutant of ap_queue_info_set_idle: the count is tested after the increment.
MutantTestAfter(w) == SetIdle(w, idlers + 1 < 0)

\* The worker is done with its socket, or just started: it counts itself idle,
\* and signals only if the count was negative.
ap_queue_info_set_idle(w) == SetIdle(w, idlers < 0)

\* apr_thread_cond_signal(wait_for_idler) under idlers_mutex
SignalIdler(w) ==
    /\ wpc[w] = "signal"
    /\ wpc' = [wpc EXCEPT ![w] = "check"]
    /\ lpc' = IF lpc = "blocked" THEN "woken" ELSE lpc
    /\ UNCHANGED <<idlers, terminated, ring, timers, closed, flags,
                   have, sd, bounds>>

\* worker_pop: the test of workers_may_exit, made before the queue is locked
CheckMayExit(w) ==
    /\ wpc[w] = "check"
    /\ wpc' = [wpc EXCEPT ![w] = IF workersMayExit THEN "exit" ELSE "pop"]
    /\ UNCHANGED <<idlers, terminated, ring, timers, closed, flags, lvars, sd,
                   bounds>>

\* ... and, in a dying child, of worker_thread_should_exit_early(), whose count
\* of connections is not modelled here: it may hold whenever the child is dying.
ExitEarly(w) ==
    /\ wpc[w] = "check"
    /\ listenerMayExit
    /\ wpc' = [wpc EXCEPT ![w] = "early"]
    /\ UNCHANGED <<idlers, terminated, ring, timers, closed, flags, lvars, sd,
                   bounds>>

\* The tail of ap_queue_pop_something(): timers first, then the oldest socket.
Take(w) ==
    IF timers > 0
    THEN /\ timers' = timers - 1
         /\ wpc' = [wpc EXCEPT ![w] = "timer"]
         /\ UNCHANGED <<ring, sd>>
    ELSE /\ sd' = [sd EXCEPT ![w] = data[out]]
         /\ out' = wrap(out + 1)
         /\ nelts' = nelts - 1
         /\ wpc' = [wpc EXCEPT ![w] = "busy"]
         /\ UNCHANGED <<data, in, overrun, timers>>

\* Mutant of ap_queue_pop_something: a closed queue is not drained.
MutantNoDrain(w) ==
    /\ wpc[w] = "pop"
    /\ IF closed \/ ap_queue_empty
       THEN /\ wpc' = [wpc EXCEPT ![w] = IF closed THEN "eof" ELSE "wait"]
            /\ UNCHANGED <<ring, timers, sd>>
       ELSE Take(w)
    /\ UNCHANGED <<idlers, terminated, closed, flags, lvars, bounds>>

\* ap_queue_pop_something() up to its wait
ap_queue_pop_something(w) ==
    /\ wpc[w] = "pop"
    /\ IF ap_queue_empty
       THEN /\ wpc' = [wpc EXCEPT ![w] = IF closed THEN "eof" ELSE "wait"]
            /\ UNCHANGED <<ring, timers, sd>>
       ELSE Take(w)
    /\ UNCHANGED <<idlers, terminated, closed, flags, lvars, bounds>>

\* ... and after it: still empty is APR_EOF once closed, else APR_EINTR.
ReturnFromPop(w) ==
    /\ wpc[w] = "woken"
    /\ IF ap_queue_empty
       THEN /\ wpc' = [wpc EXCEPT ![w] = IF closed THEN "eof" ELSE "check"]
            /\ UNCHANGED <<ring, timers, sd>>
       ELSE Take(w)
    /\ UNCHANGED <<idlers, terminated, closed, flags, lvars, bounds>>

\* te->cbfunc(te->baton) has run; the worker stayed idle all along.
TimerDone(w) ==
    /\ wpc[w] = "timer"
    /\ wpc' = [wpc EXCEPT ![w] = "check"]
    /\ UNCHANGED <<idlers, terminated, ring, timers, closed, flags,
                   lvars, sd, bounds>>

-----------------------------------------------------------------------------
(* Shutdown, from the main thread or any thread that calls signal_threads() *)

\* wakeup_listener(): by signal_threads(), and again by join_workers() for as
\* long as the listener has not noticed. The flag is set first ...
wakeup_listener ==
    /\ ~listenerMayExit
    /\ listenerMayExit' = TRUE
    /\ UNCHANGED <<idlers, terminated, ring, timers, closed, workersMayExit,
                   lvars, wpc, sd, bounds>>

\* ... then a listener waiting for a worker is woken.
ap_queue_info_term ==
    /\ listenerMayExit
    /\ terms < MaxTerms
    /\ terms' = terms + 1
    /\ terminated' = TRUE
    /\ IF lpc = "blocked" THEN lpc' = "woken" /\ strays' = strays + 1
                          ELSE UNCHANGED <<lpc, strays>>
    /\ UNCHANGED <<idlers, ring, timers, closed, flags, have, wpc, sd, pushed,
                   ticks, spurious>>

\* The rest of signal_threads(ST_UNGRACEFUL): workers_may_exit is set
LetWorkersExit ==
    /\ terminated
    /\ ~workersMayExit
    /\ workersMayExit' = TRUE
    /\ UNCHANGED <<idlers, terminated, ring, timers, closed, listenerMayExit,
                   lvars, wpc, sd, bounds>>

\* ap_queue_interrupt_all(): the rest of signal_threads(ST_UNGRACEFUL), and
\* close_listeners() of the listener; a closed queue is left alone.
ap_queue_interrupt_all ==
    /\ listenerMayExit
    /\ ~closed
    /\ BroadcastNotEmpty
    /\ UNCHANGED <<idlers, terminated, ring, timers, closed, flags,
                   lvars, sd, bounds>>

\* ap_queue_interrupt_one(), of decrement_connection_count() in a dying child
ap_queue_interrupt_one ==
    /\ listenerMayExit
    /\ ~closed
    /\ SignalNotEmpty
    /\ UNCHANGED <<idlers, terminated, ring, timers, closed, flags,
                   lvars, sd, bounds>>

-----------------------------------------------------------------------------
(* apr_thread_cond_wait() may return without a signal *)

SpuriousIdler ==
    /\ lpc = "blocked"
    /\ spurious < MaxSpurious
    /\ spurious' = spurious + 1 /\ strays' = strays + 1
    /\ lpc' = "woken"
    /\ UNCHANGED <<idlers, terminated, ring, timers, closed, flags, have, wpc,
                   sd, pushed, ticks, terms>>

SpuriousNotEmpty(w) ==
    /\ wpc[w] = "wait"
    /\ wpc' = [wpc EXCEPT ![w] = "woken"]
    /\ UNCHANGED <<idlers, terminated, ring, timers, closed, flags, lvars, sd,
                   bounds>>

-----------------------------------------------------------------------------
Listener ==
    \/ ap_queue_info_try_get_idler
    \/ ap_queue_info_wait_for_idler
    \/ RecheckIdlers
    \/ ReturnFromWait
    \/ ap_queue_push_socket
    \/ ap_queue_push_timer
    \/ ap_queue_term

Worker(w) ==
    \/ ap_queue_info_set_idle(w)
    \/ SignalIdler(w)
    \/ CheckMayExit(w)
    \/ ExitEarly(w)
    \/ ap_queue_pop_something(w)
    \/ ReturnFromPop(w)
    \/ TimerDone(w)

Main ==
    \/ wakeup_listener
    \/ ap_queue_info_term
    \/ LetWorkersExit
    \/ ap_queue_interrupt_all
    \/ ap_queue_interrupt_one

Spurious == SpuriousIdler \/ \E w \in Workers : SpuriousNotEmpty(w)

Next == Listener \/ (\E w \in Workers : Worker(w)) \/ Main \/ Spurious

\* Every worker thread keeps running and finishes what it processes, and the
\* listener makes its way out of a wait that was ended.
Fairness ==
    /\ \A w \in Workers : WF_vars(Worker(w))
    /\ WF_vars(RecheckIdlers \/ ReturnFromWait)

Spec == Init /\ [][Next]_vars

FairSpec == Spec /\ Fairness
-----------------------------------------------------------------------------
(* Properties *)

FlagTypes ==
    /\ terminated \in BOOLEAN /\ closed \in BOOLEAN
    /\ listenerMayExit \in BOOLEAN /\ workersMayExit \in BOOLEAN
    /\ have \in BOOLEAN /\ overrun \in BOOLEAN

\* Every variable has its type; in and out stay inside the ring.
TypeOK ==
    /\ FlagTypes
    /\ idlers \in Int
    /\ data \in [0 .. N - 1 -> Nat]
    /\ in \in 0 .. N - 1 /\ out \in 0 .. N - 1
    /\ nelts \in Nat /\ timers \in Nat
    /\ lpc \in {"run", "lock", "blocked", "woken", "exit"}
    /\ wpc \in [Workers -> {"busy", "signal", "check", "pop", "wait", "woken",
                           "timer", "exit", "early", "eof"}]
    /\ sd \in [Workers -> Nat]
    /\ pushed \in Nat /\ ticks \in Nat /\ terms \in Nat
    /\ spurious \in Nat /\ strays \in Nat

\* The count of idle workers, which no lock protects, always equals the workers
\* that announced themselves idle less the sockets queued for them, less the
\* worker the listener holds reserved and the one it is asking for.
IdlersAccount == idlers = Cardinality(Idle) - nelts - Held - Pending

\* How far reservations can outrun idle workers. The listener does not look
\* at the count again when it is woken, so a signal that comes late, the
\* broadcast of ap_queue_info_term() or a spurious wakeup lets it reserve a
\* worker that is not idle; every worker owes at most one late signal.
OverrunBound == nelts + Held <= 2 * N + strays

\* APR_EOF of ap_queue_pop_something() means "no more elements ever again":
\* once a worker has seen it the queue is closed, and empty for good.
EofMeansDrained ==
    (\E w \in Workers : wpc[w] = "eof") => closed /\ ap_queue_empty

\* What AP_DEBUG_ASSERT(!ap_queue_full(queue)) in ap_queue_push_socket() says:
\* a listener that has reserved a worker finds room in the ring.
ReservedMeansRoom == ~overrun

\* Workers are leaving before the queue is drained, as they do when the child
\* is shut down ungracefully, or is dying with few connections left.
Leaving == workersMayExit \/ \E w \in Workers : wpc[w] = "early"

\* A listener blocked in ap_queue_info_wait_for_idler() goes on: the signal of
\* a worker that becomes idle is not lost.
ListenerUnblocks == lpc = "blocked" ~> lpc # "blocked" \/ Leaving

\* Whatever is queued is popped: no wakeup of a worker is lost.
QueueDrains == ~ap_queue_empty ~> ap_queue_empty \/ Leaving

\* When the listener has closed the queue, every worker leaves its loop, also
\* one that passed the test of workers_may_exit just before it was set.
WorkersExit ==
    closed ~> \A w \in Workers : wpc[w] \in {"exit", "early", "eof"}
=============================================================================
