---------------------------- MODULE EventChild ----------------------------
(***************************************************************************)
(* A child process of the event MPM (server/mpm/event/event.c): the life   *)
(* of its connections between the listener thread, the worker threads, the *)
(* timeout queues, the chain of deferred closes and the modules that       *)
(* suspend them; the counters kept on the way; the listening sockets being *)
(* disabled and enabled again; and the end of the child, graceful or not.  *)
(*                                                                         *)
(* The hand-off to the workers is kept to what the callers see (a FIFO and *)
(* the count of idle workers; its races are those of FdQueue), the chain   *)
(* of deferred closes to a set (PoolStacks has its links). The timeout     *)
(* queues are one set, the state of a connection tells in which it is.     *)
(* Time is abstract: what is in a queue can expire at any moment.          *)
(***************************************************************************)
EXTENDS Integers, Sequences, FiniteSets, FiniteSetsExt

CONSTANTS
    Conns,        \* the clients: each one connects at most once
    Workers,      \* the worker threads
    Null,         \* no connection
    Accept,       \* the listening socket, as an event of the pollset
    Factor,       \* worker_factor / WORKER_FACTOR_SCALE
    MaxConns,     \* MaxConnectionsPerChild, 0 for no limit
    Modes,        \* how the parent may stop the child: 1 graceful, 2 not
    Outcomes,     \* what the process_connection hooks may ask for
    Wakeable,     \* listener_is_wakeable
    Failures      \* BOOLEAN: system calls on the way may fail

ASSUME ConstantsAssumption ==
    /\ IsFiniteSet(Conns) /\ IsFiniteSet(Workers) /\ Workers # {}
    /\ Null \notin Conns /\ Accept \notin Conns /\ Accept # Null
    /\ Factor \in Nat /\ MaxConns \in Nat
    /\ Modes \subseteq {1, 2}
    /\ Outcomes \subseteq {"LINGER", "WAITIO", "WRITE", "SUSPENDED"}
    /\ Wakeable \in BOOLEAN /\ Failures \in BOOLEAN

N == Cardinality(Workers)    \* threads_per_child

VARIABLES
    st,           \* pub.state of each connection, and its life before and after
    started, deferred,  \* linger_started, deferred_linger: sets of connections
    queue,        \* worker_queue: connections, or Null for a deferred close
    polled,       \* connections in a timeout queue and in the pollset
    chain,        \* defer_linger_chain
    idlers,       \* worker_queue_info->idlers - zero_pt
    connection_count, lingering_count, suspended_count,
    threads_shutdown,
    listener_may_exit, workers_may_exit, dying,
    terminate_mode,     \* 0 ST_INIT, 1 ST_GRACEFUL, 2 ST_UNGRACEFUL
    disabled,     \* listensocks_disabled
    listening,    \* the listening sockets are in the pollset
    expiry,       \* queues_next_expiry is set
    wake,         \* apr_pollset_wakeup() has been called since the last poll
    terminated,   \* worker_queue->terminated
    lpc, batch, lcur,   \* where the listener is, polled events left, this one
    have, busy,   \* have_idle_worker, workers_were_busy
    wpc, cur,     \* where each worker is, its connection
    seen,         \* the value of threads_shutdown it has read
    mpc           \* where the main thread is

conn == <<st, started, deferred>>
counts == <<connection_count, lingering_count, suspended_count>>
flags == <<listener_may_exit, workers_may_exit, dying, terminate_mode>>
lvars == <<lpc, batch, lcur, have, busy>>
wvars == <<wpc, cur, seen>>
vars == <<conn, queue, polled, chain, idlers, counts, threads_shutdown, flags,
          disabled, listening, expiry, wake, terminated, lvars, wvars, mpc>>

Lingering == {"LINGER", "LINGER_WAIT"}
\* Connections with a conn_rec, registered with decrement_connection_count()
Live == {c \in Conns : st[c] \notin {"backlog", "accepted", "closed"}}
Backlog == {c \in Conns : st[c] = "backlog"}
KeptAlive == {c \in polled : st[c] = "KEEPALIVE"}

\* setup_threads_runtime() has put the listening sockets into the pollset.
Init ==
    /\ st = [c \in Conns |-> "backlog"] /\ started = {} /\ deferred = {}
    /\ queue = <<>> /\ polled = {} /\ chain = {}
    /\ idlers = 0
    /\ connection_count = 0 /\ lingering_count = 0 /\ suspended_count = 0
    /\ threads_shutdown = 0
    /\ listener_may_exit = FALSE /\ workers_may_exit = FALSE /\ dying = FALSE
    /\ terminate_mode = 0
    /\ disabled = FALSE /\ listening = TRUE
    /\ expiry = FALSE /\ wake = FALSE /\ terminated = FALSE
    /\ lpc = "top" /\ batch = {} /\ lcur = Null /\ have = FALSE /\ busy = FALSE
    /\ wpc = [w \in Workers |-> "start"] /\ cur = [w \in Workers |-> Null]
    /\ seen = [w \in Workers |-> 0]
    /\ mpc = "pod"
-----------------------------------------------------------------------------
(* Shared helpers *)

\* connections_above_limit(), with i idlers (a negative count reads as none),
\* c connections, l of them lingering, and d if the sockets are disabled
connections_above_limit(i, c, l, d) ==
    ~ /\ i > 0
      /\ \/ c <= l
         \/ c - l < N + (i - (IF d THEN 1 ELSE 0)) * Factor

AboveLimit ==
    connections_above_limit(idlers, connection_count, lingering_count, disabled)

should_enable_listensocks == ~dying /\ disabled /\ ~AboveLimit

\* apr_thread_cond_signal() and apr_thread_cond_broadcast() of the queue
SignalWorker(pc) ==
    IF \E w \in Workers : pc[w] = "wait"
    THEN \E w \in Workers :
            pc[w] = "wait" /\ wpc' = [pc EXCEPT ![w] = "woken"]
    ELSE wpc' = pc
Interrupted(pc) == [w \in Workers |-> IF pc[w] = "wait" THEN "woken" ELSE pc[w]]


\* TO_QUEUE_APPEND() and apr_pollset_add(), under timeout_mutex. The listener
\* is woken up if nothing was due before; a later deadline is not news to it.
Append2Poll(c) ==
    /\ polled' = polled \union {c}
    /\ expiry' = TRUE
    /\ wake' = (wake \/ (Wakeable /\ ~expiry))

\* wakeup_listener(): the listening sockets leave the pollset, the listener
\* leaves poll() or its wait for a worker.
wakeup_listener ==
    /\ listener_may_exit' = TRUE
    /\ disabled' = TRUE
    /\ listening' = (listening /\ disabled)
    /\ wake' = (wake \/ Wakeable)

\* ap_queue_info_term() makes a listener that waits for a worker go on.
TermIdlers == IF lpc = "wait" THEN lpc' = "push" /\ have' = TRUE
                              ELSE UNCHANGED <<lpc, have>>

\* signal_threads(ST_GRACEFUL) from the listener or a worker, but for the
\* waiting listener
SignalGraceful ==
    IF terminate_mode >= 1
    THEN UNCHANGED <<terminate_mode, listener_may_exit, disabled, listening,
                     wake>>
    ELSE terminate_mode' = 1 /\ wakeup_listener
-----------------------------------------------------------------------------
(* The listener *)

UnchangedByListener == UNCHANGED <<terminated, threads_shutdown, cur, seen, mpc>>

\* The top of the loop; conns_this_child is what is left of MaxConns.
LoopTop ==
    /\ lpc = "top"
    /\ IF /\ MaxConns > 0 /\ Cardinality(Conns \ Backlog) >= MaxConns
          /\ terminate_mode = 0
       THEN SignalGraceful /\ UNCHANGED lpc
       ELSE /\ lpc' = IF listener_may_exit THEN "close" ELSE "poll"
            /\ UNCHANGED <<terminate_mode, listener_may_exit, disabled,
                           listening, wake>>
    /\ UNCHANGED <<conn, queue, polled, chain, idlers, counts, workers_may_exit,
                   dying, expiry, batch, lcur, have, busy, wpc>>
    /\ UnchangedByListener

\* close_listeners(), the first time: the child is dying from here on.
close_listeners ==
    /\ lpc = "close"
    /\ dying' = TRUE
    /\ listening' = FALSE
    /\ wpc' = IF dying \/ terminated THEN wpc ELSE Interrupted(wpc)
    /\ lpc' = IF dying THEN "closed" ELSE "firstclosed"
    /\ UNCHANGED <<conn, queue, polled, chain, idlers, counts,
                   listener_may_exit, workers_may_exit, terminate_mode,
                   disabled, expiry, wake, batch, lcur, have, busy>>
    /\ UnchangedByListener

\* The listener leaves its loop when no connection is left.
BreakOut ==
    /\ lpc \in {"closed", "firstclosed"}
    /\ lpc' = CASE terminate_mode = 2 \/ connection_count = 0 -> "term"
                [] lpc = "firstclosed" -> "firstmaint"
                [] OTHER -> "poll"
    /\ UNCHANGED <<conn, queue, polled, chain, idlers, counts, flags, disabled,
                   listening, expiry, wake, batch, lcur, have, busy,
                   wpc>>
    /\ UnchangedByListener

\* apr_pollset_poll(): it returns for events, when it is woken up, or when the
\* next entry of a timeout queue is due.
Poll ==
    /\ lpc = "poll"
    /\ \E b \in SUBSET (polled \union
                        (IF listening /\ Backlog # {} THEN {Accept} ELSE {})) :
          /\ b # {} \/ wake \/ expiry \/ ~Wakeable
          /\ batch' = b
    /\ wake' = FALSE
    /\ lpc' = "events"
    /\ UNCHANGED <<conn, queue, polled, chain, idlers, counts, flags, disabled,
                   listening, expiry, lcur, have, busy, wpc>>
    /\ UnchangedByListener

PollFails ==
    /\ lpc = "poll" /\ Failures
    /\ SignalGraceful
    /\ lpc' = "events"
    /\ UNCHANGED <<conn, queue, polled, chain, idlers, counts, workers_may_exit,
                   dying, expiry, batch, lcur, have, busy, wpc>>
    /\ UnchangedByListener

\* Mutant: the connection stays in the pollset.
MutantStillPolled(c) ==
    /\ lpc = "events" /\ c \in batch \ {Accept}
    /\ batch' = batch \ {c}
    /\ lcur' = c
    /\ UNCHANGED polled
    /\ st' = [st EXCEPT ![c] =
                 IF @ \in {"WAITIO", "KEEPALIVE"} THEN "PROCESSING" ELSE @]
    /\ lpc' = IF st[c] \in {"WRITE", "WAITIO"} THEN "block" ELSE "try"
    /\ UNCHANGED <<started, deferred, queue, chain, idlers, counts, flags,
                   disabled, listening, expiry, wake, have, busy, wpc>>
    /\ UnchangedByListener

\* A connection is ready: it leaves its timeout queue and the pollset. Only
\* WRITE and WAITIO wait for a worker.
ConnReady(c) ==
    /\ lpc = "events" /\ c \in batch \ {Accept}
    /\ batch' = batch \ {c}
    /\ lcur' = c
    /\ polled' = polled \ {c}
    /\ st' = [st EXCEPT ![c] =
                 IF @ \in {"WAITIO", "KEEPALIVE"} THEN "PROCESSING" ELSE @]
    /\ lpc' = IF st[c] \in {"WRITE", "WAITIO"} THEN "block" ELSE "try"
    /\ UNCHANGED <<started, deferred, queue, chain, idlers, counts, flags,
                   disabled, listening, expiry, wake, have, busy, wpc>>
    /\ UnchangedByListener

\* A listening socket is ready: it is not accepted from when the workers are
\* busy, above the limit, or once the listener may exit.
AcceptReady ==
    /\ lpc = "events" /\ Accept \in batch
    /\ batch' = batch \ {Accept}
    /\ lpc' = CASE disabled -> "events"
                [] busy \/ AboveLimit -> "disable"
                [] listener_may_exit -> "events"
                [] OTHER -> "block"
    /\ busy' = (busy \/ (~disabled /\ idlers <= 0))
    /\ lcur' = IF lpc' = "block" THEN Accept ELSE Null
    /\ UNCHANGED <<conn, queue, polled, chain, idlers, counts, flags, disabled,
                   listening, expiry, wake, have, wpc>>
    /\ UnchangedByListener

\* No pool for the new connection: the child stops.
PoolFails ==
    /\ lpc = "events" /\ Accept \in batch /\ Failures
    /\ ~disabled /\ ~busy /\ ~AboveLimit /\ ~listener_may_exit
    /\ batch' = batch \ {Accept}
    /\ SignalGraceful
    /\ UNCHANGED <<conn, queue, polled, chain, idlers, counts, workers_may_exit,
                   dying, expiry, lpc, lcur, have, busy, wpc>>
    /\ UnchangedByListener

disable_listensocks ==
    /\ lpc = "disable"
    /\ disabled' = TRUE
    /\ listening' = (listening /\ disabled)
    /\ lpc' = "events"
    /\ UNCHANGED <<conn, queue, polled, chain, idlers, counts, flags, expiry,
                   wake, batch, lcur, have, busy, wpc>>
    /\ UnchangedByListener

\* The end of decrement_connection_count(), for n connections that leave c
\* connections, l of them lingering: the listener is woken up if it may exit or
\* enable its sockets, and n workers if they may exit early.
NotifyClosed(n, c, l) ==
    LET waiting == {w \in Workers : wpc[w] = "wait"}
        k == IF dying /\ ~terminated THEN Min({n, Cardinality(waiting)}) ELSE 0
    IN  /\ wake' = \/ wake
                   \/ /\ Wakeable /\ n > 0
                      /\ \/ c = 0 /\ listener_may_exit
                         \/ /\ ~dying /\ disabled
                            /\ ~connections_above_limit(idlers, c, l, disabled)
        /\ \E W \in kSubset(k, waiting) :
              wpc' = [w \in Workers |-> IF w \in W THEN "woken" ELSE wpc[w]]

\* shutdown_connection() of every connection of T: one in lingering close is
\* closed; the others go to the chain with defer_lingering_close().
shutdown_connection(T) ==
    LET gone == {c \in T : st[c] \in Lingering}
        kept == T \ gone
    IN  /\ st' = [c \in Conns |-> IF c \in gone THEN "closed"
                                  ELSE IF c \in kept THEN "LINGER" ELSE st[c]]
        /\ deferred' = deferred \union kept
        /\ chain' = chain \union kept
        /\ lingering_count' =
              lingering_count + Cardinality(kept) - Cardinality(gone)
        /\ connection_count' = connection_count - Cardinality(gone)
        /\ NotifyClosed(Cardinality(gone), connection_count', lingering_count')
        /\ UNCHANGED <<started, suspended_count>>

\* get_worker(blocking = 0) and push2worker(), or shutdown_connection()
TryWorker ==
    /\ lpc = "try"
    /\ lpc' = "events"
    /\ IF have \/ idlers > 0
       THEN /\ queue' = Append(queue, lcur)
            /\ idlers' = IF have THEN idlers ELSE idlers - 1
            /\ have' = FALSE
            /\ SignalWorker(wpc)
            /\ UNCHANGED <<conn, chain, counts, wake, busy>>
       ELSE /\ busy' = TRUE
            /\ shutdown_connection({lcur})
            /\ UNCHANGED <<queue, idlers, have>>
    /\ lcur' = Null
    /\ UNCHANGED <<polled, flags, disabled, listening, expiry, batch>>
    /\ UnchangedByListener

\* get_worker(blocking = 1): the listener waits until a worker becomes idle or
\* ap_queue_info_term() is called.
BlockForWorker ==
    /\ lpc = "block"
    /\ IF have \/ idlers > 0
       THEN lpc' = "push" /\ have' = TRUE /\ UNCHANGED busy
       ELSE lpc' = "wait" /\ busy' = TRUE /\ UNCHANGED have
    /\ idlers' = IF have THEN idlers ELSE idlers - 1
    /\ UNCHANGED <<conn, queue, polled, chain, counts, flags, disabled,
                   listening, expiry, wake, batch, lcur, wpc>>
    /\ UnchangedByListener

\* push2worker() of a connection
PushConn ==
    /\ lpc = "push" /\ lcur # Accept
    /\ queue' = Append(queue, lcur)
    /\ SignalWorker(wpc)
    /\ lpc' = "events" /\ have' = FALSE /\ lcur' = Null
    /\ UNCHANGED <<conn, polled, chain, idlers, counts, flags, disabled,
                   listening, expiry, wake, batch, busy>>
    /\ UnchangedByListener

\* accept_func() and push2worker() of the new socket; the worker stays reserved
\* when nothing was accepted.
AcceptConn ==
    /\ lpc = "push" /\ lcur = Accept
    /\ \/ \E c \in Backlog :
            /\ st' = [st EXCEPT ![c] = "accepted"]
            /\ queue' = Append(queue, c)
            /\ SignalWorker(wpc)
            /\ have' = FALSE
            /\ UNCHANGED <<terminate_mode, listener_may_exit, disabled,
                           listening, wake>>
       \/ /\ Failures
          /\ SignalGraceful
          /\ UNCHANGED <<st, queue, wpc, have>>
       \/ /\ Failures \/ Backlog = {}
          /\ UNCHANGED <<st, queue, wpc, have, terminate_mode,
                         listener_may_exit, disabled, listening, wake>>
    /\ lpc' = "events" /\ lcur' = Null
    /\ UNCHANGED <<started, deferred, polled, chain, idlers, counts,
                   workers_may_exit, dying, expiry, batch, busy>>
    /\ UnchangedByListener

\* The maintenance of the timeout queues: when something is due, and when the
\* child has just started dying, what has expired is shut down, and all that is
\* kept alive if the workers are busy or the child is dying.
Maintain ==
    /\ lpc = "firstmaint" \/ (lpc = "events" /\ batch = {})
    /\ \/ /\ expiry \/ lpc = "firstmaint"
          /\ \E T \in SUBSET polled :
                /\ (busy \/ dying) => KeptAlive \subseteq T
                /\ polled' = polled \ T
                /\ expiry' = (polled # T)
                /\ shutdown_connection(T)
       \/ /\ lpc = "events"
          /\ LET T == IF busy \/ dying THEN KeptAlive ELSE {}
             IN  polled' = polled \ T /\ shutdown_connection(T)
          /\ UNCHANGED expiry
    /\ lpc' = "defer"
    /\ UNCHANGED <<queue, idlers, flags, disabled, listening, batch, lcur, have,
                   busy>>
    /\ UnchangedByListener

\* Mutant: the workers are left to find the deferred closes.
MutantNoSchedule ==
    /\ lpc = "defer"
    /\ busy' = (busy \/ chain # {})
    /\ lpc' = "enable"
    /\ UNCHANGED <<conn, queue, polled, chain, idlers, counts, flags, disabled,
                   listening, expiry, wake, batch, lcur, have, wpc>>
    /\ UnchangedByListener

\* If closes are deferred, get_worker(blocking = 0) ...
ScheduleDeferred ==
    /\ lpc = "defer"
    /\ LET idle == chain # {} /\ (have \/ idlers > 0)
       IN  /\ lpc' = IF idle THEN "tell" ELSE "enable"
           /\ have' = (have \/ idle)
           /\ idlers' = IF idle /\ ~have THEN idlers - 1 ELSE idlers
           /\ busy' = (busy \/ (chain # {} /\ ~idle))
    /\ UNCHANGED <<conn, queue, polled, chain, counts, flags, disabled,
                   listening, expiry, wake, batch, lcur, wpc>>
    /\ UnchangedByListener

\* ... and if they still are, push2worker() of nothing; the worker stays
\* reserved otherwise.
TellWorker ==
    /\ lpc = "tell"
    /\ IF chain = {}
       THEN UNCHANGED <<queue, have, wpc>>
       ELSE queue' = Append(queue, Null) /\ have' = FALSE /\ SignalWorker(wpc)
    /\ lpc' = "enable"
    /\ UNCHANGED <<conn, polled, chain, idlers, counts, flags, disabled,
                   listening, expiry, wake, batch, lcur, busy>>
    /\ UnchangedByListener


\* should_enable_listensocks() and the test of listener_may_exit ...
TestEnable ==
    /\ lpc = "enable"
    /\ lpc' = IF ~busy /\ should_enable_listensocks /\ ~listener_may_exit
              THEN "enabling" ELSE "top"
    /\ busy' = FALSE
    /\ UNCHANGED <<conn, queue, polled, chain, idlers, counts, flags, disabled,
                   listening, expiry, wake, batch, lcur, have, wpc>>
    /\ UnchangedByListener

\* ... then the listening sockets go back into the pollset.
enable_listensocks ==
    /\ lpc = "enabling"
    /\ disabled' = FALSE /\ listening' = TRUE
    /\ lpc' = "top"
    /\ UNCHANGED <<conn, queue, polled, chain, idlers, counts, flags, expiry,
                   wake, batch, lcur, have, busy, wpc>>
    /\ UnchangedByListener


\* ap_queue_term(), and the listener thread exits.
ListenerExit ==
    /\ lpc = "term"
    /\ terminated' = TRUE
    /\ wpc' = Interrupted(wpc)
    /\ lpc' = "exit"
    /\ UNCHANGED <<conn, queue, polled, chain, idlers, counts, threads_shutdown,
                   flags, disabled, listening, expiry, wake, batch, lcur, have,
                   busy, cur, seen, mpc>>
-----------------------------------------------------------------------------
(* The workers *)

UnchangedByWorker == UNCHANGED <<workers_may_exit, dying, batch, lcur, busy, mpc>>
NoListenerStep == UNCHANGED <<lpc, have>>
NoSignal == UNCHANGED <<terminate_mode, listener_may_exit, disabled, listening>>

\* ap_queue_info_set_idle(): a listener that waits for a worker goes on.
ap_queue_info_set_idle(w) ==
    /\ wpc[w] = "start"
    /\ idlers' = idlers + 1
    /\ IF idlers < 0 /\ lpc = "wait" THEN lpc' = "push" /\ have' = TRUE
                                     ELSE NoListenerStep
    /\ wpc' = [wpc EXCEPT ![w] = "idle"]
    /\ UNCHANGED <<conn, queue, polled, chain, counts, threads_shutdown,
                   expiry, wake, terminated, cur, seen>>
    /\ NoSignal /\ UnchangedByWorker

\* A new idler may have changed connections_above_limit().
WakeListener(w) ==
    /\ wpc[w] = "idle"
    /\ wake' = (wake \/ (Wakeable /\ should_enable_listensocks))
    /\ wpc' = [wpc EXCEPT ![w] = "check"]
    /\ UNCHANGED <<conn, queue, polled, chain, idlers, counts, threads_shutdown,
                   expiry, terminated, cur, seen>>
    /\ NoListenerStep /\ NoSignal /\ UnchangedByWorker

\* worker_pop: the tests of workers_may_exit and of dying
CheckExit(w) ==
    /\ wpc[w] = "check"
    /\ wpc' = [wpc EXCEPT ![w] = IF workers_may_exit THEN "exit"
                                 ELSE IF dying THEN "early" ELSE "pop"]
    /\ UNCHANGED <<conn, queue, polled, chain, idlers, counts, threads_shutdown,
                   expiry, wake, terminated, cur, seen>>
    /\ NoListenerStep /\ NoSignal /\ UnchangedByWorker


\* worker_thread_should_exit_early(): the two counts are read ...
ReadCounts(w) ==
    /\ wpc[w] = "early"
    /\ IF connection_count >= N - threads_shutdown
       THEN wpc' = [wpc EXCEPT ![w] = "pop"] /\ UNCHANGED seen
       ELSE /\ wpc' = [wpc EXCEPT ![w] = "cas"]
            /\ seen' = [seen EXCEPT ![w] = threads_shutdown]
    /\ UNCHANGED <<conn, queue, polled, chain, idlers, counts, threads_shutdown,
                   expiry, wake, terminated, cur>>
    /\ NoListenerStep /\ NoSignal /\ UnchangedByWorker

\* ... then the worker exits, unless another one has exited in the meantime.
ExitEarly(w) ==
    /\ wpc[w] = "cas"
    /\ IF threads_shutdown = seen[w]
       THEN /\ threads_shutdown' = threads_shutdown + 1
            /\ wpc' = [wpc EXCEPT ![w] = "exit"]
       ELSE /\ wpc' = [wpc EXCEPT ![w] = "early"]
            /\ UNCHANGED threads_shutdown
    /\ seen' = [seen EXCEPT ![w] = 0]
    /\ UNCHANGED <<conn, queue, polled, chain, idlers, counts, expiry, wake,
                   terminated, cur>>
    /\ NoListenerStep /\ NoSignal /\ UnchangedByWorker

\* Where process_socket() starts with connection c
EntryPoint(c) ==
    CASE c = Null -> "defer"
      [] c \in Conns /\ st[c] = "accepted" -> "create"
      [] c \in Conns /\ st[c] = "WRITE" -> "write"
      [] c \in Conns /\ st[c] = "LINGER" -> "linger"
      [] c \in Conns /\ st[c] = "LINGER_WAIT" -> "drain"
      [] OTHER -> "process"

\* ap_queue_pop_something()
ap_queue_pop_something(w) ==
    /\ wpc[w] \in {"pop", "woken"}
    /\ IF queue = <<>>
       THEN /\ wpc' = [wpc EXCEPT ![w] = CASE terminated -> "exit"
                                           [] wpc[w] = "pop" -> "wait"
                                           [] OTHER -> "check"]
            /\ UNCHANGED <<queue, cur>>
       ELSE /\ queue' = Tail(queue)
            /\ cur' = [cur EXCEPT ![w] = Head(queue)]
            /\ wpc' = [wpc EXCEPT ![w] = EntryPoint(Head(queue))]
    /\ UNCHANGED <<conn, polled, chain, idlers, counts, threads_shutdown,
                   expiry, wake, terminated, seen>>
    /\ NoListenerStep /\ NoSignal /\ UnchangedByWorker

\* process_socket() of a new connection: the connection may fail to be created,
\* or be refused by the pre_connection hooks.
CreateConn(w) ==
    /\ wpc[w] = "create"
    /\ \/ /\ st' = [st EXCEPT ![cur[w]] = "PROCESSING"]
          /\ connection_count' = connection_count + 1
          /\ \/ wpc' = [wpc EXCEPT ![w] = "process"]
             \/ Failures /\ wpc' = [wpc EXCEPT ![w] = "close"]
          /\ UNCHANGED cur
       \/ /\ Failures
          /\ st' = [st EXCEPT ![cur[w]] = "closed"]
          /\ cur' = [cur EXCEPT ![w] = Null]
          /\ wpc' = [wpc EXCEPT ![w] = "defer"]
          /\ UNCHANGED connection_count
    /\ UNCHANGED <<started, deferred, queue, polled, chain, idlers,
                   lingering_count, suspended_count, threads_shutdown, expiry,
                   wake, terminated, seen>>
    /\ NoListenerStep /\ NoSignal /\ UnchangedByWorker

\* The connection goes on in state s at pc.
GoOn(w, s, pc) ==
    /\ st' = [st EXCEPT ![cur[w]] = s]
    /\ wpc' = [wpc EXCEPT ![w] = pc]

\* ap_run_process_connection(), and what it asks for
ProcessConn(w) ==
    /\ wpc[w] = "process"
    /\ \E o \in Outcomes \union {"LINGER"} :
          GoOn(w, o, CASE o = "LINGER" -> "linger" [] o = "WAITIO" -> "enqueue"
                       [] o = "WRITE" -> "write" [] OTHER -> "suspend")
    /\ UNCHANGED <<started, deferred, queue, polled, chain, idlers, counts,
                   threads_shutdown, expiry, wake, terminated, cur, seen>>
    /\ NoListenerStep /\ NoSignal /\ UnchangedByWorker

\* CONN_STATE_WRITE_COMPLETION: still output to write; the connection is done;
\* more input is there already; or it is kept alive, unless the child stops.
WriteCompletion(w) ==
    /\ wpc[w] = "write"
    /\ \/ GoOn(w, "WRITE", "enqueue")
       \/ GoOn(w, "LINGER", "linger")
       \/ GoOn(w, "PROCESSING", "process")
       \/ /\ ~listener_may_exit
          /\ GoOn(w, "KEEPALIVE", "enqueue")
    /\ UNCHANGED <<started, deferred, queue, polled, chain, idlers, counts,
                   threads_shutdown, expiry, wake, terminated, cur, seen>>
    /\ NoListenerStep /\ NoSignal /\ UnchangedByWorker

\* The connection is left to the listener. When the pollset fails it is closed
\* and the child stops.
Enqueue(w) ==
    /\ wpc[w] = "enqueue"
    /\ \/ /\ Append2Poll(cur[w])
          /\ cur' = [cur EXCEPT ![w] = Null]
          /\ wpc' = [wpc EXCEPT ![w] = "defer"]
       \/ /\ Failures
          /\ wpc' = [wpc EXCEPT ![w] = "abort"]
          /\ UNCHANGED <<polled, expiry, wake, cur>>
    /\ UNCHANGED <<conn, queue, chain, idlers, counts, threads_shutdown,
                   terminated, seen>>
    /\ NoListenerStep /\ NoSignal /\ UnchangedByWorker

\* signal_threads(ST_GRACEFUL) after that
SignalAbort(w) ==
    /\ wpc[w] = "signal"
    /\ SignalGraceful
    /\ IF terminate_mode = 0 THEN TermIdlers ELSE NoListenerStep
    /\ wpc' = [wpc EXCEPT ![w] = "defer"]
    /\ UNCHANGED <<conn, queue, polled, chain, idlers, counts, threads_shutdown,
                   expiry, terminated, cur, seen>>
    /\ UnchangedByWorker

\* CONN_STATE_SUSPENDED: the connection is left to the module.
Suspend(w) ==
    /\ wpc[w] = "suspend"
    /\ suspended_count' = suspended_count + 1
    /\ cur' = [cur EXCEPT ![w] = Null]
    /\ wpc' = [wpc EXCEPT ![w] = "defer"]
    /\ UNCHANGED <<conn, queue, polled, chain, idlers, connection_count,
                   lingering_count, threads_shutdown, expiry, wake, terminated,
                   seen>>
    /\ NoListenerStep /\ NoSignal /\ UnchangedByWorker

\* Mutants: a deferred close is counted twice; only a deferred close is counted.
MutantCountTwice(w) ==
    /\ wpc[w] = "linger"
    /\ started' = started \union {cur[w]}
    /\ lingering_count' = lingering_count + 1
    /\ wpc' = [wpc EXCEPT ![w] = "drain"]
    /\ UNCHANGED <<st, deferred, queue, polled, chain, idlers, connection_count,
                   suspended_count, threads_shutdown, expiry, wake, terminated,
                   cur, seen>>
    /\ NoListenerStep /\ NoSignal /\ UnchangedByWorker
MutantCountDeferred(w) ==
    /\ wpc[w] = "linger"
    /\ started' = started \union {cur[w]}
    /\ lingering_count' =
          IF cur[w] \notin deferred THEN lingering_count ELSE lingering_count + 1
    /\ wpc' = [wpc EXCEPT ![w] = "drain"]
    /\ UNCHANGED <<st, deferred, queue, polled, chain, idlers, connection_count,
                   suspended_count, threads_shutdown, expiry, wake, terminated,
                   cur, seen>>
    /\ NoListenerStep /\ NoSignal /\ UnchangedByWorker

\* process_lingering_close() starts; defer_lingering_close() may have counted.
StartLinger(w) ==
    /\ wpc[w] = "linger"
    /\ started' = started \union {cur[w]}
    /\ lingering_count' =
          IF cur[w] \in deferred THEN lingering_count ELSE lingering_count + 1
    /\ wpc' = [wpc EXCEPT ![w] = "drain"]
    /\ UNCHANGED <<st, deferred, queue, polled, chain, idlers, connection_count,
                   suspended_count, threads_shutdown, expiry, wake, terminated,
                   cur, seen>>
    /\ NoListenerStep /\ NoSignal /\ UnchangedByWorker

\* The client has closed too, or it is waited for in linger_q.
Drain(w) ==
    /\ wpc[w] = "drain"
    /\ \/ GoOn(w, st[cur[w]], "close")
       \/ GoOn(w, "LINGER_WAIT", "enqueue")
    /\ UNCHANGED <<started, deferred, queue, polled, chain, idlers, counts,
                   threads_shutdown, expiry, wake, terminated, cur, seen>>
    /\ NoListenerStep /\ NoSignal /\ UnchangedByWorker

\* close_connection(): decrement_connection_count() looks at the state ...
close_connection(w) ==
    /\ wpc[w] \in {"close", "abort"}
    /\ connection_count' = connection_count - 1
    /\ lingering_count' =
          IF st[cur[w]] \in Lingering THEN lingering_count - 1
                                      ELSE lingering_count
    /\ st' = [st EXCEPT ![cur[w]] = "closed"]
    /\ cur' = [cur EXCEPT ![w] = Null]
    /\ seen' = [seen EXCEPT ![w] = connection_count - 1]
    /\ wpc' = [wpc EXCEPT ![w] = IF @ = "abort" THEN "abortNotify" ELSE "notify"]
    /\ UNCHANGED <<started, deferred, queue, polled, chain, idlers,
                   suspended_count, threads_shutdown, expiry, wake, terminated>>
    /\ NoListenerStep /\ NoSignal /\ UnchangedByWorker

\* ... then notifies the listener and a worker, where is_last_connection goes by
\* what the decrement has returned.
Notify(w) ==
    /\ wpc[w] \in {"notify", "abortNotify"}
    /\ wake' = \/ wake
               \/ /\ Wakeable
                  /\ \/ seen[w] = 0 /\ listener_may_exit
                     \/ should_enable_listensocks
    /\ LET pc == [wpc EXCEPT ![w] =
                     IF @ = "abortNotify" THEN "signal" ELSE "defer"]
       IN  IF dying /\ ~terminated THEN SignalWorker(pc) ELSE wpc' = pc
    /\ seen' = [seen EXCEPT ![w] = 0]
    /\ UNCHANGED <<conn, queue, polled, chain, idlers, counts, threads_shutdown,
                   expiry, terminated, cur>>
    /\ NoListenerStep /\ NoSignal /\ UnchangedByWorker

\* The deferred closes, before the worker counts itself idle again.
TakeDeferred(w) ==
    /\ wpc[w] = "defer"
    /\ \/ /\ workers_may_exit \/ chain = {}
          /\ wpc' = [wpc EXCEPT ![w] = "start"]
          /\ UNCHANGED <<chain, cur>>
       \/ /\ ~workers_may_exit
          /\ \E c \in chain :
                /\ chain' = chain \ {c}
                /\ cur' = [cur EXCEPT ![w] = c]
                /\ wpc' = [wpc EXCEPT ![w] = EntryPoint(c)]
    /\ UNCHANGED <<conn, queue, polled, idlers, counts, threads_shutdown,
                   expiry, wake, terminated, seen>>
    /\ NoListenerStep /\ NoSignal /\ UnchangedByWorker
-----------------------------------------------------------------------------
(* Modules and the main thread *)

Suspended == {c \in Conns : st[c] = "SUSPENDED" /\ \A w \in Workers : cur[w] # c}

\* event_resume_suspended(), from a thread of the module: the connection goes
\* to write completion, or, if the module has asked for it, to lingering close,
\* where the client is waited for or has closed too.
event_resume_suspended(c) ==
    /\ c \in Suspended
    /\ suspended_count' = suspended_count - 1
    /\ \/ /\ st' = [st EXCEPT ![c] = "WRITE"]
          /\ Append2Poll(c)
          /\ UNCHANGED <<started, lingering_count, connection_count, wpc>>
       \/ /\ st' = [st EXCEPT ![c] = "LINGER_WAIT"]
          /\ started' = started \union {c}
          /\ lingering_count' = lingering_count + 1
          /\ Append2Poll(c)
          /\ UNCHANGED <<connection_count, wpc>>
       \/ /\ st' = [st EXCEPT ![c] = "closed"]
          /\ started' = started \union {c}
          /\ connection_count' = connection_count - 1
          /\ NotifyClosed(1, connection_count', lingering_count)
          /\ UNCHANGED <<lingering_count, polled, expiry>>
    /\ UNCHANGED <<deferred, queue, chain, idlers, threads_shutdown, flags,
                   disabled, listening, terminated, lvars, cur, seen, mpc>>

UnchangedByMain ==
    UNCHANGED <<conn, queue, polled, chain, idlers, counts, threads_shutdown,
                dying, expiry, terminated, batch, lcur, busy, cur, seen>>

\* The pipe of death says how to stop, or another thread has stopped the child.
Stop(mode) ==
    /\ mpc = "pod"
    /\ IF terminate_mode >= mode
       THEN mpc' = "join" /\ UNCHANGED terminate_mode
       ELSE mpc' = "wakeup" /\ terminate_mode' = mode
    /\ UNCHANGED <<listener_may_exit, workers_may_exit, disabled, listening,
                   wake, lpc, have, wpc>>
    /\ UnchangedByMain

\* wakeup_listener(), of signal_threads() and again of join_workers()
WakeupListener ==
    /\ mpc = "wakeup" \/ (mpc = "join" /\ ~dying)
    /\ wakeup_listener
    /\ IF mpc = "wakeup" THEN mpc' = "term" ELSE mpc' = "joinTerm"
    /\ UNCHANGED <<workers_may_exit, terminate_mode, lpc, have, wpc>>
    /\ UnchangedByMain

ap_queue_info_term ==
    /\ mpc \in {"term", "joinTerm"}
    /\ TermIdlers
    /\ mpc' = IF mpc = "term" /\ terminate_mode = 2 THEN "ungraceful" ELSE "join"
    /\ UNCHANGED <<listener_may_exit, workers_may_exit, terminate_mode,
                   disabled, listening, wake, wpc>>
    /\ UnchangedByMain

LetWorkersExit ==
    /\ mpc = "ungraceful"
    /\ workers_may_exit' = TRUE
    /\ mpc' = "interrupt"
    /\ UNCHANGED <<listener_may_exit, terminate_mode, disabled, listening, wake,
                   lpc, have, wpc>>
    /\ UnchangedByMain

InterruptAll ==
    /\ mpc = "interrupt"
    /\ wpc' = IF terminated THEN wpc ELSE Interrupted(wpc)
    /\ mpc' = "join"
    /\ UNCHANGED <<listener_may_exit, workers_may_exit, terminate_mode,
                   disabled, listening, wake, lpc, have>>
    /\ UnchangedByMain

\* join_workers() gives up on a listener that does not notice for too long.
GiveUp ==
    /\ mpc = "join" /\ ~dying
    /\ mpc' = "joinWorkers"
    /\ UNCHANGED <<listener_may_exit, workers_may_exit, terminate_mode,
                   disabled, listening, wake, lpc, have, wpc>>
    /\ UnchangedByMain

\* join_workers(): the listener first, then every worker; then the child exits.
JoinWorkers ==
    /\ \/ mpc = "join" /\ dying /\ lpc = "exit"
       \/ mpc = "joinWorkers"
    /\ \A w \in Workers : wpc[w] = "exit"
    /\ mpc' = "exit"
    /\ UNCHANGED <<listener_may_exit, workers_may_exit, terminate_mode,
                   disabled, listening, wake, lpc, have, wpc>>
    /\ UnchangedByMain
-----------------------------------------------------------------------------
Listener ==
    \/ LoopTop \/ close_listeners \/ BreakOut \/ Poll \/ PollFails
    \/ (\E c \in Conns : ConnReady(c)) \/ AcceptReady \/ PoolFails
    \/ disable_listensocks \/ TryWorker \/ BlockForWorker \/ PushConn \/ AcceptConn
    \/ Maintain \/ ScheduleDeferred \/ TellWorker
    \/ TestEnable \/ enable_listensocks \/ ListenerExit

Worker(w) ==
    \/ ap_queue_info_set_idle(w) \/ WakeListener(w) \/ CheckExit(w)
    \/ ReadCounts(w) \/ ExitEarly(w) \/ ap_queue_pop_something(w)
    \/ CreateConn(w) \/ ProcessConn(w) \/ WriteCompletion(w) \/ Enqueue(w)
    \/ Suspend(w) \/ StartLinger(w) \/ Drain(w) \/ close_connection(w)
    \/ SignalAbort(w) \/ Notify(w) \/ TakeDeferred(w)

MainGoesOn ==
    \/ WakeupListener \/ ap_queue_info_term \/ LetWorkersExit \/ InterruptAll
    \/ JoinWorkers \/ (dying /\ Stop(terminate_mode))

Next ==
    \/ Listener
    \/ \E w \in Workers : Worker(w)
    \/ \E c \in Conns : event_resume_suspended(c)
    \/ \E mode \in Modes : Stop(mode)
    \/ MainGoesOn
    \/ GiveUp

Spec == Init /\ [][Next]_vars

\* Threads keep running; what is in a timeout queue expires; a client, and a
\* module that suspends a connection, is done some day.
Fairness ==
    /\ WF_vars(Listener) /\ WF_vars(MainGoesOn)
    /\ \A w \in Workers :
          /\ WF_vars(Worker(w))
          /\ SF_vars((ProcessConn(w) \/ WriteCompletion(w)) /\ wpc'[w] = "linger")
          /\ SF_vars(Drain(w) /\ wpc'[w] = "close")
    /\ \A c \in Conns :
          /\ SF_vars(Maintain /\ c \in polled \ polled')
          /\ WF_vars(event_resume_suspended(c))

FairSpec == Spec /\ Fairness
-----------------------------------------------------------------------------
(* Properties *)

\* Every variable has its type; no counter, which are all unsigned, wraps.
TypeOK ==
    /\ st \in [Conns -> {"backlog", "accepted", "closed", "PROCESSING",
                 "WAITIO", "WRITE", "KEEPALIVE", "SUSPENDED"} \union Lingering]
    /\ started \subseteq Conns /\ deferred \subseteq Conns
    /\ queue \in Seq(Conns \union {Null})
    /\ polled \subseteq Conns /\ chain \subseteq Conns
    /\ idlers \in Int /\ idlers <= N
    /\ connection_count \in 0 .. Cardinality(Conns)
    /\ lingering_count \in 0 .. Cardinality(Conns)
    /\ suspended_count \in 0 .. Cardinality(Conns)
    /\ threads_shutdown \in 0 .. N
    /\ \A b \in {listener_may_exit, workers_may_exit, dying, disabled,
                 listening, expiry, wake, terminated, have, busy} : b \in BOOLEAN
    /\ terminate_mode \in 0 .. 2
    /\ batch \subseteq Conns \union {Accept}
    /\ lcur \in Conns \union {Null, Accept}
    /\ cur \in [Workers -> Conns \union {Null}]

\* Who holds connection c: the listener, a worker, a place of the worker queue,
\* the pollset, the chain, the module that has suspended it.
Holders(c) ==
    (IF lcur = c THEN {<<"listener">>} ELSE {})
    \union {<<"worker", w>> : w \in {v \in Workers : cur[v] = c}}
    \union {<<"queue", i>> : i \in {j \in DOMAIN queue : queue[j] = c}}
    \union (IF c \in polled THEN {<<"pollset">>} ELSE {})
    \union (IF c \in chain THEN {<<"chain">>} ELSE {})
    \union (IF c \in Suspended THEN {<<"module">>} ELSE {})

\* A connection, from the time its socket is accepted until it is closed, is
\* held by exactly one party. Two would process it at once, none would leak it:
\* the pre-conditions of defer_lingering_close(), close_connection() and
\* push2worker() say "not in any timeout queue or in the pollset".
OneHolder ==
    \A c \in Conns :
        Cardinality(Holders(c)) =
            IF st[c] \in {"backlog", "closed"} THEN 0 ELSE 1

\* The counters that decide on accepting and on exiting count what they name:
\* connection_count the connections with a conn_rec, lingering_count those in
\* lingering close, started or deferred, suspended_count those suspended. They
\* go up where a flag is set and down by the state the cleanup finds.
CountsExact ==
    /\ connection_count = Cardinality(Live)
    /\ lingering_count = Cardinality(Live \intersect (started \union deferred))
    /\ suspended_count = Cardinality(Suspended)




\* A deferred lingering close cannot starve.
DeferredServed ==
    \A c \in Conns : c \in chain ~> c \notin chain \/ workers_may_exit

=============================================================================
