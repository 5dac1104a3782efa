----------------------------- MODULE H2Workers -----------------------------
(***************************************************************************)
(* The worker threads of mod_http2, modules/http2/h2_workers.c: slots that *)
(* run threads, start on demand, go idle, time out, become zombies and are *)
(* joined, and the producers (one per HTTP/2 session, h2_mplx.c) whose     *)
(* requests they process.                                                  *)
(*                                                                         *)
(* Everything but the processing of a request happens under workers->lock, *)
(* which is given up only in condition waits and around apr_thread_join(): *)
(* a step is what runs between two such points. slot->should_shutdown is   *)
(* never set by the code and is left out.                                  *)
(***************************************************************************)
EXTENDS Integers, Sequences, FiniteSets

CONSTANTS MaxSlots, MinActive,  \* H2MaxWorkers, H2MinWorkers
          Producers,            \* the sessions
          Limit,                \* m->processing_limit
          MaxStreams,           \* bound: requests per session
          MaxFails,             \* bound: threads, or secondary connections,
                                \* that cannot be created
          LateSignalWakes       \* a signal that comes after the time is up and
                                \* before the thread has the lock still counts

ASSUME SlotsAssumption == MaxSlots \in Nat /\ MinActive \in 1 .. MaxSlots

ASSUME ProducersAssumption ==
    /\ Limit \in Nat \ {0} /\ MaxStreams \in Nat /\ MaxFails \in Nat
    /\ LateSignalWakes \in BOOLEAN

Slots == 0 .. MaxSlots - 1
\* workers->dynamic
Dynamic == MinActive < MaxSlots
None == "none"

VARIABLES
    ws,         \* the slots and rings of h2_workers
    prodActive, \* workers->prod_active
    pstate,     \* prod->state; prod_idle is the ring of the idle ones
    conns,      \* prod->conns_active
    slotProd,   \* slot->prod
    shutdown, aborted,  \* workers->shutdown, workers->aborted
    q, nproc,   \* h2_mplx: requests queued, m->processing_count
    mAborted,   \* h2_mplx: m->aborted
    ppc,        \* where each session is
    cpc,        \* where workers_pool_cleanup() is
    streams     \* requests submitted per session so far

prods == <<prodActive, pstate, conns, slotProd, q, nproc>>
session == <<mAborted, ppc, streams>>
flags == <<shutdown, aborted>>
vars == <<ws, prods, session, flags, cpc>>

-----------------------------------------------------------------------------
(* Slots: what the helpers of h2_workers.c do to x, the state of the slots *)

\* apr_thread_cond_signal(slot->more_work)
Signal(x, s) ==
    IF x.spc[s] = "wait" \/ (LateSignalWakes /\ x.spc[s] = "expired")
    THEN [x EXCEPT !.spc[s] = "signalled"] ELSE x

\* activate_slot(): take the first free slot and start a thread, which may fail
activate_slot(x, ok) ==
    IF x.free = <<>> THEN x
    ELSE LET s == Head(x.free) IN
         IF ok THEN [x EXCEPT !.free = Tail(x.free), !.spc[s] = "start",
                              !.isIdle[s] = FALSE, !.active = @ + 1]
         ELSE [x EXCEPT !.free = Append(Tail(x.free), s), !.fails = @ + 1]

\* Mutant: the slot is marked as woken and never signalled.
MutantNoSignal(x, ok) ==
    LET asleep == SelectSeq(x.idle, LAMBDA s : x.isIdle[s]) IN
    IF asleep # <<>> THEN [x EXCEPT !.isIdle[Head(asleep)] = FALSE] ELSE x

\* wake_idle_worker(): the first idle slot nobody has woken yet, else a new one
wake_idle_worker(x, ok) ==
    LET asleep == SelectSeq(x.idle, LAMBDA s : x.isIdle[s]) IN
    IF asleep # <<>>
    THEN [Signal(x, Head(asleep)) EXCEPT !.isIdle[Head(asleep)] = FALSE]
    ELSE IF Dynamic /\ ~shutdown /\ x.active < MaxSlots
         THEN activate_slot(x, ok) ELSE x

\* wake_all_idles(); the slots that wait are those of the idle ring
wake_all_idles(x) ==
    [x EXCEPT !.spc = [s \in Slots |-> Signal(x, s).spc[s]]]

\* Mutant: idle_slots is not decremented.
MutantStaysIdle(x, s) ==
    [x EXCEPT !.idle = SelectSeq(@, LAMBDA t : t # s), !.isIdle[s] = FALSE]

\* The slot leaves the idle ring.
LeaveIdle(x, s) ==
    [x EXCEPT !.idle = SelectSeq(@, LAMBDA t : t # s), !.idleSlots = @ - 1,
              !.isIdle[s] = FALSE]

\* Mutant: the thread is still counted as active.
MutantStillActive(x, s) ==
    [x EXCEPT !.spc[s] = "zombie", !.zombie = Append(@, s),
              !.isIdle[s] = FALSE]

\* The end of slot_run(): the slot is a zombie that waits to be joined.
Terminate(x, s) ==
    [x EXCEPT !.spc[s] = "zombie", !.zombie = Append(@, s), !.active = @ - 1,
              !.isIdle[s] = FALSE]

\* Mutant: the zombie stays in its ring while it is joined.
MutantJoinTwice(x, s) ==
    IF x.zombie # <<>>
    THEN [x EXCEPT !.spc[s] = "joining", !.joinee[s] = Head(x.zombie)]
    ELSE [x EXCEPT !.spc[s] = "wait", !.idle = Append(@, s),
                   !.idleSlots = @ + 1, !.isIdle[s] = TRUE]

\* join_zombies() up to its unlock or, with no zombie left, the wait for work
JoinOrIdle(x, s) ==
    IF x.zombie # <<>>
    THEN [x EXCEPT !.spc[s] = "joining", !.joinee[s] = Head(x.zombie),
                   !.zombie = Tail(@)]
    ELSE [x EXCEPT !.spc[s] = "wait", !.idle = Append(@, s),
                   !.idleSlots = @ + 1, !.isIdle[s] = TRUE]

\* apr_thread_join() is back: the joined slot t is free.
Joined(x, t) == [x EXCEPT !.spc[t] = "free", !.free = Append(@, t)]

\* h2_workers_create(): the first MinActive slots are started.
Init ==
    /\ ws = [spc |-> [s \in Slots |-> IF s < MinActive THEN "start"
                                      ELSE "free"],
             isIdle |-> [s \in Slots |-> FALSE],
             joinee |-> [s \in Slots |-> s],
             free |-> [i \in 1 .. MaxSlots - MinActive |-> MinActive + i - 1],
             idle |-> <<>>, zombie |-> <<>>,
             active |-> MinActive, idleSlots |-> 0, fails |-> 0]
    /\ prodActive = <<>> /\ pstate = [p \in Producers |-> None]
    /\ conns = [p \in Producers |-> 0] /\ slotProd = [s \in Slots |-> None]
    /\ shutdown = FALSE /\ aborted = FALSE
    /\ q = [p \in Producers |-> 0] /\ nproc = [p \in Producers |-> 0]
    /\ mAborted = [p \in Producers |-> FALSE]
    /\ ppc = [p \in Producers |-> "new"] /\ cpc = "run"
    /\ streams = [p \in Producers |-> 0]

-----------------------------------------------------------------------------
(* The threads *)

\* get_next() and what follows, from slots x and producer ring, states st and
\* counts cn: process a request of the first active producer, or rest.
GetNext(s, x, ring, st, cn) ==
    IF aborted \/ ring = <<>>
    THEN /\ ws' = IF aborted THEN Terminate(x, s) ELSE JoinOrIdle(x, s)
         /\ slotProd' = IF aborted THEN slotProd
                        ELSE [slotProd EXCEPT ![s] = None]
         /\ prodActive' = ring /\ pstate' = st /\ conns' = cn
         /\ UNCHANGED <<q, nproc>>
    ELSE LET p == Head(ring) IN \E ok, c2 \in BOOLEAN :
         LET taken == ~mAborted[p] /\ nproc[p] < Limit /\ q[p] > 0
             got == taken /\ c2     \* the secondary connection was set up
             more == got /\ q[p] > 1
             y == CASE more -> wake_idle_worker(x, ok)
                    [] taken /\ ~c2 -> [x EXCEPT !.fails = @ + 1]
                    [] OTHER -> x
         IN  /\ (ok /\ c2) \/ x.fails < MaxFails
             /\ ws' = IF got THEN [y EXCEPT !.spc[s] = "work"]
                      ELSE JoinOrIdle(y, s)
             /\ q' = IF taken THEN [q EXCEPT ![p] = @ - 1] ELSE q
             /\ nproc' = IF got THEN [nproc EXCEPT ![p] = @ + 1] ELSE nproc
             /\ conns' = IF got THEN [cn EXCEPT ![p] = @ + 1] ELSE cn
             /\ slotProd' = [slotProd EXCEPT ![s] = IF got THEN p ELSE None]
             /\ prodActive' = Tail(ring) \o IF more THEN <<p>> ELSE <<>>
             /\ pstate' = [st EXCEPT ![p] = IF more THEN "active" ELSE "idle"]

\* slot_run(): the thread starts
SlotStart(s) ==
    /\ ws.spc[s] = "start"
    /\ GetNext(s, ws, prodActive, pstate, conns)
    /\ UNCHANGED <<session, flags, cpc>>

\* ... is woken from its wait
SlotWake(s) ==
    /\ ws.spc[s] = "signalled"
    /\ GetNext(s, LeaveIdle(ws, s), prodActive, pstate, conns)
    /\ UNCHANGED <<session, flags, cpc>>

\* ... has processed the request: c2_prod_done() of the session
SlotDone(s) ==
    /\ ws.spc[s] = "work"
    /\ ws' = [ws EXCEPT !.spc[s] = "done"]
    /\ nproc' = [nproc EXCEPT ![slotProd[s]] = @ - 1]
    /\ UNCHANGED <<prodActive, pstate, conns, slotProd, q, session, flags, cpc>>

\* ... takes the lock again, and asks its producer for more
SlotFinish(s) ==
    /\ ws.spc[s] = "done"
    /\ LET p == slotProd[s]
           cn == [conns EXCEPT ![p] = @ - 1]
           wasIdle == pstate[p] = "idle"
       IN  /\ GetNext(s, ws,
                       prodActive \o IF wasIdle THEN <<p>> ELSE <<>>,
                       [pstate EXCEPT ![p] = IF wasIdle THEN "active" ELSE @],
                       cn)
           \* apr_thread_cond_broadcast(workers->prod_done)
           /\ ppc' = IF cn[p] > 0 THEN ppc
                     ELSE [r \in Producers |-> IF ppc[r] = "wait" THEN "woken"
                                               ELSE ppc[r]]
    /\ UNCHANGED <<mAborted, streams, flags, cpc>>

\* ... has joined a zombie, and goes on to the next or rests; neither aborted
\* nor the active producers are looked at again.
SlotJoined(s) ==
    /\ ws.spc[s] = "joining"
    /\ ws' = JoinOrIdle(Joined(ws, ws.joinee[s]), s)
    /\ UNCHANGED <<prods, session, flags, cpc>>

\* Mutant: the first min_active slots time out as well.
MutantExpire(s) ==
    /\ ws.spc[s] = "wait"
    /\ ws' = [ws EXCEPT !.spc[s] = "expired"]
    /\ UNCHANGED <<prods, session, flags, cpc>>

\* The time of a wait is up (idle_limit); the thread does not have the lock yet.
Expire(s) ==
    /\ ws.spc[s] = "wait"
    /\ s >= MinActive
    /\ ws' = [ws EXCEPT !.spc[s] = "expired"]
    /\ UNCHANGED <<prods, session, flags, cpc>>

\* APR_TIMEUP: the thread ends.
SlotTimeUp(s) ==
    /\ ws.spc[s] = "expired"
    /\ ws' = Terminate(LeaveIdle(ws, s), s)
    /\ UNCHANGED <<prods, session, flags, cpc>>

\* A wait returns for no reason.
Spurious(s) ==
    /\ ws.spc[s] = "wait"
    /\ ws' = [ws EXCEPT !.spc[s] = "signalled"]
    /\ UNCHANGED <<prods, session, flags, cpc>>

-----------------------------------------------------------------------------
(* The sessions *)

h2_workers_register(p) ==
    /\ ppc[p] = "new"
    /\ ppc' = [ppc EXCEPT ![p] = "open"]
    /\ pstate' = [pstate EXCEPT ![p] = "idle"]
    /\ UNCHANGED <<ws, prodActive, conns, slotProd, q, nproc, mAborted, streams,
                   flags, cpc>>


\* h2_mplx_c1_process(): a request is queued, unless the session is aborted;
\* below the limit the workers are activated, after m->lock was released.
h2_mplx_c1_process(p) ==
    /\ ppc[p] = "open"
    /\ streams[p] < MaxStreams
    /\ streams' = [streams EXCEPT ![p] = @ + 1]
    /\ q' = [q EXCEPT ![p] = IF mAborted[p] THEN @ ELSE @ + 1]
    /\ ppc' = [ppc EXCEPT ![p] = IF nproc[p] < Limit /\ q'[p] > 0
                                 THEN "activate" ELSE @]
    /\ UNCHANGED <<ws, prodActive, pstate, conns, slotProd, nproc, mAborted,
                   flags, cpc>>

\* m_stream_cleanup(): a request that still waits is cancelled.
m_stream_cleanup(p) ==
    /\ ppc[p] = "open"
    /\ q[p] > 0
    /\ q' = [q EXCEPT ![p] = @ - 1]
    /\ UNCHANGED <<ws, prodActive, pstate, conns, slotProd, nproc, session,
                   flags, cpc>>

h2_workers_activate(p) ==
    /\ ppc[p] = "activate"
    /\ ppc' = [ppc EXCEPT ![p] = "open"]
    /\ IF pstate[p] = "idle"
       THEN /\ pstate' = [pstate EXCEPT ![p] = "active"]
            /\ prodActive' = Append(prodActive, p)
            /\ \E ok \in BOOLEAN : /\ ok \/ ws.fails < MaxFails
                                   /\ ws' = wake_idle_worker(ws, ok)
       ELSE UNCHANGED <<ws, pstate, prodActive>>
    /\ UNCHANGED <<conns, slotProd, q, nproc, mAborted, streams, flags, cpc>>

\* h2_mplx_c1_destroy(): no more requests, those queued are cancelled.
h2_mplx_c1_destroy(p) ==
    /\ ppc[p] = "open"
    /\ ppc' = [ppc EXCEPT ![p] = "closing"]
    /\ mAborted' = [mAborted EXCEPT ![p] = TRUE]
    /\ q' = [q EXCEPT ![p] = 0]
    /\ UNCHANGED <<ws, prodActive, pstate, conns, slotProd, nproc, streams,
                   flags, cpc>>

\* Mutants: the producer stays in its ring; the work in progress is not waited
\* for; the wait is entered whether or not there is any.
MutantStaysInRing(p) ==
    /\ ppc[p] = "closing"
    /\ nproc[p] = 0
    /\ pstate' = [pstate EXCEPT ![p] = "joined"]
    /\ ppc' = [ppc EXCEPT ![p] = IF conns[p] > 0 THEN "wait" ELSE "gone"]
    /\ UNCHANGED <<ws, prodActive, conns, slotProd, q, nproc, mAborted, streams,
                   flags, cpc>>
MutantNoWait(p) ==
    /\ ppc[p] = "closing"
    /\ nproc[p] = 0
    /\ pstate' = [pstate EXCEPT ![p] = "joined"]
    /\ prodActive' = SelectSeq(prodActive, LAMBDA r : r # p)
    /\ ppc' = [ppc EXCEPT ![p] = "gone"]
    /\ UNCHANGED <<ws, conns, slotProd, q, nproc, mAborted, streams, flags, cpc>>
MutantAlwaysWait(p) ==
    /\ ppc[p] = "closing"
    /\ nproc[p] = 0
    /\ pstate' = [pstate EXCEPT ![p] = "joined"]
    /\ prodActive' = SelectSeq(prodActive, LAMBDA r : r # p)
    /\ ppc' = [ppc EXCEPT ![p] = "wait"]
    /\ UNCHANGED <<ws, conns, slotProd, q, nproc, mAborted, streams, flags, cpc>>

\* ... once the requests being processed are done: h2_workers_join()
h2_workers_join(p) ==
    /\ ppc[p] = "closing"
    /\ nproc[p] = 0
    /\ pstate' = [pstate EXCEPT ![p] = "joined"]
    /\ prodActive' = SelectSeq(prodActive, LAMBDA r : r # p)
    /\ ppc' = [ppc EXCEPT ![p] = IF conns[p] > 0 THEN "wait" ELSE "gone"]
    /\ UNCHANGED <<ws, conns, slotProd, q, nproc, mAborted, streams, flags, cpc>>

\* ... woken by the broadcast of prod_done; the session is destroyed after it.
JoinWoken(p) ==
    /\ ppc[p] = "woken"
    /\ ppc' = [ppc EXCEPT ![p] = IF conns[p] > 0 THEN "wait" ELSE "gone"]
    /\ UNCHANGED <<ws, prods, mAborted, streams, flags, cpc>>

-----------------------------------------------------------------------------
(* The child process *)

\* h2_workers_shutdown(): workers_shutdown() of the idle producers is called.
h2_workers_shutdown(graceful) ==
    /\ ~shutdown
    /\ shutdown' = TRUE
    /\ ws' = wake_all_idles(ws)
    /\ mAborted' = [p \in Producers |->
                      mAborted[p] \/ (~graceful /\ pstate[p] = "idle")]
    /\ UNCHANGED <<prods, ppc, streams, aborted, cpc>>

\* workers_pool_cleanup(), of the pool of the child
workers_pool_cleanup ==
    /\ cpc = "run"
    /\ cpc' = "wait"
    /\ shutdown' = TRUE /\ aborted' = TRUE
    /\ ws' = wake_all_idles(ws)
    /\ UNCHANGED <<prods, session>>

\* ... every second, or when all are done
CleanupWait ==
    /\ cpc = "wait"
    /\ IF ws.active = 0 THEN cpc' = "join" /\ UNCHANGED ws
                        ELSE ws' = wake_all_idles(ws) /\ UNCHANGED cpc
    /\ UNCHANGED <<prods, session, flags>>

\* ... after five seconds
CleanupGiveUp ==
    /\ cpc = "wait"
    /\ cpc' = "join"
    /\ UNCHANGED <<ws, prods, session, flags>>

\* ... joins the zombies
CleanupJoin ==
    /\ cpc = "join"
    /\ IF ws.zombie = <<>> THEN cpc' = "done" /\ UNCHANGED ws
       ELSE /\ ws' = Joined([ws EXCEPT !.zombie = Tail(@)], Head(ws.zombie))
            /\ UNCHANGED cpc
    /\ UNCHANGED <<prods, session, flags>>

-----------------------------------------------------------------------------
Slot(s) ==
    \/ SlotStart(s) \/ SlotWake(s) \/ SlotDone(s) \/ SlotFinish(s)
    \/ SlotJoined(s) \/ SlotTimeUp(s)

Session(p) ==
    \/ h2_workers_register(p) \/ h2_mplx_c1_process(p)
    \/ h2_workers_activate(p) \/ m_stream_cleanup(p) \/ h2_mplx_c1_destroy(p)
    \/ h2_workers_join(p) \/ JoinWoken(p)

Child ==
    \/ \E graceful \in BOOLEAN : h2_workers_shutdown(graceful)
    \/ workers_pool_cleanup \/ CleanupWait \/ CleanupGiveUp \/ CleanupJoin

Next ==
    \/ \E s \in Slots : Slot(s) \/ Expire(s) \/ Spurious(s)
    \/ \E p \in Producers : Session(p)
    \/ Child

\* Threads run, requests are processed in finite time, a session that is about
\* to activate or that may return from its join does, and the cleanup goes on.
Fairness ==
    /\ \A s \in Slots : WF_vars(Slot(s))
    /\ \A p \in Producers :
         WF_vars(h2_workers_activate(p) \/ h2_workers_join(p) \/ JoinWoken(p))
    /\ WF_vars(CleanupWait) /\ WF_vars(CleanupJoin)

Spec == Init /\ [][Next]_vars

FairSpec == Spec /\ Fairness

-----------------------------------------------------------------------------
(* Properties *)

Once(seq, x) == Cardinality({i \in DOMAIN seq : seq[i] = x}) = 1
Never(seq, x) == \A i \in DOMAIN seq : seq[i] # x
In(pcs) == {s \in Slots : ws.spc[s] \in pcs}
Serving(p) == {s \in In({"work", "done"}) : slotProd[s] = p}

\* Every variable has its type.
TypeOK ==
    /\ ws.spc \in [Slots -> {"free", "start", "work", "done", "joining", "wait",
                             "signalled", "expired", "zombie"}]
    /\ ws.isIdle \in [Slots -> BOOLEAN] /\ ws.joinee \in [Slots -> Slots]
    /\ ws.active \in 0 .. MaxSlots /\ ws.idleSlots \in 0 .. MaxSlots
    /\ \A r \in {ws.free, ws.idle, ws.zombie} : r \in Seq(Slots)
    /\ prodActive \in Seq(Producers)
    /\ pstate \in [Producers -> {None, "idle", "active", "joined"}]
    /\ conns \in [Producers -> Nat] /\ nproc \in [Producers -> Nat]
    /\ q \in [Producers -> Nat] /\ slotProd \in [Slots -> Producers \cup {None}]

\* The rings and counters say what the threads do: a slot is in exactly the
\* ring of its state, or is a zombie that one thread is joining, however the
\* unlocked joins, timeouts and activations interleave; active_slots and
\* idle_slots are exact.
RingsExact ==
    /\ ws.active = MaxSlots - Cardinality(In({"free", "zombie"}))
    /\ ws.idleSlots = Len(ws.idle)
    /\ \A s \in Slots :
         /\ IF ws.spc[s] = "free" THEN Once(ws.free, s) ELSE Never(ws.free, s)
         /\ IF ws.spc[s] \in {"wait", "signalled", "expired"}
            THEN Once(ws.idle, s) ELSE Never(ws.idle, s)
         /\ LET joiners == {t \in In({"joining"}) : ws.joinee[t] = s}
            IN  IF ws.spc[s] # "zombie"
                THEN Never(ws.zombie, s) /\ joiners = {}
                ELSE \/ Once(ws.zombie, s) /\ joiners = {}
                     \/ Never(ws.zombie, s) /\ Cardinality(joiners) = 1

\* A producer is in the active ring once exactly while it is PROD_ACTIVE, and
\* conns_active counts the threads at work for it.
ProducersExact ==
    \A p \in Producers :
        /\ IF pstate[p] = "active" THEN Once(prodActive, p)
                                   ELSE Never(prodActive, p)
        /\ conns[p] = Cardinality(Serving(p))

\* "waits for all ongoing work for this producer to be done": when
\* h2_workers_join() has returned no thread uses the session, which is freed,
\* and none will be given it.
JoinMeansQuiet ==
    \A p \in Producers :
        ppc[p] = "gone" => Serving(p) = {} /\ Never(prodActive, p)

\* "Always keep min_active workers running", until the child exits.
MinActiveKept == aborted \/ \A s \in Slots : s < MinActive =>
                                ws.spc[s] \notin {"free", "zombie"}


\* "A worker will query the producer for a connection to process, once a
\* worker is available" (h2_workers.h:123): an active producer that has a
\* request queued is queried, or runs out of requests, is aborted or joined.
ActivatedIsQueried ==
    \A p \in Producers :
        pstate[p] = "active" /\ q[p] > 0
            ~> pstate[p] # "active" \/ q[p] = 0 \/ aborted


\* h2_workers_join() returns.
JoinReturns == \A p \in Producers : ppc[p] = "closing" ~> ppc[p] = "gone"

\* workers_pool_cleanup() gets all threads to end, whatever they were doing or
\* waiting for when it began, and joins them.
CleanupEnds == cpc = "wait" ~> cpc = "done"
=============================================================================
