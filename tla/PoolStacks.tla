----------------------------- MODULE PoolStacks -----------------------------
(***************************************************************************)
(* The two lock-free stacks of an event MPM child. Transaction pools that  *)
(* are not in use wait on queue_info->recycled_pools (server/mpm_fdqueue.c)*)
(* for the listener to take them; connections whose lingering close the    *)
(* listener leaves to a worker wait on defer_linger_chain                  *)
(* (server/mpm/event/event.c). Both are linked lists whose head is changed *)
(* by compare-and-swap.                                                    *)
(*                                                                         *)
(* A connection (cs) is the second allocation of its pool, so a pool that  *)
(* is used again has its connection at the same address: both are called p *)
(* here. A step is one access to shared memory; CAS evaluates its argument *)
(* (head->next) one step before it swaps. workers_may_exit, which ends the *)
(* loop over the chain, is not modelled here.                              *)
(***************************************************************************)
EXTENDS Integers, FiniteSets

CONSTANTS
    Pools, Null,
    Workers,
    InitMaxRecycled,    \* max_recycled_pools; -1 is "no limit"
    CountMod,           \* recycled_pools_count is unsigned: modulo 2^32
    MaxConns,           \* bound: connections accepted
    MaxDefers           \* bound: lingering closes deferred

Listener == "listener"
Threads == Workers \cup {Listener}

ASSUME PoolsAssumption ==
    /\ Null \notin Pools /\ IsFiniteSet(Pools)
    /\ Listener \notin Workers /\ IsFiniteSet(Workers)

ASSUME CountAssumption ==
    /\ InitMaxRecycled \in Int /\ InitMaxRecycled >= -1
    /\ CountMod \in Nat /\ MaxConns \in Nat /\ MaxDefers \in Nat

VARIABLES
    recycled, next,     \* head and links of recycled_pools
    count, maxRecycled, \* recycled_pools_count, max_recycled_pools
    defer, chain,       \* defer_linger_chain and cs->chain
    state,              \* what each pool, with its connection, is used for
    pc, cur,            \* where each thread is, and the pool it is handling
    top, nxt,           \* the head a thread has read, and that head's link
    freeing,            \* ap_queue_info_free_idle_pools(): "no", "now", "done"
    conns, defers       \* connections accepted and deferred so far

stack == <<recycled, next>>
counters == <<count, maxRecycled, freeing>>
deferral == <<defer, chain>>
locals == <<cur, top, nxt>>
bounds == <<conns, defers>>
vars == <<stack, counters, deferral, state, pc, locals, bounds>>

Init ==
    /\ recycled = Null /\ next = [p \in Pools |-> Null]
    /\ count = 0 /\ maxRecycled = InitMaxRecycled /\ freeing = "no"
    /\ defer = Null /\ chain = [p \in Pools |-> Null]
    /\ state = [p \in Pools |-> "none"]
    /\ pc = [t \in Threads |-> IF t = Listener THEN "loop" ELSE "idle"]
    /\ cur = [t \in Threads |-> Null]
    /\ top = [t \in Threads |-> Null] /\ nxt = [t \in Threads |-> Null]
    /\ conns = 0 /\ defers = 0

Goto(t, label) == pc' = [pc EXCEPT ![t] = label]
Becomes(p, s) == state' = [state EXCEPT ![p] = s]

\* Where a thread goes on after it has given a pool back.
Back(t) == Goto(t, IF t = Listener THEN "loop" ELSE "chain")

-----------------------------------------------------------------------------
(* ap_queue_info_push_pool() *)

\* The pool is destroyed when enough are kept.
PushCheck(t) ==
    /\ pc[t] = "push"
    /\ IF maxRecycled >= 0 /\ count >= maxRecycled
       THEN Becomes(cur[t], "none") /\ Back(t)
       ELSE /\ Goto(t, IF maxRecycled >= 0 THEN "inc" ELSE "link")
            /\ UNCHANGED state
    /\ UNCHANGED <<stack, counters, deferral, locals, bounds>>

\* Mutant: an increment that another one overwrites.
MutantLostInc(t) ==
    /\ pc[t] = "inc"
    /\ Goto(t, "link")
    /\ UNCHANGED <<stack, counters, deferral, state, locals, bounds>>

PushInc(t) ==
    /\ pc[t] = "inc"
    /\ count' = (count + 1) % CountMod
    /\ Goto(t, "link")
    /\ UNCHANGED <<stack, maxRecycled, freeing, deferral, state, locals, bounds>>

PushLink(t) ==
    /\ pc[t] = "link"
    /\ top' = [top EXCEPT ![t] = recycled]
    /\ next' = [next EXCEPT ![cur[t]] = recycled]
    /\ Goto(t, "cas")
    /\ UNCHANGED <<recycled, counters, deferral, state, cur, nxt, bounds>>

\* Mutant: the head is stored, whatever it has become.
MutantStore(t) ==
    /\ pc[t] = "cas"
    /\ recycled' = cur[t] /\ Becomes(cur[t], "recycled") /\ Back(t)
    /\ UNCHANGED <<next, counters, deferral, locals, bounds>>

PushCas(t) ==
    /\ pc[t] = "cas"
    /\ IF recycled = top[t]
       THEN recycled' = cur[t] /\ Becomes(cur[t], "recycled") /\ Back(t)
       ELSE Goto(t, "link") /\ UNCHANGED <<recycled, state>>
    /\ UNCHANGED <<next, counters, deferral, locals, bounds>>

-----------------------------------------------------------------------------
(* The listener *)

\* A socket is ready: a pool is needed for it.
Accept ==
    /\ pc[Listener] = "loop"
    /\ freeing = "no"
    /\ conns < MaxConns
    /\ conns' = conns + 1
    /\ Goto(Listener, "pop")
    /\ UNCHANGED <<stack, counters, deferral, state, locals, defers>>

\* Mutant: an empty stack is not noticed.
MutantNoNullTest ==
    /\ pc[Listener] = "pop"
    /\ top' = [top EXCEPT ![Listener] = recycled]
    /\ Goto(Listener, "next")
    /\ UNCHANGED <<stack, counters, deferral, state, cur, nxt, bounds>>

\* ap_queue_info_pop_pool(): a new pool is made when there is none ...
PopRead ==
    /\ pc[Listener] = "pop"
    /\ top' = [top EXCEPT ![Listener] = recycled]
    /\ IF recycled # Null
       THEN Goto(Listener, "next") /\ UNCHANGED <<cur, state, count, freeing>>
       ELSE IF freeing = "now"
            THEN /\ count' = 0 /\ freeing' = "done" /\ Goto(Listener, "loop")
                 /\ UNCHANGED <<cur, state>>
            ELSE \E p \in {q \in Pools : state[q] = "none"} :
                    /\ cur' = [cur EXCEPT ![Listener] = p]
                    /\ Becomes(p, "taken") /\ Goto(Listener, "accept")
                    /\ UNCHANGED <<count, freeing>>
    /\ UNCHANGED <<stack, maxRecycled, deferral, nxt, bounds>>

PopNext ==
    /\ pc[Listener] = "next"
    /\ nxt' = [nxt EXCEPT ![Listener] = next[top[Listener]]]
    /\ Goto(Listener, "popcas")
    /\ UNCHANGED <<stack, counters, deferral, state, cur, top, bounds>>

PopCas ==
    /\ pc[Listener] = "popcas"
    /\ IF recycled = top[Listener]
       THEN /\ recycled' = nxt[Listener]
            /\ cur' = [cur EXCEPT ![Listener] = recycled]
            /\ Becomes(recycled, "taken") /\ Goto(Listener, "dec")
       ELSE Goto(Listener, "pop") /\ UNCHANGED <<recycled, cur, state>>
    /\ UNCHANGED <<next, counters, deferral, top, nxt, bounds>>

\* ... and the pool taken from the stack is destroyed when all are freed.
PopDec ==
    /\ pc[Listener] = "dec"
    /\ count' = IF maxRecycled >= 0 THEN (count - 1) % CountMod ELSE count
    /\ IF freeing = "now"
       THEN Becomes(cur[Listener], "none") /\ Goto(Listener, "pop")
       ELSE UNCHANGED state /\ Goto(Listener, "accept")
    /\ UNCHANGED <<stack, maxRecycled, freeing, deferral, locals, bounds>>

\* accept() fails, or the socket is queued for a worker.
Accepted ==
    /\ pc[Listener] = "accept"
    /\ \/ Goto(Listener, "push") /\ UNCHANGED state
       \/ Goto(Listener, "loop") /\ Becomes(cur[Listener], "queued")
    /\ UNCHANGED <<stack, counters, deferral, locals, bounds>>

\* A lingering close that takes too long: close_connection()
ExpireLinger(p) ==
    /\ pc[Listener] = "loop"
    /\ state[p] = "lingering"
    /\ Becomes(p, "closing")
    /\ cur' = [cur EXCEPT ![Listener] = p]
    /\ Goto(Listener, "push")
    /\ UNCHANGED <<stack, counters, deferral, top, nxt, bounds>>

\* defer_lingering_close() of a connection that timed out
defer_lingering_close(p) ==
    /\ pc[Listener] = "loop"
    /\ state[p] = "open"
    /\ defers < MaxDefers
    /\ defers' = defers + 1
    /\ Becomes(p, "linger")
    /\ cur' = [cur EXCEPT ![Listener] = p]
    /\ Goto(Listener, "defer")
    /\ UNCHANGED <<stack, counters, deferral, top, nxt, conns>>

DeferLink ==
    /\ pc[Listener] = "defer"
    /\ top' = [top EXCEPT ![Listener] = defer]
    /\ chain' = [chain EXCEPT ![cur[Listener]] = defer]
    /\ Goto(Listener, "defercas")
    /\ UNCHANGED <<stack, counters, defer, state, cur, nxt, bounds>>

DeferCas ==
    /\ pc[Listener] = "defercas"
    /\ IF defer = top[Listener]
       THEN defer' = cur[Listener] /\ Goto(Listener, "loop")
       ELSE Goto(Listener, "defer") /\ UNCHANGED defer
    /\ UNCHANGED <<stack, counters, chain, state, locals, bounds>>

\* Mutant: the limit stays what it was.
MutantKeepLimit ==
    /\ pc[Listener] = "loop"
    /\ freeing = "no" /\ freeing' = "now"
    /\ Goto(Listener, "pop")
    /\ UNCHANGED <<stack, count, maxRecycled, deferral, state, locals, bounds>>

\* ap_queue_info_free_idle_pools(), called once, by close_listeners()
ap_queue_info_free_idle_pools ==
    /\ pc[Listener] = "loop"
    /\ freeing = "no" /\ freeing' = "now"
    /\ maxRecycled' = 0
    /\ Goto(Listener, "pop")
    /\ UNCHANGED <<stack, count, deferral, state, locals, bounds>>

-----------------------------------------------------------------------------
(* The workers *)

\* process_socket(): a new connection, or one that became ready. Afterwards
\* it waits in a timeout queue, or is closed.
process_socket(w, p) ==
    /\ pc[w] = "idle"
    /\ state[p] \in {"queued", "open", "lingering"}
    /\ chain' = IF state[p] = "queued" THEN [chain EXCEPT ![p] = Null]
                ELSE chain
    /\ cur' = [cur EXCEPT ![w] = p]
    /\ \E s \in {"open", "lingering", "closing"} :
         /\ state[p] = "lingering" => s # "open"
         /\ Becomes(p, s)
         /\ Goto(w, IF s = "closing" THEN "push" ELSE "chain")
    /\ UNCHANGED <<stack, counters, defer, top, nxt, bounds>>

\* The listener wakes a worker with nothing for it: there is a chain.
Wake(w) ==
    /\ pc[w] = "idle"
    /\ defer # Null
    /\ Goto(w, "chain")
    /\ UNCHANGED <<stack, counters, deferral, state, locals, bounds>>

\* "If there are deferred lingering closes, handle them now."
ChainRead(w) ==
    /\ pc[w] = "chain"
    /\ top' = [top EXCEPT ![w] = defer]
    /\ Goto(w, IF defer = Null THEN "idle" ELSE "chainnext")
    /\ UNCHANGED <<stack, counters, deferral, state, cur, nxt, bounds>>

ChainNext(w) ==
    /\ pc[w] = "chainnext"
    /\ nxt' = [nxt EXCEPT ![w] = chain[top[w]]]
    /\ Goto(w, "chaincas")
    /\ UNCHANGED <<stack, counters, deferral, state, cur, top, bounds>>



ChainCas(w) ==
    /\ pc[w] = "chaincas"
    /\ IF defer = top[w]
       THEN /\ defer' = nxt[w] /\ cur' = [cur EXCEPT ![w] = top[w]]
            /\ Goto(w, "popped")
       ELSE Goto(w, "chain") /\ UNCHANGED <<defer, cur>>
    /\ UNCHANGED <<stack, counters, chain, state, top, nxt, bounds>>

\* process_lingering_close() of the connection it got
Popped(w) ==
    /\ pc[w] = "popped"
    /\ chain' = [chain EXCEPT ![cur[w]] = Null]
    /\ \E s \in {"lingering", "closing"} :
         /\ Becomes(cur[w], s)
         /\ Goto(w, IF s = "closing" THEN "push" ELSE "chain")
    /\ UNCHANGED <<stack, counters, defer, locals, bounds>>

-----------------------------------------------------------------------------
Push(t) == PushCheck(t) \/ PushInc(t) \/ PushLink(t) \/ PushCas(t)

\* What a thread does without waiting for anything.
Step(t) ==
    \/ Push(t)
    \/ t = Listener /\ \/ PopRead \/ PopNext \/ PopCas \/ PopDec
                       \/ Accepted \/ DeferLink \/ DeferCas
    \/ t \in Workers /\ \/ ChainRead(t) \/ ChainNext(t) \/ ChainCas(t)
                        \/ Popped(t)

Next ==
    \/ \E t \in Threads : Step(t)
    \/ Accept \/ ap_queue_info_free_idle_pools
    \/ \E p \in Pools : ExpireLinger(p) \/ defer_lingering_close(p)
    \/ \E w \in Workers : Wake(w) \/ \E p \in Pools : process_socket(w, p)

Spec == Init /\ [][Next]_vars

-----------------------------------------------------------------------------
(* Properties *)

Labels == {"push", "inc", "link", "cas",
           "loop", "pop", "next", "popcas", "dec", "accept", "defer", "defercas",
           "idle", "chain", "chainnext", "chaincas", "popped"}

\* Every variable has its type; no thread follows a null link.
TypeOK ==
    /\ {recycled, defer} \subseteq Pools \cup {Null}
    /\ {next, chain} \subseteq [Pools -> Pools \cup {Null}]
    /\ count \in 0 .. CountMod - 1 /\ maxRecycled \in {InitMaxRecycled, 0}
    /\ freeing \in {"no", "now", "done"}
    /\ state \in [Pools -> {"none", "taken", "queued", "open", "linger",
                            "lingering", "closing", "recycled"}]
    /\ pc \in [Threads -> Labels]
    /\ {cur, top, nxt} \subseteq [Threads -> Pools \cup {Null}]
    /\ \A t \in Threads : /\ pc[t] \in {"next", "chainnext"} => top[t] # Null
                          /\ pc[t] \in {"push", "link", "popped"} => cur[t] # Null

In(s) == {p \in Pools : state[p] = s}
At(labels) == {t \in Threads : pc[t] \in labels}

\* The pools on a list, and that it ends.
Hop(head, link) ==
    LET h[n \in 0 .. Cardinality(Pools)] ==
            IF n = 0 THEN head ELSE IF h[n - 1] = Null THEN Null ELSE link[h[n - 1]]
    IN h
Listed(head, link) ==
    {Hop(head, link)[n] : n \in 0 .. Cardinality(Pools)} \ {Null}
Ends(head, link) == Hop(head, link)[Cardinality(Pools)] = Null

\* "any number [of pushes] can happen concurrently with a single cas-based
\* pop": the stack of recycled pools never loses a pool, has one twice or has
\* one that is in use.
RecycledExact == Ends(recycled, next) /\ Listed(recycled, next) = In("recycled")

\* While the listener is open, recycled_pools_count is the number of pools kept
\* and of those on their way in or out.
CountAccount ==
    maxRecycled >= 0 /\ freeing = "no"
        => count = Cardinality(In("recycled")) + Cardinality(At({"link", "cas"}))
                    + Cardinality(At({"dec"}))

\* Once the idle pools are freed, only pools that workers were just giving back
\* are kept.
FreeLeavesFew == freeing = "done" => Cardinality(In("recycled"))
                                        <= Cardinality(Workers)

\* AP_DEBUG_ASSERT(cs->pub.state == CONN_STATE_LINGER) (event.c:2572): a worker
\* gets from the chain only connections whose close was deferred.
PoppedIsDeferred == \A w \in At({"popped"}) : state[cur[w]] = "linger"


=============================================================================
