--------------------------- MODULE FdQueue_proofs ---------------------------
(***************************************************************************)
(* What holds of the hand-off for every number of worker threads, of       *)
(* sockets, timer events, shutdown calls and spurious wakeups.             *)
(***************************************************************************)
EXTENDS FdQueue, FiniteSetTheorems, TLAPS

\* The listener has asked for a worker and nobody has woken it.
Asking == IF lpc \in {"lock", "blocked"} THEN 1 ELSE 0

\* What OverrunBound needs to be inductive: below zero, the reservations the
\* count owes are covered by the request of the listener, by one signal or
\* overdraft per worker and by the stray wakeups.
SignalsOwed ==
    idlers < 0 => Cardinality(Signalling) - idlers - Asking <= N + strays

\* What IdlersAccount needs: a listener that waits holds no reservation.
WaitsForOne == lpc \in {"lock", "blocked", "woken"} => ~have

IInv == TypeOK /\ WaitsForOne /\ IdlersAccount /\ SignalsOwed

-----------------------------------------------------------------------------
\* The capacity of the queue, threads_per_child, is a positive number.
LEMMA NType == N \in Nat /\ N > 0
<1>1. N \in Nat
  BY WorkersAssumption, FS_CardinalityType DEF N
<1>2. N # 0
  BY WorkersAssumption, FS_EmptySet DEF N
<1>. QED BY <1>1, <1>2

\* Counting workers: a set of workers is finite and has at most N of them.
LEMMA Counting ==
    ASSUME NEW S \in SUBSET Workers
    PROVE  /\ IsFiniteSet(S)
           /\ Cardinality(S) \in Nat /\ Cardinality(S) <= N
<1>1. IsFiniteSet(S) /\ Cardinality(S) <= N
  BY WorkersAssumption, FS_Subset DEF N
<1>. QED BY <1>1, FS_CardinalityType

\* One worker more or less changes the count by one.
LEMMA CountingOne ==
    ASSUME NEW S \in SUBSET Workers, NEW w \in Workers
    PROVE  /\ w \notin S => Cardinality(S \cup {w}) = Cardinality(S) + 1
           /\ w \in S => Cardinality(S \ {w}) = Cardinality(S) - 1
<1>1. IsFiniteSet(S)
  BY Counting
<1>2. w \notin S => Cardinality(S \cup {w}) = Cardinality(S) + 1
  BY <1>1, FS_AddElement
<1>3. w \in S => Cardinality(S \ {w}) = Cardinality(S) - 1
  BY <1>1, FS_RemoveElement
<1>. QED BY <1>2, <1>3

\* The index arithmetic of the ring stays inside it.
LEMMA WrapType == \A i \in 0 .. N - 1 : wrap(i + 1) \in 0 .. N - 1
BY NType DEF wrap

-----------------------------------------------------------------------------
\* The flags stay Boolean.
LEMMA FlagTypesStep == FlagTypes /\ [Next]_vars => FlagTypes'
<1>. SUFFICES ASSUME FlagTypes, [Next]_vars PROVE FlagTypes'
  OBVIOUS
<1>. USE DEF FlagTypes, lvars, ring, flags
<1>1. CASE Listener
  BY <1>1 DEF Listener, ap_queue_info_try_get_idler,
      ap_queue_info_wait_for_idler, RecheckIdlers, ReturnFromWait,
      ap_queue_push_socket, PushAt, ap_queue_full, ap_queue_push_timer,
      ap_queue_term
<1>2. CASE \E w \in Workers : Worker(w)
  BY <1>2 DEF Worker, ap_queue_info_set_idle, SetIdle, SignalIdler,
      CheckMayExit, ExitEarly, ap_queue_pop_something, ReturnFromPop, Take,
      TimerDone
<1>3. CASE Main
  BY <1>3 DEF Main, wakeup_listener, ap_queue_info_term, LetWorkersExit,
      ap_queue_interrupt_all, ap_queue_interrupt_one
<1>4. CASE Spurious
  BY <1>4 DEF Spurious, SpuriousIdler, SpuriousNotEmpty
<1>5. CASE UNCHANGED vars
  BY <1>5 DEF vars
<1>. QED BY <1>1, <1>2, <1>3, <1>4, <1>5 DEF Next

\* Taking an element off a queue that is not empty keeps the ring's types.
LEMMA TakeType ==
    ASSUME TypeOK, NEW w \in Workers, ~ap_queue_empty, Take(w)
    PROVE  /\ data' \in [0 .. N - 1 -> Nat]
           /\ in' \in 0 .. N - 1 /\ out' \in 0 .. N - 1
           /\ nelts' \in Nat /\ timers' \in Nat
           /\ wpc' \in [Workers -> {"busy", "signal", "check", "pop", "wait",
                             "woken", "timer", "exit", "early", "eof"}]
           /\ sd' \in [Workers -> Nat]
<1>. USE NType DEF TypeOK
<1>1. CASE timers > 0
  <2>1. /\ timers' = timers - 1
        /\ wpc' = [wpc EXCEPT ![w] = "timer"]
        /\ UNCHANGED <<ring, sd>>
    BY <1>1 DEF Take
  <2>. QED BY <1>1, <2>1 DEF ring
<1>2. CASE ~(timers > 0)
  <2>1. /\ sd' = [sd EXCEPT ![w] = data[out]]
        /\ out' = wrap(out + 1)
        /\ nelts' = nelts - 1
        /\ wpc' = [wpc EXCEPT ![w] = "busy"]
        /\ UNCHANGED <<data, in, overrun, timers>>
    BY <1>2 DEF Take
  <2>2. nelts > 0
    BY <1>2 DEF ap_queue_empty
  <2>. QED BY <2>1, <2>2, WrapType
<1>. QED BY <1>1, <1>2

\* One step keeps the types.
LEMMA TypeStep == TypeOK /\ [Next]_vars => TypeOK'
<1>. SUFFICES ASSUME TypeOK, [Next]_vars PROVE TypeOK'
  OBVIOUS
<1>. FlagTypes'
  BY FlagTypesStep DEF TypeOK
<1>. USE NType DEF TypeOK, lvars, bounds, ring, flags
<1>1. CASE ap_queue_info_try_get_idler
  BY <1>1 DEF ap_queue_info_try_get_idler
<1>2. CASE ap_queue_info_wait_for_idler
  BY <1>2 DEF ap_queue_info_wait_for_idler
<1>3. CASE RecheckIdlers
  BY <1>3 DEF RecheckIdlers
<1>4. CASE ReturnFromWait
  BY <1>4 DEF ReturnFromWait
<1>5. CASE ap_queue_push_socket
  <2>1. wpc' \in [Workers -> {"busy", "signal", "check", "pop", "wait",
                              "woken", "timer", "exit", "early", "eof"}]
    BY <1>5 DEF ap_queue_push_socket, PushAt, SignalNotEmpty
  <2>2. data' \in [0 .. N - 1 -> Nat] /\ in' \in 0 .. N - 1
    BY <1>5, WrapType DEF ap_queue_push_socket, PushAt
  <2>. QED BY <1>5, <2>1, <2>2 DEF ap_queue_push_socket, PushAt
<1>6. CASE ap_queue_push_timer
  BY <1>6 DEF ap_queue_push_timer, SignalNotEmpty
<1>7. CASE ap_queue_term
  BY <1>7 DEF ap_queue_term, BroadcastNotEmpty
<1>8. ASSUME NEW w \in Workers, Worker(w) PROVE TypeOK'
  <2>1. CASE ap_queue_info_set_idle(w)
    BY <2>1 DEF ap_queue_info_set_idle, SetIdle
  <2>2. CASE SignalIdler(w)
    BY <2>2 DEF SignalIdler
  <2>3. CASE CheckMayExit(w)
    BY <2>3 DEF CheckMayExit
  <2>4. CASE ExitEarly(w)
    BY <2>4 DEF ExitEarly
  <2>5. CASE ap_queue_pop_something(w)
    <3>1. CASE ap_queue_empty
      BY <2>5, <3>1 DEF ap_queue_pop_something
    <3>2. CASE ~ap_queue_empty
      BY <2>5, <3>2, TakeType DEF ap_queue_pop_something
    <3>. QED BY <3>1, <3>2
  <2>6. CASE ReturnFromPop(w)
    <3>1. CASE ap_queue_empty
      BY <2>6, <3>1 DEF ReturnFromPop
    <3>2. CASE ~ap_queue_empty
      BY <2>6, <3>2, TakeType DEF ReturnFromPop
    <3>. QED BY <3>1, <3>2
  <2>7. CASE TimerDone(w)
    BY <2>7 DEF TimerDone
  <2>. QED BY <1>8, <2>1, <2>2, <2>3, <2>4, <2>5, <2>6, <2>7 DEF Worker
<1>9. CASE Main
  <2>1. CASE wakeup_listener \/ LetWorkersExit
    BY <2>1 DEF wakeup_listener, LetWorkersExit
  <2>2. CASE ap_queue_info_term
    BY <2>2 DEF ap_queue_info_term
  <2>3. CASE ap_queue_interrupt_all
    BY <2>3 DEF ap_queue_interrupt_all, BroadcastNotEmpty
  <2>4. CASE ap_queue_interrupt_one
    BY <2>4 DEF ap_queue_interrupt_one, SignalNotEmpty
  <2>. QED BY <1>9, <2>1, <2>2, <2>3, <2>4 DEF Main
<1>10. CASE Spurious
  <2>1. CASE SpuriousIdler
    BY <2>1 DEF SpuriousIdler
  <2>2. ASSUME NEW w \in Workers, SpuriousNotEmpty(w) PROVE TypeOK'
    BY <2>2 DEF SpuriousNotEmpty
  <2>. QED BY <1>10, <2>1, <2>2 DEF Spurious
<1>11. CASE UNCHANGED vars
  BY <1>11 DEF vars
<1>. QED
  BY <1>1, <1>2, <1>3, <1>4, <1>5, <1>6, <1>7, <1>8, <1>9, <1>10, <1>11
  DEF Next, Listener

\* Every variable keeps its type; in and out stay inside the ring.
THEOREM TypeCorrect == Spec => []TypeOK
<1>1. Init => TypeOK
  <2>1. Init => FlagTypes
    BY DEF Init, FlagTypes
  <2>. QED BY <2>1, NType DEF Init, TypeOK
<1>. QED BY <1>1, TypeStep, PTL DEF Spec

-----------------------------------------------------------------------------
\* Waking poppers changes neither who is idle nor who is about to signal.
LEMMA WakeKeepsIdle ==
    ASSUME TypeOK, SignalNotEmpty \/ BroadcastNotEmpty
    PROVE  Idle' = Idle /\ Signalling' = Signalling
BY DEF TypeOK, SignalNotEmpty, BroadcastNotEmpty, Idle, Signalling

\* A worker that is idle and stays idle changes no count of the idle.
LEMMA MoveKeepsIdle ==
    ASSUME TypeOK, NEW w \in Workers, NEW pc,
           wpc[w] # "busy", pc # "busy", wpc' = [wpc EXCEPT ![w] = pc]
    PROVE  Idle' = Idle
BY DEF TypeOK, Idle

\* Likewise for the workers about to signal.
LEMMA MoveKeepsSignalling ==
    ASSUME TypeOK, NEW w \in Workers, NEW pc,
           wpc[w] # "signal", pc # "signal", wpc' = [wpc EXCEPT ![w] = pc]
    PROVE  Signalling' = Signalling
BY DEF TypeOK, Signalling

\* Popping a socket takes it out of the queue and the worker out of the idle;
\* popping a timer event changes neither.
LEMMA TakeKeepsBalance ==
    ASSUME TypeOK, NEW w \in Workers, wpc[w] \in {"pop", "woken"},
           ~ap_queue_empty, Take(w)
    PROVE  /\ Cardinality(Idle') - nelts' = Cardinality(Idle) - nelts
           /\ Signalling' = Signalling
<1>1. CASE timers > 0
  <2>1. wpc' = [wpc EXCEPT ![w] = "timer"] /\ nelts' = nelts
    BY <1>1 DEF Take, ring
  <2>2. Idle' = Idle /\ Signalling' = Signalling
    BY <2>1, MoveKeepsIdle, MoveKeepsSignalling
  <2>. QED BY <2>1, <2>2
<1>2. CASE ~(timers > 0)
  <2>1. wpc' = [wpc EXCEPT ![w] = "busy"] /\ nelts' = nelts - 1
    BY <1>2 DEF Take
  <2>2. Signalling' = Signalling
    BY <2>1, MoveKeepsSignalling
  <2>3. Idle' = Idle \ {w} /\ w \in Idle /\ Idle \in SUBSET Workers
    BY <2>1 DEF TypeOK, Idle
  <2>4. Cardinality(Idle') = Cardinality(Idle) - 1
    BY <2>3, CountingOne
  <2>5. Cardinality(Idle) \in Nat /\ nelts \in Nat
    BY <2>3, Counting DEF TypeOK
  <2>. QED BY <2>1, <2>2, <2>4, <2>5
<1>. QED BY <1>1, <1>2

\* The listener asks for a worker only when it holds none.
LEMMA WaitsStep == TypeOK /\ WaitsForOne /\ [Next]_vars => WaitsForOne'
<1>. SUFFICES ASSUME TypeOK, WaitsForOne, [Next]_vars PROVE WaitsForOne'
  OBVIOUS
<1>. USE DEF WaitsForOne, lvars
<1>1. CASE Listener
  BY <1>1 DEF Listener, ap_queue_info_try_get_idler,
     ap_queue_info_wait_for_idler, RecheckIdlers, ReturnFromWait,
     ap_queue_push_socket, PushAt, ap_queue_push_timer, ap_queue_term
<1>2. CASE \E w \in Workers : Worker(w)
  BY <1>2 DEF Worker, ap_queue_info_set_idle, SetIdle, SignalIdler,
     CheckMayExit, ExitEarly, ap_queue_pop_something, ReturnFromPop, TimerDone
<1>3. CASE Main
  BY <1>3 DEF Main, wakeup_listener, ap_queue_info_term, LetWorkersExit,
     ap_queue_interrupt_all, ap_queue_interrupt_one
<1>4. CASE Spurious
  BY <1>4 DEF Spurious, SpuriousIdler, SpuriousNotEmpty
<1>5. CASE UNCHANGED vars
  BY <1>5 DEF vars
<1>. QED BY <1>1, <1>2, <1>3, <1>4, <1>5 DEF Next

\* One step of any thread keeps the count of idle workers exact.
LEMMA AccountStep ==
    TypeOK /\ WaitsForOne /\ IdlersAccount /\ [Next]_vars => IdlersAccount'
<1>. SUFFICES ASSUME TypeOK, WaitsForOne, IdlersAccount, [Next]_vars
              PROVE  IdlersAccount'
  OBVIOUS
<1>0. Cardinality(Idle) \in Nat /\ Idle \in SUBSET Workers
  BY Counting DEF Idle
<1>. USE <1>0 DEF IdlersAccount, lvars, ring, Held, Pending
<1>1. CASE Listener
  <2>1. Idle' = Idle
    BY <1>1, WakeKeepsIdle DEF Listener, ap_queue_info_try_get_idler,
       ap_queue_info_wait_for_idler, RecheckIdlers, ReturnFromWait,
       ap_queue_push_socket, PushAt, ap_queue_push_timer, ap_queue_term, Idle
  <2>2. CASE ap_queue_info_try_get_idler \/ ap_queue_info_wait_for_idler
    BY <2>1, <2>2
    DEF TypeOK, ap_queue_info_try_get_idler, ap_queue_info_wait_for_idler
  <2>3. CASE RecheckIdlers \/ ReturnFromWait
    BY <2>1, <2>3 DEF TypeOK, WaitsForOne, RecheckIdlers, ReturnFromWait
  <2>4. CASE ap_queue_push_socket
    <3>1. /\ have /\ ~have' /\ nelts' = nelts + 1
          /\ UNCHANGED <<idlers, lpc>>
      BY <2>4 DEF ap_queue_push_socket, PushAt
    <3>. QED BY <2>1, <3>1 DEF TypeOK
  <2>5. CASE ap_queue_push_timer \/ ap_queue_term
    BY <2>1, <2>5 DEF ap_queue_push_timer, ap_queue_term
  <2>. QED BY <1>1, <2>2, <2>3, <2>4, <2>5 DEF Listener
<1>2. ASSUME NEW w \in Workers, Worker(w) PROVE IdlersAccount'
  <2>1. CASE ap_queue_info_set_idle(w)
    <3>1. Idle' = Idle \cup {w} /\ w \notin Idle
      BY <2>1 DEF TypeOK, ap_queue_info_set_idle, SetIdle, Idle
    <3>2. Cardinality(Idle') = Cardinality(Idle) + 1
      BY <3>1, CountingOne
    <3>. QED BY <2>1, <3>2 DEF TypeOK, ap_queue_info_set_idle, SetIdle
  <2>2. CASE SignalIdler(w)
    <3>1. Idle' = Idle
      BY <2>2, MoveKeepsIdle DEF SignalIdler
    <3>. QED BY <2>2, <3>1 DEF TypeOK, SignalIdler
  <2>3. CASE CheckMayExit(w) \/ ExitEarly(w) \/ TimerDone(w)
    <3>1. Idle' = Idle
      BY <2>3 DEF TypeOK, Idle, CheckMayExit, ExitEarly, TimerDone
    <3>. QED BY <2>3, <3>1 DEF CheckMayExit, ExitEarly, TimerDone
  <2>4. CASE ap_queue_pop_something(w) \/ ReturnFromPop(w)
    <3>1. UNCHANGED <<idlers, have, lpc>>
      BY <2>4 DEF ap_queue_pop_something, ReturnFromPop
    <3>2. Cardinality(Idle') - nelts' = Cardinality(Idle) - nelts
      <4>1. CASE ap_queue_empty
        <5>1. Idle' = Idle /\ nelts' = nelts
          BY <2>4, <4>1
          DEF TypeOK, Idle, ap_queue_pop_something, ReturnFromPop
        <5>. QED BY <5>1
      <4>2. CASE ~ap_queue_empty
        BY <2>4, <4>2, TakeKeepsBalance
        DEF ap_queue_pop_something, ReturnFromPop
      <4>. QED BY <4>1, <4>2
    <3>. QED BY <3>1, <3>2, Counting, TypeStep DEF TypeOK, Idle
  <2>. QED BY <1>2, <2>1, <2>2, <2>3, <2>4 DEF Worker
<1>3. CASE Main
  <2>1. Idle' = Idle
    BY <1>3, WakeKeepsIdle DEF Main, wakeup_listener, ap_queue_info_term,
       LetWorkersExit, ap_queue_interrupt_all, ap_queue_interrupt_one, Idle
  <2>. QED
    BY <1>3, <2>1 DEF TypeOK, Main, wakeup_listener, ap_queue_info_term,
       LetWorkersExit, ap_queue_interrupt_all, ap_queue_interrupt_one
<1>4. CASE Spurious
  <2>1. Idle' = Idle
    BY <1>4 DEF TypeOK, Spurious, SpuriousIdler, SpuriousNotEmpty, Idle
  <2>. QED BY <1>4, <2>1 DEF Spurious, SpuriousIdler, SpuriousNotEmpty
<1>5. CASE UNCHANGED vars
  BY <1>5 DEF vars, Idle
<1>. QED BY <1>1, <1>2, <1>3, <1>4, <1>5 DEF Next

-----------------------------------------------------------------------------
\* One step keeps what the count owes covered.
LEMMA OwedStep == TypeOK /\ SignalsOwed /\ [Next]_vars => SignalsOwed'
<1>. SUFFICES ASSUME TypeOK, SignalsOwed, [Next]_vars PROVE SignalsOwed'
  OBVIOUS
<1>0. /\ Cardinality(Signalling) \in Nat /\ Signalling \in SUBSET Workers
      /\ Cardinality(Signalling) <= N
      /\ idlers \in Int /\ strays \in Nat
  BY Counting DEF Signalling, TypeOK
<1>. USE <1>0, NType DEF SignalsOwed, Asking
<1>1. CASE Listener
  <2>1. Signalling' = Signalling /\ strays' = strays
    BY <1>1, WakeKeepsIdle DEF Listener, ap_queue_info_try_get_idler,
       ap_queue_info_wait_for_idler, RecheckIdlers, ReturnFromWait,
       ap_queue_push_socket, PushAt, ap_queue_push_timer, ap_queue_term,
       Signalling, bounds
  <2>2. CASE ap_queue_info_try_get_idler
    BY <2>1, <2>2 DEF ap_queue_info_try_get_idler
  <2>3. CASE ap_queue_info_wait_for_idler
    BY <2>1, <2>3 DEF ap_queue_info_wait_for_idler
  <2>4. CASE RecheckIdlers
    BY <2>1, <2>4 DEF RecheckIdlers
  <2>5. CASE ReturnFromWait
    BY <2>1, <2>5 DEF ReturnFromWait
  <2>6. CASE ap_queue_push_socket
    <3>1. UNCHANGED <<idlers, lpc>>
      BY <2>6 DEF ap_queue_push_socket, PushAt
    <3>. QED BY <2>1, <3>1
  <2>7. CASE ap_queue_push_timer \/ ap_queue_term
    BY <2>1, <2>7 DEF ap_queue_push_timer, ap_queue_term, lvars
  <2>. QED BY <1>1, <2>2, <2>3, <2>4, <2>5, <2>6, <2>7 DEF Listener
<1>2. ASSUME NEW w \in Workers, Worker(w) PROVE SignalsOwed'
  <2>1. CASE ap_queue_info_set_idle(w)
    <3>1. UNCHANGED <<lpc, strays>> /\ idlers' = idlers + 1
      BY <2>1 DEF ap_queue_info_set_idle, SetIdle, lvars, bounds
    <3>2. CASE idlers < 0
      <4>1. Signalling' = Signalling \cup {w} /\ w \notin Signalling
        BY <2>1, <3>2
        DEF TypeOK, ap_queue_info_set_idle, SetIdle, Signalling
      <4>2. Cardinality(Signalling') = Cardinality(Signalling) + 1
        BY <4>1, CountingOne
      <4>. QED BY <3>1, <3>2, <4>2
    <3>3. CASE ~(idlers < 0)
      BY <3>1, <3>3
    <3>. QED BY <3>2, <3>3
  <2>2. CASE SignalIdler(w)
    <3>1. Signalling' = Signalling \ {w} /\ w \in Signalling
      BY <2>2 DEF TypeOK, SignalIdler, Signalling
    <3>2. Cardinality(Signalling') = Cardinality(Signalling) - 1
      BY <3>1, CountingOne
    <3>. QED BY <2>2, <3>2 DEF SignalIdler, bounds
  <2>3. CASE CheckMayExit(w) \/ ExitEarly(w) \/ TimerDone(w)
    <3>1. Signalling' = Signalling
      BY <2>3 DEF TypeOK, Signalling, CheckMayExit, ExitEarly, TimerDone
    <3>. QED
      BY <2>3, <3>1 DEF CheckMayExit, ExitEarly, TimerDone, lvars, bounds
  <2>4. CASE ap_queue_pop_something(w) \/ ReturnFromPop(w)
    <3>1. UNCHANGED <<idlers, lpc, strays>>
      BY <2>4 DEF ap_queue_pop_something, ReturnFromPop, lvars, bounds
    <3>2. Signalling' = Signalling
      <4>1. CASE ap_queue_empty
        BY <2>4, <4>1
        DEF TypeOK, Signalling, ap_queue_pop_something, ReturnFromPop
      <4>2. CASE ~ap_queue_empty
        BY <2>4, <4>2, TakeKeepsBalance
        DEF ap_queue_pop_something, ReturnFromPop
      <4>. QED BY <4>1, <4>2
    <3>. QED BY <3>1, <3>2
  <2>. QED BY <1>2, <2>1, <2>2, <2>3, <2>4 DEF Worker
<1>3. CASE Main
  <2>1. Signalling' = Signalling
    BY <1>3, WakeKeepsIdle DEF Main, wakeup_listener, ap_queue_info_term,
       LetWorkersExit, ap_queue_interrupt_all, ap_queue_interrupt_one,
       Signalling
  <2>2. CASE ap_queue_info_term
    BY <2>1, <2>2 DEF ap_queue_info_term
  <2>3. CASE ~ap_queue_info_term
    BY <1>3, <2>1, <2>3 DEF Main, wakeup_listener, LetWorkersExit,
       ap_queue_interrupt_all, ap_queue_interrupt_one, lvars, bounds
  <2>. QED BY <2>2, <2>3
<1>4. CASE Spurious
  <2>1. Signalling' = Signalling
    BY <1>4 DEF TypeOK, Spurious, SpuriousIdler, SpuriousNotEmpty, Signalling
  <2>. QED
    BY <1>4, <2>1
    DEF Spurious, SpuriousIdler, SpuriousNotEmpty, lvars, bounds
<1>5. CASE UNCHANGED vars
  BY <1>5 DEF vars, Signalling, lvars, bounds
<1>. QED BY <1>1, <1>2, <1>3, <1>4, <1>5 DEF Next

\* The strengthened invariant is inductive.
THEOREM Inductive == Spec => []IInv
<1>1. Init => IdlersAccount
  <2>1. Init => Idle = {}
    BY DEF Init, Idle
  <2>. QED BY <2>1, FS_EmptySet DEF Init, IdlersAccount, Held, Pending
<1>2. Init => WaitsForOne /\ SignalsOwed
  BY DEF Init, WaitsForOne, SignalsOwed
<1>. QED
  BY <1>1, <1>2, WaitsStep, AccountStep, OwedStep, TypeCorrect, PTL
  DEF Spec, IInv

\* The count of idle workers is exact at every step of every thread, although
\* no lock protects it.
THEOREM IdlersExact == Spec => []IdlersAccount
BY Inductive, PTL DEF IInv

\* Reservations outrun idle workers by at most one per worker, plus one per
\* wakeup of the listener that no worker caused.
THEOREM OverrunBounded == Spec => []OverrunBound
<1>1. IInv => OverrunBound
  <2>. SUFFICES ASSUME TypeOK, IdlersAccount, SignalsOwed
                PROVE  OverrunBound
    BY DEF IInv
  <2>1. /\ Cardinality(Idle) \in Nat /\ Cardinality(Idle) <= N
        /\ Cardinality(Signalling) \in Nat
    BY Counting DEF Idle, Signalling
  <2>. QED
    BY <2>1, NType DEF TypeOK, IdlersAccount, SignalsOwed, OverrunBound, Held,
       Pending, Asking
<1>. QED BY <1>1, Inductive, PTL
=============================================================================
