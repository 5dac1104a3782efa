------------------------------- MODULE Shmcb -------------------------------
(***************************************************************************)
(* A subcache of modules/cache/mod_socache_shmcb.c: a cyclic queue of      *)
(* indexes over a cyclic buffer of bytes, in shared memory. The callers    *)
(* hold a mutex (AP_SOCACHE_FLAG_NOTMPSAFE), so an operation is one step.  *)
(* Subcaches are independent: SHMCB_MASK() sends an id to one of them. Ids *)
(* have one length, of at least 4 bytes in the code and of at least 1      *)
(* here. Byte k of x is <<x, k>>. The statistics are left out.             *)
(***************************************************************************)
EXTENDS Integers, Sequences, FiniteSetsExt

CONSTANTS
    Ids, IdLen,
    Values, ValLen,     \* a function: the length of each value
    DestLens,           \* sizes of the buffers of callers
    DataSize,           \* subcache_data_size
    IndexNum,           \* index_num
    MaxTime,            \* bound: the last time
    None

ASSUME SizesAssumption ==
    /\ IdLen \in Nat \ {0} /\ ValLen \in [Values -> Nat]
    /\ DataSize \in Nat \ {0} /\ IndexNum \in Nat \ {0}
    /\ DestLens \subseteq Nat /\ MaxTime \in Nat

VARIABLES
    sub,        \* the SHMCBSubcache
    index,      \* the array of SHMCBIndex
    data,       \* the data area
    now,        \* apr_time_now()
    answer      \* what the last operation gave its caller

vars == <<sub, index, data, now, answer>>

Blank == <<None, 0>>
Bytes(x, len) == [k \in 1 .. len |-> <<x, k>>]

\* socache_shmcb_init(): the subcache is empty, the memory is zero
Init ==
    /\ sub = [idx_pos |-> 0, idx_used |-> 0, data_pos |-> 0, data_used |-> 0]
    /\ index = [i \in 0 .. IndexNum - 1 |->
                   [expires |-> 0, data_pos |-> 0, data_used |-> 0,
                    removed |-> FALSE]]
    /\ data = [i \in 0 .. DataSize - 1 |-> Blank]
    /\ now = 0 /\ answer = None

-----------------------------------------------------------------------------
(* Cyclic functions *)

CYCLIC_INCREMENT(val, inc, mod) == (val + inc) % mod

CYCLIC_SPACE(val1, val2, mod) ==
    IF val2 >= val1 THEN val2 - val1 ELSE val2 + mod - val1

\* Mutant: the second part is put behind the first.
MutantNoSplit(d, off, src) ==
    [i \in DOMAIN d |->
        IF i >= off /\ i - off < Len(src) THEN src[i - off + 1] ELSE d[i]]

\* d with src written at off, in one part or in two
ntoc_memcpy(d, off, src) ==
    IF off + Len(src) < DataSize
    THEN [i \in DOMAIN d |->
            IF i \in off .. off + Len(src) - 1 THEN src[i - off + 1] ELSE d[i]]
    ELSE [i \in DOMAIN d |->
            IF i >= off THEN src[i - off + 1]
            ELSE IF i < Len(src) + off - DataSize
                 THEN src[i + DataSize - off + 1] ELSE d[i]]

\* len bytes of d, from off on
cton_memcpy(d, off, len) ==
    [k \in 1 .. len |->
        IF off + len < DataSize \/ k <= DataSize - off
        THEN d[off + k - 1] ELSE d[k - 1 - (DataSize - off)]]

cyclic_memcmp(d, off, src) == cton_memcpy(d, off, Len(src)) = src

-----------------------------------------------------------------------------
(* Subcache-level operations; x is a subcache and ix its indexes *)

\* The position of the k-th index in use, from 0.
Nth(x, k) == CYCLIC_INCREMENT(x.idx_pos, k, IndexNum)

InUse(x) == {Nth(x, k) : k \in 0 .. x.idx_used - 1}

\* Mutant: the data area still begins where it did.
MutantExpire(x, ix) ==
    LET gone(k) == ix[Nth(x, k)].removed \/ ix[Nth(x, k)].expires <= now
        loop == Min({k \in 0 .. x.idx_used : k = x.idx_used \/ ~gone(k)})
        first == Nth(x, loop)
    IN  IF loop = x.idx_used THEN [x EXCEPT !.idx_used = 0, !.data_used = 0]
        ELSE [x EXCEPT !.idx_pos = first, !.idx_used = @ - loop,
                       !.data_used = @ - CYCLIC_SPACE(x.data_pos,
                                             ix[first].data_pos, DataSize)]

\* shmcb_subcache_expire(): the removed and expired indexes at the front go.
shmcb_subcache_expire(x, ix) ==
    LET gone(k) == ix[Nth(x, k)].removed \/ ix[Nth(x, k)].expires <= now
        loop == Min({k \in 0 .. x.idx_used : k = x.idx_used \/ ~gone(k)})
        first == Nth(x, loop)
    IN  IF loop = 0 THEN x
        ELSE IF loop = x.idx_used
        THEN [x EXCEPT !.idx_used = 0, !.data_used = 0]
        ELSE [idx_pos |-> first, idx_used |-> x.idx_used - loop,
              data_pos |-> ix[first].data_pos,
              data_used |-> x.data_used -
                  CYCLIC_SPACE(x.data_pos, ix[first].data_pos, DataSize)]

Fits(x, total) == DataSize - x.data_used >= total

\* One turn of the loop that force-expires: the first index goes.
Scroll(x, ix) ==
    LET second == Nth(x, 1)
    IN  IF x.idx_used = 1
        THEN [x EXCEPT !.idx_pos = second, !.idx_used = 0, !.data_used = 0]
        ELSE [idx_pos |-> second, idx_used |-> x.idx_used - 1,
              data_pos |-> ix[second].data_pos,
              data_used |-> x.data_used -
                  CYCLIC_SPACE(ix[x.idx_pos].data_pos, ix[second].data_pos,
                               DataSize)]

\* Mutants: the number of indexes is not looked at; one index always goes.
MutantIgnoreIndexes(x, ix, total) ==
    LET after[k \in 0 .. x.idx_used] ==
            IF k = 0 THEN x ELSE Scroll(after[k - 1], ix)
    IN  after[Min({k \in 0 .. x.idx_used : Fits(after[k], total)})]
MutantScrollAlways(x, ix, total) ==
    LET after[k \in 0 .. x.idx_used] ==
            IF k = 0 THEN x ELSE Scroll(after[k - 1], ix)
    IN  IF x.idx_used = 0 THEN x
        ELSE after[Min({k \in 1 .. x.idx_used : Fits(after[k], total)})]

\* Indexes are force-expired, oldest first, until there is enough space.
MakeRoom(x, ix, total) ==
    LET after[k \in 0 .. x.idx_used] ==
            IF k = 0 THEN x ELSE Scroll(after[k - 1], ix)
        enough == {k \in 1 .. x.idx_used :
                      after[k].idx_used = 0 \/ Fits(after[k], total)}
    IN  IF Fits(x, total) /\ x.idx_used # IndexNum THEN x
        ELSE after[Min(enough)]

\* Where id is: the first match among the indexes in use, from 0
Matches(x, ix, id) ==
    {k \in 0 .. x.idx_used - 1 :
        /\ ~ix[Nth(x, k)].removed
        /\ cyclic_memcmp(data, ix[Nth(x, k)].data_pos, Bytes(id, IdLen))}

\* shmcb_subcache_remove()
shmcb_subcache_remove(x, ix, id) ==
    IF Matches(x, ix, id) = {} THEN ix
    ELSE [ix EXCEPT ![Nth(x, Min(Matches(x, ix, id)))].removed = TRUE]

\* shmcb_subcache_store(), with the removal before it, when v is not too large
Insert(id, v, expiry) ==
    LET total == IdLen + ValLen[v]
        ix == shmcb_subcache_remove(sub, index, id)
        x == MakeRoom(shmcb_subcache_expire(sub, ix), ix, total)
        id_offset == CYCLIC_INCREMENT(x.data_pos, x.data_used, DataSize)
        data_offset == CYCLIC_INCREMENT(x.data_pos, x.data_used + IdLen, DataSize)
    IN  /\ data' = ntoc_memcpy(ntoc_memcpy(data, id_offset, Bytes(id, IdLen)),
                               data_offset, Bytes(v, ValLen[v]))
        /\ index' = [ix EXCEPT ![Nth(x, x.idx_used)] =
                       [expires |-> expiry, data_pos |-> id_offset,
                        data_used |-> total, removed |-> FALSE]]
        /\ sub' = [x EXCEPT !.data_used = @ + total, !.idx_used = @ + 1]

-----------------------------------------------------------------------------
(* Operations *)

\* What was stored under id is removed, also when the new object is too large.
socache_shmcb_store(id, v, expiry) ==
    /\ IF IdLen + ValLen[v] > DataSize
       THEN /\ index' = shmcb_subcache_remove(sub, index, id)
            /\ UNCHANGED <<sub, data>>
       ELSE Insert(id, v, expiry)
    /\ answer' = None
    /\ UNCHANGED now


\* The first match that the buffer has room for; a stale one is removed.
socache_shmcb_retrieve(id, destlen) ==
    LET found == {k \in Matches(sub, index, id) :
                    index[Nth(sub, k)].data_used - IdLen <= destlen}
        pos == Nth(sub, Min(found))
        idx == index[pos]
        offset == CYCLIC_INCREMENT(idx.data_pos, IdLen, DataSize)
    IN  /\ IF found # {} /\ idx.expires > now
           THEN answer' = cton_memcpy(data, offset, idx.data_used - IdLen)
           ELSE answer' = None
        /\ index' = IF found # {} /\ idx.expires <= now
                    THEN [index EXCEPT ![pos].removed = TRUE] ELSE index
        /\ UNCHANGED <<sub, data, now>>

socache_shmcb_remove(id) ==
    /\ index' = shmcb_subcache_remove(sub, index, id)
    /\ answer' = None
    /\ UNCHANGED <<sub, data, now>>

\* The stale indexes are removed, up to where the iterator halts.
socache_shmcb_iterate(halt) ==
    /\ halt <= sub.idx_used
    /\ LET stale == {Nth(sub, k) : k \in {j \in 0 .. halt - 1 :
                                            index[Nth(sub, j)].expires <= now}}
       IN  index' = [i \in DOMAIN index |->
                        [index[i] EXCEPT !.removed = @ \/ i \in stale]]
    /\ answer' = None
    /\ UNCHANGED <<sub, data, now>>

Tick ==
    /\ now < MaxTime
    /\ now' = now + 1
    /\ UNCHANGED <<sub, index, data, answer>>

Next ==
    \/ Tick
    \/ \E halt \in 0 .. IndexNum : socache_shmcb_iterate(halt)
    \/ \E id \in Ids :
         \/ socache_shmcb_remove(id)
         \/ \E n \in DestLens : socache_shmcb_retrieve(id, n)
         \/ \E v \in Values, expiry \in 1 .. MaxTime :
              socache_shmcb_store(id, v, expiry)

Spec == Init /\ [][Next]_vars

-----------------------------------------------------------------------------
(* Properties *)

\* Positions stay inside their areas and lengths do not exceed them; the
\* subtractions of unsigned numbers never go below zero.
TypeOK ==
    /\ sub.idx_pos \in 0 .. IndexNum - 1 /\ sub.idx_used \in 0 .. IndexNum
    /\ sub.data_pos \in 0 .. DataSize - 1 /\ sub.data_used \in 0 .. DataSize
    /\ DOMAIN index = 0 .. IndexNum - 1 /\ DOMAIN data = 0 .. DataSize - 1
    /\ now \in 0 .. MaxTime

\* The objects of the indexes in use lie one behind the other, from data_pos on,
\* and are all of the data in use: what the differences between positions that
\* expire and scroll compute with depends on.
Contiguous ==
    LET e(k) == index[Nth(sub, k)]
        sum[k \in 0 .. sub.idx_used] ==
            IF k = 0 THEN 0 ELSE sum[k - 1] + e(k - 1).data_used
    IN  /\ sub.data_used = sum[sub.idx_used]
        /\ \A k \in 0 .. sub.idx_used - 1 :
             e(k).data_pos = CYCLIC_INCREMENT(sub.data_pos, sum[k], DataSize)

ValBytes == {Bytes(v, ValLen[v]) : v \in Values}
ValueAt(idx) == cton_memcpy(data, CYCLIC_INCREMENT(idx.data_pos, IdLen, DataSize),
                            idx.data_used - IdLen)

\* An object in the cache is never overwritten, in part or by wrapping around,
\* by one stored later; and at most one object of an id is not removed.
EntriesIntact ==
    /\ \A i \in InUse(sub) :
         /\ ValueAt(index[i]) \in ValBytes
         /\ \E id \in Ids : cyclic_memcmp(data, index[i].data_pos,
                                           Bytes(id, IdLen))
    /\ \A id \in Ids : \A j, k \in Matches(sub, index, id) : j = k

\* What the cache holds for each id.
Cached ==
    [id \in Ids |->
        LET found == Matches(sub, index, id)
            idx == index[Nth(sub, Min(found))]
        IN  IF found = {} THEN None
            ELSE [val |-> ValueAt(idx), exp |-> idx.expires]]

Abstract == INSTANCE SoCache WITH
    cache <- Cached, Values <- ValBytes, Times <- 0 .. MaxTime


\* A store forgets an unexpired object only when the data area or the queue of
\* indexes is full, and never one that was stored after one that it keeps. (The
\* other operations do not move the queue.)
OldestGoFirst ==
    [][sub' # sub =>
         LET fresh == {i \in Ids : Cached[i] # None /\ Cached[i].exp > now}
             lost == {i \in fresh : Cached'[i] = None}
             at(i) == Min(Matches(sub, index, i))
             newest == index'[Nth(sub', sub'.idx_used - 1)]
             kept == {i \in fresh \ lost : \E k \in Matches(sub, index, i)' :
                                              k < sub'.idx_used - 1}
         IN  /\ lost # {} => \/ sub.idx_used = IndexNum
                             \/ ~Fits(sub, newest.data_used)
             /\ \A i \in lost, j \in kept : at(i) < at(j)]_vars
=============================================================================
