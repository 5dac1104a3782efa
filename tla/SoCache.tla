------------------------------ MODULE SoCache ------------------------------
(***************************************************************************)
(* What a small object cache (include/ap_socache.h) promises its users: an *)
(* object that is found is the one last stored under its id and has not    *)
(* expired. A store may forget any other object.                           *)
(***************************************************************************)
EXTENDS Naturals

CONSTANTS Ids, Values, Times, None

VARIABLES cache,    \* the object of each id, or None
          now, answer

cacheVars == <<cache, now, answer>>

CacheInit ==
    /\ cache = [i \in Ids |-> None] /\ now = 0 /\ answer = None

\* Which value and expiry are stored is up to the caller.
Store(id) ==
    /\ cache'[id] \in [val : Values, exp : Times]
    /\ \A i \in Ids \ {id} : cache'[i] \in {cache[i], None}
    /\ answer' = None
    /\ UNCHANGED now

\* An object that does not fit takes the place of the one before it all the same.
Fail(id) ==
    /\ cache' = [cache EXCEPT ![id] = None]
    /\ answer' = None
    /\ UNCHANGED now

Remove(id) == Fail(id)

\* The object is found unless it has expired or the buffer is too small for it;
\* an expired one may be forgotten.
Retrieve(id) ==
    /\ \/ /\ cache[id] # None /\ cache[id].exp > now
          /\ answer' = cache[id].val
          /\ UNCHANGED cache
       \/ /\ cache[id] = None \/ cache[id].exp <= now
          /\ answer' = None
          /\ cache' \in {cache, [cache EXCEPT ![id] = None]}
       \/ UNCHANGED cache /\ answer' = None
    /\ UNCHANGED now

\* Expired objects are forgotten.
Iterate ==
    /\ \A i \in Ids : \/ cache'[i] = cache[i]
                      \/ cache'[i] = None /\ cache[i].exp <= now
    /\ answer' = None
    /\ UNCHANGED now

Tick ==
    /\ now' \in Times /\ now' > now
    /\ UNCHANGED <<cache, answer>>

CacheNext ==
    \/ Tick \/ Iterate
    \/ \E id \in Ids : Fail(id) \/ Remove(id) \/ Retrieve(id) \/ Store(id)

CacheSpec == CacheInit /\ [][CacheNext]_cacheVars
=============================================================================
