------------------------------- MODULE EdgeCache -------------------------------
(***************************************************************************)
(* The response cache of edge/mod.rs: entries by key with their size and   *)
(* expiry, and a running total of their bytes that decides about eviction. *)
(* The limit and the time to live come with each put, from the globals of  *)
(* the route table at that time, so both may differ from put to put.  Each *)
(* operation holds the cache's mutex.                                      *)
(***************************************************************************)
EXTENDS Naturals, FiniteSets, Functions

CONSTANTS
    Key,        \* cache keys
    MaxSize,    \* sizes of entries are 1..MaxSize (the key's length counts)
    ItemMax,    \* largest entry that is stored (1 MiB)
    Limits,     \* values of max_bytes, 0 among them
    Ttls,       \* values of ttl
    MaxTime     \* bound on the clock

ASSUME CacheAssumption ==
    /\ IsFiniteSet(Key)
    /\ MaxSize \in Nat /\ ItemMax \in Nat /\ MaxTime \in Nat
    /\ Limits \subseteq Nat /\ Ttls \subseteq Nat

VARIABLES
    size,     \* size of the entry of a key; 0 when there is none
    expires,  \* its expiry
    bytes,    \* CacheInner.bytes
    clock,
    limit     \* max_bytes of the last put that stored an entry

cacheVars == <<size, expires, bytes, clock, limit>>

InitCache ==
    /\ size = [k \in Key |-> 0]
    /\ expires = [k \in Key |-> 0]
    /\ bytes = 0
    /\ clock = 0
    /\ limit = 0

SaturatingSub(a, b) == IF b <= a THEN a - b ELSE 0

\* The entries without the keys in S; what the keys in S take up.
Without(S) == [k \in Key |-> IF k \in S THEN 0 ELSE size[k]]
SizeOf(S) == SumFunctionOnSet(size, S)

\* An expired entry is dropped but stays in the total.
GetKeepingBytes(k) ==
    /\ size[k] > 0 /\ expires[k] <= clock
    /\ size' = Without({k})
    /\ UNCHANGED <<expires, bytes, clock, limit>>

\* cache_get: an expired entry is removed; otherwise nothing changes.
Get(k) ==
    /\ size[k] > 0 /\ expires[k] <= clock
    /\ size' = Without({k})
    /\ bytes' = SaturatingSub(bytes, size[k])
    /\ UNCHANGED <<expires, clock, limit>>

\* The eviction loop takes keys in the order of the hash map: E is what it has
\* taken from all when the new entry of size n fits, or none is left; not earlier.
Evicted(E, all, n, left, max) ==
    /\ E = all \/ SaturatingSub(left, SizeOf(E)) + n <= max
    /\ E = {} \/ \E last \in E : SaturatingSub(left, SizeOf(E \ {last})) + n > max

\* cache_put: the entry of the same key goes first, then others until it fits.
Put(k, n, ttl, max) ==
    /\ max > 0 /\ ttl > 0
    /\ n <= max /\ n <= ItemMax
    /\ LET left == SaturatingSub(bytes, size[k])
           others == {x \in Key \ {k} : size[x] > 0}
       IN \E E \in SUBSET others :
             /\ Evicted(E, others, n, left, max)
             /\ size' = [Without(E) EXCEPT ![k] = n]
             /\ bytes' = SaturatingSub(left, SizeOf(E)) + n
    /\ expires' = [expires EXCEPT ![k] = clock + ttl]
    /\ limit' = max
    /\ UNCHANGED clock

Tick ==
    /\ clock < MaxTime
    /\ clock' = clock + 1
    /\ UNCHANGED <<size, expires, bytes, limit>>

NextCache ==
    \/ \E k \in Key : Get(k)
    \/ \E k \in Key, n \in 1..MaxSize, ttl \in Ttls, max \in Limits : Put(k, n, ttl, max)
    \/ Tick

CacheSpec == InitCache /\ [][NextCache]_cacheVars
-----------------------------------------------------------------------------
(* Properties.                                                             *)

\* The running total is the sum of the sizes of the entries, after any sequence
\* of replacements, expiries and evictions: it neither drifts up, which would
\* make the cache shrink, nor down, which would let it grow.  So the entries fit
\* in the limit of the last put that stored one, also when a reload has lowered
\* it below what the cache held.
BytesExact == bytes = SumFunction(size) /\ bytes <= limit
=============================================================================
