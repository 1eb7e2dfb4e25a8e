----------------------------- MODULE ResultCache -----------------------------
(***************************************************************************)
(* The result cache (backend/cache/result_cache.py) over its in-memory     *)
(* backend (backend/providers/caches/memory_cache.py) or over Redis        *)
(* (redis_cache.py), which expires keys by itself and whose failures count *)
(* as a miss or are swallowed.                                             *)
(*                                                                         *)
(* Storing takes two steps: the expiry is computed before the lock is      *)
(* taken, so that another call may store, or time pass, in between.        *)
(***************************************************************************)
EXTENDS Naturals

CONSTANTS
    Key,       \* cache keys
    Ttl,       \* settings.cache_ttl_seconds, in ticks
    Backend,   \* "memory", "redis" or "none"
    MaxTime,   \* bound: the clock stops there
    Inherited, \* bound: entries earlier processes may have left in Redis
    None

ASSUME CacheAssumption == /\ Ttl \in Nat
                          /\ MaxTime \in Nat
                          /\ Backend \in {"memory", "redis", "none"}
                          /\ Backend # "redis" => Inherited = {}

\* They had the same time to live.
ASSUME InheritedAssumption ==
    /\ None \notin Inherited
    /\ \A e \in Inherited : e.key \in Key /\ e.expires \in 0..Ttl

VARIABLES
    now,      \* time.monotonic()
    store,    \* store[k]: the entry under key k
    stored    \* history: every entry that was stored, by this process or before

cacheVars == <<now, store, stored>>

\* Redis may still hold what earlier processes stored.
CacheInit ==
    /\ now = 0
    /\ store \in [Key -> Inherited \cup {None}]
    /\ \A k \in Key : store[k] # None => store[k].key = k
    /\ stored = Inherited

Entry(k, v, e) == [key |-> k, value |-> v, expires |-> e]

\* Seeded fault: an entry lives through the tick in which it expires.
ExpiresLate(e) == e.expires < now

\* InMemoryCache.get: expires_at <= time.monotonic()
Expired(e) == e.expires <= now

\* ResultCache.get: what is under the key and has not expired.
Hit(k) == store[k] # None /\ ~Expired(store[k])

\* The expiry of what is stored now: ttl_seconds or self._ttl, so that no time to
\* live and one of zero are the same.
Expiry(ttl) == now + (IF ttl = 0 THEN Ttl ELSE ttl)

\* An expired entry is deleted when it is looked at.
CacheGet(k) ==
    /\ Backend # "none"
    /\ Hit(k)
    /\ UNCHANGED cacheVars

CacheMiss(k) ==
    /\ \/ ~Hit(k) /\ store' = [store EXCEPT ![k] = None]
       \/ Backend = "redis" /\ UNCHANGED store
    /\ UNCHANGED <<now, stored>>

CacheSet(k, v, e) ==
    \/ /\ store' = [store EXCEPT ![k] = Entry(k, v, e)]
       /\ stored' = stored \cup {Entry(k, v, e)}
       /\ UNCHANGED now
    \/ Backend = "redis" /\ UNCHANGED cacheVars

\* close, at shutdown, and the evictions of Redis.
CacheForgets ==
    /\ LET held == {k \in Key : store[k] # None}
       IN \E ks \in SUBSET held :
            /\ Backend = "redis" \/ ks = held
            /\ store' = [k \in Key |-> IF k \in ks THEN None ELSE store[k]]
    /\ UNCHANGED <<now, stored>>

Tick ==
    /\ now < MaxTime
    /\ now' = now + 1
    /\ UNCHANGED <<store, stored>>

=============================================================================
