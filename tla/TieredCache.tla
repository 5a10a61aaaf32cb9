---------------------------- MODULE TieredCache ----------------------------
(***************************************************************************)
(* coreApi.tryCacheThenRpcApi over the tiered cache of cacheUtils.js: the  *)
(* process's LRU cache, then a redis server that outlives the process and  *)
(* may be slow, unreachable or hold garbage, then the node.  Commands for  *)
(* a redis client without a connection are queued, with no timeout, and    *)
(* nothing makes it connect again: they may wait for ever.  The model      *)
(* follows one cache key, a transaction's, because its result is cached    *)
(* under a condition (shouldCacheTransaction) and other keys touch it only *)
(* by evicting it.  Requests for the key overlap: nothing coalesces them.  *)
(*                                                                         *)
(* A result is its kind and the time at which the node read it; the node   *)
(* may give any kind at any time (arrival, confirmation, reorganisation).  *)
(* What redis takes to reply is not counted: it adds to every hit; nor is  *)
(* what a SET waits in the queue beyond RedisDelay.  Bounds:               *)
(* Requests requests at a time (each slot is used again and again), the    *)
(* clock stops at MaxTime.                                                 *)
(***************************************************************************)
EXTENDS Naturals

CONSTANTS
    Requests,
    Ttl,            \* cacheMaxAge of the key
    RpcTimeout,     \* the RPC client's timeout
    RedisDelay,     \* the longest a write is on its way to redis
    MaxTime

ASSUME TimesAssumption ==
    /\ Ttl \in Nat /\ RpcTimeout \in Nat /\ RedisDelay \in Nat /\ MaxTime \in Nat

VARIABLES
    tiers,      \* the caches this instance is configured with
    now,
    memory,     \* the LRU cache's entry: at most one
    redis,      \* the redis server's entry: at most one
    redisClient,    \* what has become of the process's redis client
    writes,     \* SET commands on their way to redis
    pc,         \* where each request stands
    value       \* the value on its way to the request, or the one it got

caches == <<memory, redis, writes>>
vars == <<tiers, now, caches, redisClient, pc, value>>

\* Before the first command; connected; once opened, but without a connection.
ClientStates == {"closed", "ready", "offline"}

\* No result; a result shouldCacheTransaction refuses; one it accepts.
Kinds == {"null", "refused", "accepted"}

Reads == [kind : Kinds, readAt : Nat]
NoValue == [kind |-> "null", readAt |-> 0]

Busy == {"lookup", "redis", "rpc", "read"}
Settled == {"done", "rejected"}

Init ==
    /\ tiers \in SUBSET {"memory", "redis"}
    /\ now = 0
    /\ memory = {} /\ redis = {} /\ writes = {}
    /\ redisClient = "closed"
    /\ pc = [r \in Requests |-> "idle"]
    /\ value = [r \in Requests |-> NoValue]

Goto(r, stage) == pc' = [pc EXCEPT ![r] = stage]

-----------------------------------------------------------------------------
(* cache.get: the tiers in order *)

Begin(r) ==
    /\ pc[r] \notin Busy
    /\ Goto(r, "lookup")
    /\ value' = [value EXCEPT ![r] = NoValue]
    /\ UNCHANGED <<tiers, now, caches, redisClient>>

\* lru-cache returns an entry until it is older than its ttl.
MemoryLive(e) == now <= e.setAt + Ttl

MemoryHit(r) ==
    /\ pc[r] = "lookup"
    /\ \E e \in memory :
        /\ MemoryLive(e)
        /\ value' = [value EXCEPT ![r] = e.read]
    /\ Goto(r, "done")
    /\ UNCHANGED <<tiers, now, caches, redisClient>>

\* Mutant: the tier's promise is resolved only if it has an entry, and
\* tryCache waits for it.
MemoryMissUnresolved(r) ==
    /\ pc[r] = "lookup"
    /\ memory # {} /\ \A e \in memory : ~MemoryLive(e)
    /\ Goto(r, IF "redis" \in tiers THEN "redis" ELSE "rpc")
    /\ UNCHANGED <<tiers, now, caches, redisClient, value>>

MemoryMiss(r) ==
    /\ pc[r] = "lookup"
    /\ \A e \in memory : ~MemoryLive(e)
    /\ Goto(r, IF "redis" \in tiers THEN "redis" ELSE "rpc")
    /\ UNCHANGED <<tiers, now, caches, redisClient, value>>

\* Mutant: the SET carries no PX, so redis keeps the entry.
RedisLiveForever(e) == TRUE

RedisLive(e) == now < e.setAt + Ttl

\* The first command opens the client (isOpen), which it then stays.  Without a
\* connection that request falls through to the node.
RedisConnect(r) ==
    /\ pc[r] = "redis" /\ redisClient = "closed"
    /\ \/ redisClient' = "ready" /\ UNCHANGED pc
       \/ redisClient' = "offline" /\ Goto(r, "rpc")
    /\ UNCHANGED <<tiers, now, caches, value>>

\* The reply is parsed and returned; it is not copied to the memory tier.
RedisHit(r) ==
    /\ pc[r] = "redis" /\ redisClient = "ready"
    /\ \E e \in redis :
        /\ RedisLive(e)
        /\ value' = [value EXCEPT ![r] = e.read]
    /\ Goto(r, "done")
    /\ UNCHANGED <<tiers, now, caches, redisClient>>

\* A miss, or an error: a reply that is not JSON, one lost with the connection.
RedisMiss(r) ==
    /\ pc[r] = "redis" /\ redisClient # "closed"
    /\ Goto(r, "rpc")
    /\ UNCHANGED <<tiers, now, caches, redisClient, value>>

-----------------------------------------------------------------------------
(* rpcApiFunction, and cache.set *)

NodeReads(r) ==
    /\ pc[r] = "rpc"
    /\ \E kind \in Kinds : value' = [value EXCEPT ![r] = [kind |-> kind, readAt |-> now]]
    /\ Goto(r, "read")
    /\ UNCHANGED <<tiers, now, caches, redisClient>>

\* Mutant: the key is used without its condition.
CacheableIfAny(v) == v.kind # "null"

\* Mutant: a missing transaction is cached like a found one.
CacheableUnlessRefused(v) == v.kind # "refused"

\* rpcResult != null && cacheConditionFunction(rpcResult)
Cacheable(v) == v.kind = "accepted"

\* Every tier gets the value; redis gets it later, or never.
SetInTiers(v) ==
    /\ memory' = IF "memory" \in tiers THEN {[read |-> v, setAt |-> now]} ELSE memory
    /\ writes' = IF "redis" \in tiers THEN writes \cup {[read |-> v, setAt |-> now]} ELSE writes

Answer(r) ==
    /\ pc[r] = "read"
    /\ IF Cacheable(value[r]) THEN SetInTiers(value[r]) ELSE UNCHANGED <<memory, writes>>
    /\ Goto(r, "done")
    /\ UNCHANGED <<tiers, now, redis, redisClient, value>>

RpcFails(r) ==
    /\ pc[r] \in {"rpc", "read"}
    /\ Goto(r, "rejected")
    /\ value' = [value EXCEPT ![r] = NoValue]
    /\ UNCHANGED <<tiers, now, caches, redisClient>>

-----------------------------------------------------------------------------
(* Redis, the LRU cache, the process, time *)

\* Redis executes a SET: the entry's PX starts now.
RedisWrites(w) ==
    /\ redisClient = "ready"
    /\ redis' = {[read |-> w.read, setAt |-> now]}
    /\ writes' = writes \ {w}
    /\ UNCHANGED <<tiers, now, memory, redisClient, pc, value>>

\* The SET fails; the error is logged.
RedisWriteFails(w) ==
    /\ writes' = writes \ {w}
    /\ UNCHANGED <<tiers, now, memory, redis, redisClient, pc, value>>

\* The connection breaks; it may come back, or not.
ConnectionChanges ==
    /\ \/ redisClient = "ready" /\ redisClient' = "offline"
       \/ redisClient = "offline" /\ redisClient' = "ready"
    /\ UNCHANGED <<tiers, now, caches, pc, value>>

\* Other keys push the entry out of the LRU cache, or redis drops it.
Evict ==
    /\ memory \cup redis # {}
    /\ \/ memory' = {} /\ UNCHANGED redis
       \/ redis' = {} /\ UNCHANGED memory
    /\ UNCHANGED <<tiers, now, writes, redisClient, pc, value>>

\* The explorer stops and starts again; redis keeps what it has.
Restart ==
    /\ memory' = {} /\ writes' = {} /\ redisClient' = "closed"
    /\ pc' = [r \in Requests |-> IF pc[r] \in Busy THEN "idle" ELSE pc[r]]
    /\ value' = [r \in Requests |-> IF pc[r] \in Busy THEN NoValue ELSE value[r]]
    /\ UNCHANGED <<tiers, now, redis>>

\* Time does not pass a deadline: what must have happened by then happens.
WithinDeadlines ==
    /\ \A r \in Requests : pc[r] = "read" => now < value[r].readAt + RpcTimeout
    /\ \A w \in writes : now < w.setAt + RedisDelay

\* Redis drops an entry that has expired; the LRU cache keeps it, but returns it no more.
Tick ==
    /\ now < MaxTime
    /\ WithinDeadlines
    /\ now' = now + 1
    /\ redis' = {e \in redis : RedisLive(e)'}
    /\ UNCHANGED <<tiers, memory, writes, redisClient, pc, value>>

-----------------------------------------------------------------------------

\* A reply is on its way only to a client with a connection.
Replies(r) == redisClient = "ready" /\ (RedisHit(r) \/ RedisMiss(r))

Step(r) ==
    \/ MemoryHit(r) \/ MemoryMiss(r) \/ RedisConnect(r) \/ Replies(r)
    \/ Answer(r) \/ RpcFails(r)

Next ==
    \/ \E r \in Requests :
        \/ Begin(r)
        \/ MemoryHit(r) \/ MemoryMiss(r)
        \/ RedisConnect(r) \/ RedisHit(r) \/ RedisMiss(r)
        \/ NodeReads(r) \/ Answer(r) \/ RpcFails(r)
    \/ \E w \in writes : RedisWrites(w) \/ RedisWriteFails(w)
    \/ ConnectionChanges
    \/ Evict
    \/ Restart
    \/ Tick

Spec == Init /\ [][Next]_vars

\* An attempt to connect and an RPC call time out, and redis replies as long as
\* there is a connection.  That there ever is one nothing guarantees.
FairSpec == Spec /\ \A r \in Requests : WF_vars(Step(r))

-----------------------------------------------------------------------------
(* Properties *)

CacheEntries == [read : Reads, setAt : Nat]

\* Every value has the shape the code gives it; null is never in a cache.
TypeOK ==
    /\ tiers \subseteq {"memory", "redis"}
    /\ now \in Nat
    /\ memory \cup redis \cup writes \subseteq CacheEntries
    /\ \A e \in memory \cup redis \cup writes : e.read.kind # "null"
    /\ redisClient \in ClientStates
    /\ pc \in [Requests -> {"idle"} \cup Busy \cup Settled]
    /\ value \in [Requests -> Reads]

Delivered(r) == pc[r] # "done" /\ pc'[r] = "done"

\* How old a value may be when it is delivered from a stage.
MaxAge(stage) ==
    CASE stage = "read"     -> RpcTimeout
      [] stage = "lookup"   -> RpcTimeout + Ttl
      [] stage = "redis"    -> RpcTimeout + RedisDelay + Ttl

\* However requests, writes, evictions and restarts interleave - a late older
\* answer may replace a newer one in both tiers - no caller gets a value the
\* node gave longer ago than the tier's expiry plus the delays on its way.
BoundedStaleness ==
    [][\A r \in Requests :
        Delivered(r) => now <= value'[r].readAt + MaxAge(pc[r])]_vars

\* "Not found" and "refused" always come from the node, asked by this
\* request: no tier, however old its entry, delays a confirmation.
UncacheableAreFresh ==
    [][\A r \in Requests :
        Delivered(r) /\ value'[r].kind # "accepted" => pc[r] = "read"]_vars

\* A request whose GET is queued in a client without a connection.
Stranded(r) == pc[r] = "redis" /\ redisClient = "offline"

\* Every request is answered, or is found waiting in the redis client at a moment
\* when that has no connection: neither a missing or expired entry, nor a broken
\* reply, nor a first attempt to connect that fails leaves the caller's promise
\* pending, and what waits for a connection goes on once it comes back and lasts.
RequestsSettle ==
    \A r \in Requests : (pc[r] \in Busy) ~> (pc[r] \notin Busy \/ Stranded(r))
=============================================================================
