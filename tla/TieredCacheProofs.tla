------------------------- MODULE TieredCacheProofs -------------------------
(***************************************************************************)
(* The tiered cache's type invariant and its two freshness properties, for *)
(* any number of overlapping requests and any times.  The strengthening is *)
(* a bound on the age of what is already inside: each cached, each written *)
(* and each travelling value is not older than its stage allows.           *)
(***************************************************************************)
EXTENDS TieredCache, TLAPS

\* What went into the memory tier, or onto the way to redis, was accepted
\* and at most RpcTimeout old.
FreshWhenSet(e) == e.read.kind = "accepted" /\ e.setAt <= e.read.readAt + RpcTimeout

\* What is in redis spent at most RedisDelay more on its way there.
FreshWhenWritten(e) ==
    e.read.kind = "accepted" /\ e.setAt <= e.read.readAt + RpcTimeout + RedisDelay

CachesFresh ==
    /\ \A e \in memory \cup writes : FreshWhenSet(e)
    /\ \A e \in redis : FreshWhenWritten(e)

\* Nothing on its way is late.
InTime ==
    /\ \A w \in writes : now <= w.setAt + RedisDelay
    /\ \A r \in Requests : pc[r] = "read" => now <= value[r].readAt + RpcTimeout

AgeInv == CachesFresh /\ InTime

-----------------------------------------------------------------------------
(* Types *)

LEMMA TypeInit == Init => TypeOK
BY DEF Init, TypeOK, ClientStates, CacheEntries, Reads, NoValue, Kinds

LEMMA TypeStep == TypeOK /\ [Next]_vars => TypeOK'
<1> SUFFICES ASSUME TypeOK, [Next]_vars PROVE TypeOK'
  OBVIOUS
<1> USE DEF TypeOK, Busy, Settled, Goto, ClientStates
<1>1. ASSUME NEW r \in Requests, Begin(r) \/ RpcFails(r) PROVE TypeOK'
  <2>1. NoValue \in Reads
    BY DEF NoValue, Reads, Kinds
  <2> QED
    BY <1>1, <2>1 DEF Begin, RpcFails, caches
<1>2. ASSUME NEW r \in Requests, MemoryMiss(r) \/ RedisConnect(r) \/ RedisMiss(r) PROVE TypeOK'
  BY <1>2 DEF MemoryMiss, RedisConnect, RedisMiss, caches
<1>3. ASSUME NEW r \in Requests, MemoryHit(r) PROVE TypeOK'
  <2>1. PICK e \in memory : value' = [value EXCEPT ![r] = e.read]
    BY <1>3 DEF MemoryHit
  <2>2. e.read \in Reads
    BY DEF CacheEntries
  <2> QED
    BY <1>3, <2>1, <2>2 DEF MemoryHit, caches
<1>4. ASSUME NEW r \in Requests, RedisHit(r) PROVE TypeOK'
  <2>1. PICK e \in redis : value' = [value EXCEPT ![r] = e.read]
    BY <1>4 DEF RedisHit
  <2>2. e.read \in Reads
    BY DEF CacheEntries
  <2> QED
    BY <1>4, <2>1, <2>2 DEF RedisHit, caches
<1>5. ASSUME NEW r \in Requests, NodeReads(r) PROVE TypeOK'
  BY <1>5 DEF NodeReads, caches, Reads
<1>6. ASSUME NEW r \in Requests, Answer(r) PROVE TypeOK'
  <2>1. value[r] \in Reads
    OBVIOUS
  <2>2. CASE Cacheable(value[r])
    <3>1. [read |-> value[r], setAt |-> now] \in CacheEntries
      BY <2>1 DEF CacheEntries
    <3> QED
      BY <1>6, <2>2, <3>1 DEF Answer, SetInTiers, Cacheable
  <2>3. CASE ~Cacheable(value[r])
    BY <1>6, <2>3 DEF Answer
  <2> QED
    BY <2>2, <2>3
<1>7. ASSUME NEW w \in writes, RedisWrites(w) PROVE TypeOK'
  <2>1. [read |-> w.read, setAt |-> now] \in CacheEntries
    BY DEF CacheEntries
  <2>2. w.read.kind # "null"
    OBVIOUS
  <2> QED
    BY <1>7, <2>1, <2>2 DEF RedisWrites
<1>8. ASSUME NEW w \in writes, RedisWriteFails(w) PROVE TypeOK'
  BY <1>8 DEF RedisWriteFails
<1>9. CASE Evict \/ ConnectionChanges
  BY <1>9 DEF Evict, ConnectionChanges, caches
<1>10. CASE Restart
  <2>1. NoValue \in Reads
    BY DEF NoValue, Reads, Kinds
  <2> QED
    BY <1>10, <2>1 DEF Restart
<1>11. CASE Tick
  BY <1>11 DEF Tick, caches
<1>12. CASE UNCHANGED vars
  BY <1>12 DEF vars, caches
<1> QED
  BY <1>1, <1>2, <1>3, <1>4, <1>5, <1>6, <1>7, <1>8, <1>9, <1>10, <1>11, <1>12 DEF Next

\* The cache's state always has the shape the code gives it, and null is
\* never cached.
THEOREM CacheTypeOK == Spec => []TypeOK
BY TypeInit, TypeStep, PTL DEF Spec

-----------------------------------------------------------------------------
(* Ages *)

LEMMA AgeInit == Init => AgeInv
BY DEF Init, AgeInv, CachesFresh, InTime

LEMMA AgeStep == TypeOK /\ AgeInv /\ [Next]_vars => AgeInv'
<1> SUFFICES ASSUME TypeOK, AgeInv, [Next]_vars PROVE AgeInv'
  OBVIOUS
<1> USE TimesAssumption DEF AgeInv, CachesFresh, InTime, FreshWhenSet, FreshWhenWritten
<1>1. ASSUME NEW r \in Requests,
             Begin(r) \/ MemoryHit(r) \/ MemoryMiss(r) \/ RedisConnect(r) \/ RedisHit(r)
                \/ RedisMiss(r) \/ RpcFails(r)
      PROVE AgeInv'
  <2>1. UNCHANGED <<caches, now>>
    BY <1>1 DEF Begin, MemoryHit, MemoryMiss, RedisConnect, RedisHit, RedisMiss, RpcFails
  <2>2. \A q \in Requests : pc'[q] = "read" => pc[q] = "read" /\ value'[q] = value[q]
    BY <1>1 DEF Begin, MemoryHit, MemoryMiss, RedisConnect, RedisHit, RedisMiss, RpcFails, Goto, TypeOK
  <2> QED
    BY <2>1, <2>2 DEF caches
<1>2. ASSUME NEW r \in Requests, NodeReads(r) PROVE AgeInv'
  <2>1. UNCHANGED <<caches, now>>
    BY <1>2 DEF NodeReads
  <2>2. \A q \in Requests \ {r} : pc'[q] = pc[q] /\ value'[q] = value[q]
    BY <1>2 DEF NodeReads, Goto, TypeOK
  <2>3. value'[r].readAt = now
    BY <1>2 DEF NodeReads, TypeOK
  <2>4. \A q \in Requests : pc'[q] = "read" => now <= value'[q].readAt + RpcTimeout
    BY <2>2, <2>3 DEF TypeOK
  <2> QED
    BY <2>1, <2>4 DEF caches
<1>3. ASSUME NEW r \in Requests, Answer(r) PROVE AgeInv'
  <2>1. now <= value[r].readAt + RpcTimeout
    BY <1>3 DEF Answer
  <2>2. \A e \in (memory \cup writes)' : e \in memory \cup writes
            \/ (Cacheable(value[r]) /\ e = [read |-> value[r], setAt |-> now])
    BY <1>3 DEF Answer, SetInTiers
  <2>3. \A e \in (memory \cup writes)' : FreshWhenSet(e)
    BY <2>1, <2>2 DEF Cacheable
  <2>4. redis' = redis /\ now' = now /\ value' = value
    BY <1>3 DEF Answer
  <2>5. \A w \in writes' : now <= w.setAt + RedisDelay
    <3> SUFFICES ASSUME NEW w \in writes' PROVE now <= w.setAt + RedisDelay
      OBVIOUS
    <3>1. w \in writes \/ w = [read |-> value[r], setAt |-> now]
      BY <1>3 DEF Answer, SetInTiers
    <3> QED
      BY <3>1 DEF TypeOK
  <2>6. \A q \in Requests : pc'[q] = "read" => pc[q] = "read"
    BY <1>3 DEF Answer, Goto, TypeOK
  <2> QED
    BY <2>3, <2>4, <2>5, <2>6
<1>4. ASSUME NEW w \in writes, RedisWrites(w) PROVE AgeInv'
  <2>1. w.read.readAt \in Nat /\ w.setAt \in Nat /\ now \in Nat
    BY DEF TypeOK, CacheEntries, Reads
  <2>2. now <= w.read.readAt + RpcTimeout + RedisDelay
    BY <2>1
  <2>3. \A e \in redis' : FreshWhenWritten(e)
    BY <1>4, <2>2 DEF RedisWrites
  <2> QED
    BY <1>4, <2>3 DEF RedisWrites
<1>5. ASSUME NEW w \in writes, RedisWriteFails(w) PROVE AgeInv'
  BY <1>5 DEF RedisWriteFails
<1>6. CASE Evict \/ ConnectionChanges
  BY <1>6 DEF Evict, ConnectionChanges, caches
<1>7. CASE Restart
  <2>1. \A q \in Requests : pc'[q] # "read"
    BY <1>7 DEF Restart, Busy
  <2> QED
    BY <1>7, <2>1 DEF Restart
<1>8. CASE Tick
  <2>1. /\ memory' = memory /\ writes' = writes /\ pc' = pc /\ value' = value
        /\ now' = now + 1
        /\ redis' \subseteq redis
    BY <1>8 DEF Tick
  <2>2. \A w \in writes : now + 1 <= w.setAt + RedisDelay
    BY <1>8 DEF Tick, WithinDeadlines, TypeOK, CacheEntries
  <2>3. \A q \in Requests : pc[q] = "read" => now + 1 <= value[q].readAt + RpcTimeout
    BY <1>8 DEF Tick, WithinDeadlines, TypeOK, Reads
  <2> QED
    BY <2>1, <2>2, <2>3
<1>9. CASE UNCHANGED vars
  BY <1>9 DEF vars, caches
<1> QED
  BY <1>1, <1>2, <1>3, <1>4, <1>5, <1>6, <1>7, <1>8, <1>9 DEF Next

LEMMA AgesBounded == Spec => []AgeInv
BY CacheTypeOK, AgeInit, AgeStep, PTL DEF Spec

-----------------------------------------------------------------------------
(* Deliveries *)

\* Only three actions deliver, each from a stage of its own.
LEMMA DeliverySteps ==
    ASSUME TypeOK, [Next]_vars, NEW r \in Requests, Delivered(r)
    PROVE MemoryHit(r) \/ RedisHit(r) \/ Answer(r)
<1> USE DEF TypeOK, Delivered, Goto
<1>1. ASSUME NEW q \in Requests,
             Begin(q) \/ MemoryMiss(q) \/ RedisConnect(q) \/ RedisMiss(q) \/ NodeReads(q) \/ RpcFails(q)
      PROVE FALSE
  BY <1>1 DEF Begin, MemoryMiss, RedisConnect, RedisMiss, NodeReads, RpcFails
<1>2. ASSUME NEW q \in Requests, MemoryHit(q) \/ RedisHit(q) \/ Answer(q) PROVE q = r
  BY <1>2 DEF MemoryHit, RedisHit, Answer
<1>3. ASSUME NEW w \in writes, RedisWrites(w) \/ RedisWriteFails(w) PROVE FALSE
  BY <1>3 DEF RedisWrites, RedisWriteFails
<1>4. CASE Evict \/ ConnectionChanges \/ Restart \/ Tick \/ UNCHANGED vars
  BY <1>4 DEF Evict, ConnectionChanges, Restart, Tick, vars
<1> QED
  BY <1>1, <1>2, <1>3, <1>4 DEF Next

\* No caller gets a value older than the tier's expiry and the delays on its
\* way allow, for any number of requests, any times and any interleaving.
THEOREM StalenessIsBounded == Spec => BoundedStaleness
<1>1. ASSUME TypeOK, AgeInv, [Next]_vars, NEW r \in Requests, Delivered(r)
      PROVE now <= value'[r].readAt + MaxAge(pc[r])
  <2> USE TimesAssumption DEF AgeInv, CachesFresh, InTime, FreshWhenSet, FreshWhenWritten
  <2>1. CASE MemoryHit(r)
    <3>1. PICK e \in memory : MemoryLive(e) /\ value' = [value EXCEPT ![r] = e.read]
      BY <2>1 DEF MemoryHit
    <3>2. e.read.readAt \in Nat /\ e.setAt \in Nat /\ now \in Nat
      BY <1>1 DEF TypeOK, CacheEntries, Reads
    <3>3. value'[r] = e.read
      BY <1>1, <3>1 DEF TypeOK
    <3>4. now <= e.read.readAt + (RpcTimeout + Ttl)
      BY <1>1, <3>1, <3>2 DEF MemoryLive
    <3> QED
      BY <2>1, <3>3, <3>4 DEF MaxAge, MemoryHit
  <2>2. CASE RedisHit(r)
    <3>1. PICK e \in redis : RedisLive(e) /\ value' = [value EXCEPT ![r] = e.read]
      BY <2>2 DEF RedisHit
    <3>2. e.read.readAt \in Nat /\ e.setAt \in Nat /\ now \in Nat
      BY <1>1 DEF TypeOK, CacheEntries, Reads
    <3>3. value'[r] = e.read
      BY <1>1, <3>1 DEF TypeOK
    <3>4. now <= e.read.readAt + (RpcTimeout + RedisDelay + Ttl)
      BY <1>1, <3>1, <3>2 DEF RedisLive
    <3> QED
      BY <2>2, <3>3, <3>4 DEF MaxAge, RedisHit
  <2>3. CASE Answer(r)
    BY <1>1, <2>3 DEF Answer, MaxAge
  <2> QED
    BY <1>1, <2>1, <2>2, <2>3, DeliverySteps
<1>2. TypeOK /\ AgeInv /\ [Next]_vars =>
        [\A r \in Requests : Delivered(r) => now <= value'[r].readAt + MaxAge(pc[r])]_vars
  BY <1>1
<1> QED
  BY <1>2, CacheTypeOK, AgesBounded, PTL DEF Spec, BoundedStaleness

\* A result the condition refuses never reaches a caller through a tier.
THEOREM UncacheableIsFresh == Spec => UncacheableAreFresh
<1>1. ASSUME TypeOK, AgeInv, [Next]_vars, NEW r \in Requests,
             Delivered(r), value'[r].kind # "accepted"
      PROVE pc[r] = "read"
  <2> USE DEF AgeInv, CachesFresh, FreshWhenSet, FreshWhenWritten
  <2>1. ~MemoryHit(r)
    BY <1>1 DEF MemoryHit, TypeOK
  <2>2. ~RedisHit(r)
    BY <1>1 DEF RedisHit, TypeOK
  <2> QED
    BY <1>1, <2>1, <2>2, DeliverySteps DEF Answer
<1>2. TypeOK /\ AgeInv /\ [Next]_vars =>
        [\A r \in Requests :
            Delivered(r) /\ value'[r].kind # "accepted" => pc[r] = "read"]_vars
  BY <1>1
<1> QED
  BY <1>2, CacheTypeOK, AgesBounded, PTL DEF Spec, UncacheableAreFresh
=============================================================================
