------------------------------ MODULE KvStores ------------------------------
(***************************************************************************)
(* The volatile stores behind every session, code, token, lock and rate    *)
(* limit: the in-memory stores of packages/shared/src/kv-store.ts, which   *)
(* the tests and a process without REDIS_URL use, next to the Redis stores *)
(* of packages/shared/src/redis-store.ts, which production uses.  One key  *)
(* is followed; each call of a port is made on both stores at once and     *)
(* what they answer is compared.                                           *)
(*                                                                         *)
(* Time is in half seconds, because the two stores count it differently:   *)
(* the in-memory stores compare whole seconds (clock.ts rounds down),      *)
(* Redis keeps the exact instant.                                          *)
(***************************************************************************)
EXTENDS Naturals

CONSTANTS
    Payloads,      \* what a key-value entry may hold
    Elements,      \* members of a set
    Lifetimes,     \* the ttlSeconds callers pass; 0 for a session past its limit
    LastInstant,   \* bound: the half second at which the clock stops
    LastCount      \* bound: where a counter is no longer incremented

ASSUME KvAssumption ==
    /\ Lifetimes \subseteq Nat
    /\ LastInstant \in Nat
    /\ LastCount \in Nat

VARIABLES
    shape,       \* "kv", "set" or "counter": a prefix is used for one kind of store
    instant,     \* the time, in half seconds
    inMemory,    \* the entry of the Map, or Absent
    inRedis,     \* the entry in Redis, or Absent
    answers,     \* what the last call answered: [memory, redis]
    strayed,     \* a call in the lag let the two entries come apart
    lagging      \* the last call was made in the lag, or after the entries came apart

kvVars == <<shape, instant, inMemory, inRedis, answers, strayed, lagging>>

Absent == [gone |-> TRUE]
Nothing == "nothing"
Entry(value, until) == [value |-> value, until |-> until]

\* systemClock.nowSeconds: whole seconds, rounded down.
NowSeconds == instant \div 2

-----------------------------------------------------------------------------
(* What an entry shows to a reader.                                         *)

\* live: an entry past its time is dropped before it is looked at.
Live(e) == e # Absent /\ e.until > NowSeconds

RedisLive(e) == e # Absent /\ e.until > instant

\* Redis takes no lifetime below one second.
RedisTtl(ttl) == IF ttl < 1 THEN 1 ELSE ttl

RedisUntil(ttl) == instant + 2 * RedisTtl(ttl)

MemoryUntil(ttl) == NowSeconds + ttl

Empty == CASE shape = "kv" -> Nothing
           [] shape = "set" -> {}
           [] shape = "counter" -> 0

MemoryShows == IF Live(inMemory) THEN inMemory.value ELSE Empty
RedisShows == IF RedisLive(inRedis) THEN inRedis.value ELSE Empty

\* The in-memory entry has run out and the one in Redis has at most a second left.
Lag == /\ ~Live(inMemory)
       /\ RedisLive(inRedis)
       /\ inRedis.until - instant <= 2

-----------------------------------------------------------------------------
(* The in-memory stores: the new entry and the answer of each call.         *)

\* sweep: what every 256th write does to every entry.
Sweep(e) == IF e # Absent /\ e.until <= NowSeconds THEN Absent ELSE e

MemorySet(value, ttl) == Entry(value, MemoryUntil(ttl))

MemoryUpdate(value) ==
    IF Live(inMemory) THEN [inMemory EXCEPT !.value = value] ELSE Absent

MemorySetIfAbsent(value, ttl) ==
    IF Live(inMemory) THEN inMemory ELSE Entry(value, MemoryUntil(ttl))

MemoryAdd(x, ttl) == Entry(MemoryShows \union {x}, MemoryUntil(ttl))

MemoryRemove(x) ==
    IF Live(inMemory) THEN [inMemory EXCEPT !.value = @ \ {x}] ELSE Absent

MemoryIncrement(ttl) ==
    IF Live(inMemory)
    THEN [inMemory EXCEPT !.value = @ + 1]
    ELSE Entry(1, MemoryUntil(ttl))

-----------------------------------------------------------------------------
(* The Redis stores, one command or MULTI each.                             *)

\* SET key value EX ttl
RedisSet(value, ttl) == Entry(value, RedisUntil(ttl))

\* Broken variant: SET without KEEPTTL, and the key stays for good.
RedisUpdateForGood(value) ==
    IF RedisLive(inRedis) THEN Entry(value, 2 * LastInstant) ELSE Absent

\* SET key value KEEPTTL XX
RedisUpdate(value) ==
    IF RedisLive(inRedis) THEN [inRedis EXCEPT !.value = value] ELSE Absent

\* SET key value EX ttl NX
RedisSetIfAbsent(value, ttl) ==
    IF RedisLive(inRedis) THEN inRedis ELSE Entry(value, RedisUntil(ttl))

\* SADD, then EXPIRE, in one MULTI
RedisAdd(x, ttl) == Entry(RedisShows \union {x}, RedisUntil(ttl))

\* SREM; Redis drops a key whose last member goes
RedisRemove(x) ==
    IF RedisShows \subseteq {x} THEN Absent ELSE [inRedis EXCEPT !.value = @ \ {x}]

\* INCR, then EXPIRE NX, in one MULTI: only a new counter gets a lifetime
RedisIncrement(ttl) ==
    IF RedisLive(inRedis)
    THEN [inRedis EXCEPT !.value = @ + 1]
    ELSE Entry(1, RedisUntil(ttl))

-----------------------------------------------------------------------------
KvInit ==
    /\ shape \in {"kv", "set", "counter"}
    /\ instant = 0
    /\ inMemory = Absent /\ inRedis = Absent
    /\ answers = [memory |-> Nothing, redis |-> Nothing]
    /\ strayed = FALSE /\ lagging = FALSE

\* One call on both stores.  A read drops an entry that has run out, and so does the
\* sweep of every 256th write, whatever its key: it may be gone after any call.
Call(kind, memory, redis, memoryAnswer, redisAnswer) ==
    /\ shape = kind
    /\ inMemory' \in {memory, Sweep(memory)}
    /\ inRedis' = redis
    /\ answers' = [memory |-> memoryAnswer, redis |-> redisAnswer]
    /\ lagging' = (strayed \/ Lag)
    /\ UNCHANGED <<shape, instant>>

Set(value, ttl) ==
    /\ Call("kv", MemorySet(value, ttl), RedisSet(value, ttl), Nothing, Nothing)
    /\ strayed' = FALSE

Update(value) ==
    /\ Call("kv", MemoryUpdate(value), RedisUpdate(value), Live(inMemory), RedisLive(inRedis))
    /\ UNCHANGED strayed

Get ==
    /\ Call("kv", inMemory, inRedis, MemoryShows, RedisShows)
    /\ UNCHANGED strayed

GetAndDelete ==
    /\ Call("kv", Absent, Absent, MemoryShows, RedisShows)
    /\ strayed' = FALSE

SetIfAbsent(value, ttl) ==
    /\ Call("kv", MemorySetIfAbsent(value, ttl), RedisSetIfAbsent(value, ttl),
            ~Live(inMemory), ~RedisLive(inRedis))
    /\ strayed' = (strayed \/ Lag)

Add(x, ttl) ==
    /\ Call("set", MemoryAdd(x, ttl), RedisAdd(x, ttl), Nothing, Nothing)
    /\ strayed' = (strayed \/ Lag)

Remove(x) ==
    /\ Call("set", MemoryRemove(x), RedisRemove(x), Nothing, Nothing)
    /\ UNCHANGED strayed

Members ==
    /\ Call("set", inMemory, inRedis, MemoryShows, RedisShows)
    /\ UNCHANGED strayed

Increment(ttl) ==
    /\ shape = "counter"
    /\ MemoryIncrement(ttl).value <= LastCount /\ RedisIncrement(ttl).value <= LastCount
    /\ Call("counter", MemoryIncrement(ttl), RedisIncrement(ttl),
            MemoryIncrement(ttl).value, RedisIncrement(ttl).value)
    /\ strayed' = (strayed \/ Lag)

\* delete, which the key-value and the set stores have.
Delete ==
    /\ shape # "counter"
    /\ Call(shape, Absent, Absent, Nothing, Nothing)
    /\ strayed' = FALSE

HalfSecond ==
    /\ instant < LastInstant
    /\ instant' = instant + 1
    /\ UNCHANGED <<shape, inMemory, inRedis, answers, strayed, lagging>>

KvNext ==
    \/ \E value \in Payloads, ttl \in Lifetimes :
          \/ Set(value, ttl)
          \/ SetIfAbsent(value, ttl)
    \/ \E value \in Payloads : Update(value)
    \/ \E x \in Elements, ttl \in Lifetimes : Add(x, ttl)
    \/ \E x \in Elements : Remove(x)
    \/ \E ttl \in Lifetimes : Increment(ttl)
    \/ Get \/ GetAndDelete \/ Members \/ Delete \/ HalfSecond

KvSpec == KvInit /\ [][KvNext]_kvVars

-----------------------------------------------------------------------------
\* The stand-in behaves as Redis does: a key shows the same content in both stores
\* and every call answers the same, except in the lag (the in-memory entry has run
\* out up to a second before the one in Redis, since the clock rounds down and Redis
\* takes no lifetime of zero) and, after setIfAbsent, add or increment was called in
\* the lag, until the key is next written or deleted.  A test on the in-memory store
\* speaks for production on everything but that second.
StoresAgree ==
    /\ strayed \/ Lag \/ MemoryShows = RedisShows
    /\ lagging \/ answers.memory = answers.redis

=============================================================================
