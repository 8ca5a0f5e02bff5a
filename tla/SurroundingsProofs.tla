------------------------ MODULE SurroundingsProofs -------------------------
(***************************************************************************)
(* The properties of the parts around the protocol, each of its own state: *)
(* the stores in memory and in Redis, the key cache across a rotation,     *)
(* provisioning across crashes and reruns, the members page next to other  *)
(* administrators, and the repositories in memory and in PostgreSQL.       *)
(***************************************************************************)
EXTENDS KvStores, Repositories, JwksCache, Provision, MembersConsole, TLAPS

-----------------------------------------------------------------------------
(* The stores: what ties the entry in memory to the one in Redis.           *)
(*                                                                         *)
(* StoresAgree is about what is shown; it is inductive only with the two    *)
(* expiry times, which rounding lets differ by less than a second, and with *)
(* the lag, which ends before the clock shows it.                           *)

EntriesOf(V) == {Absent} \union [value : V, until : Nat]

ValuesOf(kind) ==
    IF kind = "kv" THEN Payloads ELSE IF kind = "set" THEN SUBSET Elements ELSE Nat

\* In whole half seconds: Live and RedisLive at the instant i.
LastsInMemory(e, i) == e # Absent /\ 2 * e.until > i
LastsInRedis(e, i) == e # Absent /\ e.until > i

\* An entry that lives in memory lives in Redis too, with the same value and at most half a
\* second longer; an emptied set is kept in memory and dropped in Redis.  And one that lives
\* in Redis only has at most a second left.
Coupled(kind, m, r, i) ==
    /\ LastsInMemory(m, i) =>
          \/ /\ LastsInRedis(r, i) /\ r.value = m.value
             /\ 2 * m.until <= r.until /\ r.until <= 2 * m.until + 1
          \/ kind = "set" /\ m.value = {} /\ ~LastsInRedis(r, i)
    /\ ~LastsInMemory(m, i) /\ LastsInRedis(r, i) => r.until <= i + 2

KvInv ==
    /\ shape \in {"kv", "set", "counter"}
    /\ instant \in Nat
    /\ inMemory \in EntriesOf(ValuesOf(shape))
    /\ inRedis \in EntriesOf(ValuesOf(shape))
    /\ strayed \/ Coupled(shape, inMemory, inRedis, instant)
    /\ lagging \/ answers.memory = answers.redis

-----------------------------------------------------------------------------

\* An entry is not the absence of one.
LEMMA EntryIsThere ==
    ASSUME NEW V, NEW v \in V, NEW u \in Nat
    PROVE  /\ Entry(v, u) # Absent
           /\ Entry(v, u) \in EntriesOf(V)
           /\ Entry(v, u).value = v /\ Entry(v, u).until = u
  <1>1. "value" \in DOMAIN Entry(v, u) /\ "value" \notin DOMAIN Absent
    BY DEF Entry, Absent
  <1> QED
    BY <1>1 DEF Entry, EntriesOf

LEMMA EntryFields ==
    ASSUME NEW v, NEW u
    PROVE  Entry(v, u) # Absent /\ Entry(v, u).value = v /\ Entry(v, u).until = u
  <1>1. "value" \in DOMAIN Entry(v, u) /\ "value" \notin DOMAIN Absent
    BY DEF Entry, Absent
  <1> QED
    BY <1>1 DEF Entry

\* The in-memory clock rounds down, so the two ways to tell that time is over agree.
LEMMA Rounding ==
    ASSUME NEW i \in Nat, NEW u \in Nat
    PROVE  /\ i \div 2 \in Nat
           /\ u > i \div 2 <=> 2 * u > i
           /\ 2 * (i \div 2) = i \/ 2 * (i \div 2) + 1 = i
  OBVIOUS

\* What the stores show, by the expiry times in half seconds.
LEMMA Shown ==
    ASSUME KvInv
    PROVE  /\ Live(inMemory) <=> LastsInMemory(inMemory, instant)
           /\ RedisLive(inRedis) <=> LastsInRedis(inRedis, instant)
           /\ inMemory # Absent => inMemory \in [value : ValuesOf(shape), until : Nat]
           /\ inRedis # Absent => inRedis \in [value : ValuesOf(shape), until : Nat]
  <1>1. /\ inMemory # Absent => inMemory \in [value : ValuesOf(shape), until : Nat]
        /\ inRedis # Absent => inRedis \in [value : ValuesOf(shape), until : Nat]
    BY DEF KvInv, EntriesOf
  <1>2. inMemory # Absent => (inMemory.until > instant \div 2 <=> 2 * inMemory.until > instant)
    BY <1>1, Rounding DEF KvInv
  <1> QED
    BY <1>1, <1>2 DEF Live, RedisLive, LastsInMemory, LastsInRedis, NowSeconds

\* Outside the lag the two stores show the same, and apart from an emptied set both or
\* neither has a live entry.
LEMMA ShowsTheSame ==
    ASSUME KvInv, ~(strayed \/ Lag)
    PROVE  /\ MemoryShows = RedisShows
           /\ shape # "set" => (Live(inMemory) <=> RedisLive(inRedis))
           /\ RedisLive(inRedis) => Live(inMemory)
           /\ Live(inMemory) /\ RedisLive(inRedis) => inMemory.value = inRedis.value
  <1>1. Coupled(shape, inMemory, inRedis, instant)
    BY DEF KvInv
  <1>2. RedisLive(inRedis) => Live(inMemory)
    <2> SUFFICES ASSUME RedisLive(inRedis), ~Live(inMemory) PROVE FALSE
      OBVIOUS
    <2>1. inRedis.until <= instant + 2 /\ inRedis.until > instant /\ inRedis.until \in Nat
      BY <1>1, Shown DEF Coupled, LastsInRedis
    <2>2. inRedis.until - instant <= 2
      BY <2>1 DEF KvInv
    <2> QED
      BY <2>2 DEF Lag
  <1>3. shape = "set" => Empty = {}
    BY DEF Empty
  <1>4. CASE Live(inMemory) /\ RedisLive(inRedis)
    BY <1>1, <1>4, Shown DEF Coupled, MemoryShows, RedisShows
  <1>5. CASE ~RedisLive(inRedis)
    BY <1>1, <1>3, <1>5, Shown DEF Coupled, MemoryShows, RedisShows
  <1> QED
    BY <1>2, <1>4, <1>5
\* What a call does to both entries keeps the invariant, if the new entries are coupled and
\* the answers agree whenever no lag excuses them.
LEMMA CallKeeps ==
    ASSUME KvInv, shape' = shape, instant' = instant,
           NEW m \in EntriesOf(ValuesOf(shape)), inMemory' \in {m, Sweep(m)},
           NEW r \in EntriesOf(ValuesOf(shape)), inRedis' = r,
           strayed' \/ Coupled(shape, m, r, instant),
           lagging' = (strayed \/ Lag),
           strayed \/ Lag \/ answers'.memory = answers'.redis
    PROVE  KvInv'
  <1>1. Sweep(m) \in EntriesOf(ValuesOf(shape))
    BY DEF Sweep, EntriesOf
  <1>2. inMemory' \in EntriesOf(ValuesOf(shape))
    BY <1>1
  <1>3. Coupled(shape, m, r, instant) => Coupled(shape, Sweep(m), r, instant)
    <2>1. CASE m # Absent /\ m.until <= NowSeconds
      <3>1. m.until \in Nat
        BY <2>1 DEF EntriesOf
      <3>2. ~(2 * m.until > instant)
        BY <2>1, <3>1, Rounding DEF KvInv, NowSeconds
      <3> QED
        BY <2>1, <3>2 DEF Sweep, Coupled, LastsInMemory
    <2> QED
      BY <2>1 DEF Sweep
  <1>4. strayed' \/ Coupled(shape, inMemory', r, instant)
    BY <1>3
  <1>5. ValuesOf(shape)' = ValuesOf(shape)
    BY DEF ValuesOf
  <1>6. lagging' \/ answers'.memory = answers'.redis
    OBVIOUS
  <1>7. (strayed \/ Coupled(shape, inMemory, inRedis, instant))'
    BY <1>4
  <1> QED
    BY <1>2, <1>5, <1>6, <1>7 DEF KvInv

\* Entries written with one value for one lifetime are coupled.
LEMMA WrittenTogether ==
    ASSUME KvInv, NEW v \in ValuesOf(shape), NEW ttl \in Nat
    PROVE  /\ Entry(v, MemoryUntil(ttl)) \in EntriesOf(ValuesOf(shape))
           /\ Entry(v, RedisUntil(ttl)) \in EntriesOf(ValuesOf(shape))
           /\ Coupled(shape, Entry(v, MemoryUntil(ttl)), Entry(v, RedisUntil(ttl)), instant)
  <1> DEFINE mu == MemoryUntil(ttl)
             ru == RedisUntil(ttl)
  <1>1. instant \in Nat
    BY DEF KvInv
  <1>2. /\ mu \in Nat /\ ru \in Nat /\ ru > instant
        /\ 2 * mu > instant => 2 * mu <= ru /\ ru <= 2 * mu + 1
        /\ ~(2 * mu > instant) => ru <= instant + 2
    <2>1. /\ instant \div 2 \in Nat
          /\ 2 * (instant \div 2) = instant \/ 2 * (instant \div 2) + 1 = instant
      BY <1>1, Rounding
    <2>2. CASE ttl = 0
      BY <1>1, <2>1, <2>2 DEF MemoryUntil, RedisUntil, RedisTtl, NowSeconds
    <2>3. CASE ttl >= 1
      BY <1>1, <2>1, <2>3 DEF MemoryUntil, RedisUntil, RedisTtl, NowSeconds
    <2> QED
      BY <2>2, <2>3
  <1> HIDE DEF mu, ru
  <1>3. /\ Entry(v, mu) # Absent /\ Entry(v, mu) \in EntriesOf(ValuesOf(shape))
        /\ Entry(v, ru) # Absent /\ Entry(v, ru) \in EntriesOf(ValuesOf(shape))
        /\ Entry(v, mu).value = v /\ Entry(v, mu).until = mu
        /\ Entry(v, ru).value = v /\ Entry(v, ru).until = ru
    BY <1>2, EntryIsThere
  <1>4. Coupled(shape, Entry(v, mu), Entry(v, ru), instant)
    BY <1>1, <1>2, <1>3 DEF Coupled, LastsInMemory, LastsInRedis
  <1> QED
    BY <1>3, <1>4 DEF mu, ru

\* Nothing is coupled with nothing.
LEMMA NothingIsCoupled ==
    ASSUME NEW V, NEW kind, NEW i
    PROVE  Absent \in EntriesOf(V) /\ Coupled(kind, Absent, Absent, i)
  BY DEF EntriesOf, Coupled, LastsInMemory, LastsInRedis

LEMMA SetStep ==
    ASSUME KvAssumption, KvInv, NEW value \in Payloads, NEW ttl \in Lifetimes, Set(value, ttl)
    PROVE  KvInv'
  <1>1. value \in ValuesOf(shape) /\ ttl \in Nat
    BY DEF Set, Call, ValuesOf, KvAssumption
  <1> DEFINE m == Entry(value, MemoryUntil(ttl))
             r == Entry(value, RedisUntil(ttl))
  <1>2. /\ m \in EntriesOf(ValuesOf(shape)) /\ r \in EntriesOf(ValuesOf(shape))
        /\ Coupled(shape, m, r, instant)
    BY <1>1, WrittenTogether
  <1>3. /\ shape' = shape /\ instant' = instant
        /\ inMemory' \in {m, Sweep(m)} /\ inRedis' = r
        /\ lagging' = (strayed \/ Lag)
        /\ answers'.memory = answers'.redis
    BY DEF Set, Call, MemorySet, RedisSet
  <1> HIDE DEF m, r
  <1> QED
    BY <1>2, <1>3, CallKeeps

LEMMA GetAndDeleteStep ==
    ASSUME KvInv, GetAndDelete \/ Delete
    PROVE  KvInv'
  <1>1. /\ shape' = shape /\ instant' = instant
        /\ inMemory' \in {Absent, Sweep(Absent)} /\ inRedis' = Absent
        /\ lagging' = (strayed \/ Lag)
        /\ strayed \/ Lag \/ answers'.memory = answers'.redis
    BY ShowsTheSame DEF GetAndDelete, Delete, Call
  <1> QED
    BY <1>1, NothingIsCoupled, CallKeeps

\* A read changes nothing, but may drop the entry in memory that has run out.
LEMMA ReadStep ==
    ASSUME KvInv, Get \/ Members
    PROVE  KvInv'
  <1>1. /\ shape' = shape /\ instant' = instant
        /\ inMemory' \in {inMemory, Sweep(inMemory)} /\ inRedis' = inRedis
        /\ lagging' = (strayed \/ Lag)
        /\ strayed' = strayed
        /\ strayed \/ Lag \/ answers'.memory = answers'.redis
    BY ShowsTheSame DEF Get, Members, Call
  <1>2. /\ inMemory \in EntriesOf(ValuesOf(shape)) /\ inRedis \in EntriesOf(ValuesOf(shape))
        /\ strayed \/ Coupled(shape, inMemory, inRedis, instant)
    BY DEF KvInv
  <1> QED
    BY <1>1, <1>2, CallKeeps

\* An entry whose value is replaced keeps its time.
LEMMA ValueReplaced ==
    ASSUME NEW V, NEW e \in [value : V, until : Nat], NEW v \in V
    PROVE  /\ [e EXCEPT !.value = v] = Entry(v, e.until)
           /\ e.until \in Nat /\ e.value \in V /\ e = Entry(e.value, e.until) /\ e # Absent
  <1>1. e = Entry(e.value, e.until) /\ e.until \in Nat /\ e.value \in V
    BY DEF Entry
  <1> QED
    BY <1>1, EntryIsThere DEF Entry

LEMMA UpdateStep ==
    ASSUME KvInv, NEW value \in Payloads, Update(value)
    PROVE  KvInv'
  <1>1. shape = "kv" /\ value \in ValuesOf(shape)
    BY DEF Update, Call, ValuesOf
  <1> DEFINE m == MemoryUpdate(value)
             r == RedisUpdate(value)
  <1>2. m = IF Live(inMemory) THEN Entry(value, inMemory.until) ELSE Absent
    BY <1>1, Shown, ValueReplaced DEF MemoryUpdate, Live
  <1>3. r = IF RedisLive(inRedis) THEN Entry(value, inRedis.until) ELSE Absent
    BY <1>1, Shown, ValueReplaced DEF RedisUpdate, RedisLive
  <1>4. /\ Live(inMemory) => inMemory.until \in Nat /\ inMemory.until > NowSeconds
        /\ RedisLive(inRedis) => inRedis.until \in Nat
    BY Shown DEF Live, RedisLive
  <1>5. /\ m \in EntriesOf(ValuesOf(shape)) /\ r \in EntriesOf(ValuesOf(shape))
        /\ m # Absent <=> Live(inMemory)
        /\ Live(inMemory) => m.value = value /\ m.until = inMemory.until
        /\ r # Absent <=> RedisLive(inRedis)
        /\ RedisLive(inRedis) => r.value = value /\ r.until = inRedis.until
    BY <1>1, <1>2, <1>3, <1>4, EntryIsThere DEF EntriesOf
  <1> HIDE DEF m, r
  <1>6. Coupled(shape, inMemory, inRedis, instant) => Coupled(shape, m, r, instant)
    BY <1>1, <1>4, <1>5, Shown DEF Coupled, LastsInMemory, LastsInRedis
  <1>7. strayed' \/ Coupled(shape, m, r, instant)
    BY <1>6 DEF KvInv, Update
  <1>8. /\ shape' = shape /\ instant' = instant
        /\ inMemory' \in {m, Sweep(m)} /\ inRedis' = r
        /\ lagging' = (strayed \/ Lag)
        /\ answers' = [memory |-> Live(inMemory), redis |-> RedisLive(inRedis)]
    BY DEF Update, Call, m, r
  <1>9. strayed \/ Lag \/ Live(inMemory) = RedisLive(inRedis)
    BY <1>1, ShowsTheSame DEF Live, RedisLive
  <1>10. strayed \/ Lag \/ answers'.memory = answers'.redis
    BY <1>8, <1>9
  <1> QED
    BY <1>5, <1>7, <1>8, <1>10, CallKeeps

LEMMA SetIfAbsentStep ==
    ASSUME KvAssumption, KvInv, NEW value \in Payloads, NEW ttl \in Lifetimes,
           SetIfAbsent(value, ttl)
    PROVE  KvInv'
  <1>1. shape = "kv" /\ value \in ValuesOf(shape) /\ ttl \in Nat
    BY DEF SetIfAbsent, Call, ValuesOf, KvAssumption
  <1> DEFINE m == MemorySetIfAbsent(value, ttl)
             r == RedisSetIfAbsent(value, ttl)
  <1>2. /\ m \in EntriesOf(ValuesOf(shape)) /\ r \in EntriesOf(ValuesOf(shape))
    BY <1>1, WrittenTogether DEF MemorySetIfAbsent, RedisSetIfAbsent, KvInv
  <1>3. strayed \/ Lag \/ Coupled(shape, m, r, instant)
    <2> SUFFICES ASSUME ~(strayed \/ Lag) PROVE Coupled(shape, m, r, instant)
      OBVIOUS
    <2>1. Live(inMemory) <=> RedisLive(inRedis)
      BY <1>1, ShowsTheSame
    <2>2. CASE Live(inMemory)
      BY <2>1, <2>2 DEF MemorySetIfAbsent, RedisSetIfAbsent, KvInv
    <2>3. CASE ~Live(inMemory)
      BY <1>1, <2>1, <2>3, WrittenTogether DEF MemorySetIfAbsent, RedisSetIfAbsent
    <2> QED
      BY <2>2, <2>3
  <1>4. /\ shape' = shape /\ instant' = instant
        /\ inMemory' \in {m, Sweep(m)} /\ inRedis' = r
        /\ lagging' = (strayed \/ Lag) /\ strayed' = (strayed \/ Lag)
        /\ answers' = [memory |-> ~Live(inMemory), redis |-> ~RedisLive(inRedis)]
    BY DEF SetIfAbsent, Call
  <1>5. strayed \/ Lag \/ (~Live(inMemory)) = (~RedisLive(inRedis))
    BY <1>1, ShowsTheSame
  <1>6. strayed \/ Lag \/ answers'.memory = answers'.redis
    BY <1>4, <1>5
  <1>7. strayed' \/ Coupled(shape, m, r, instant)
    BY <1>3, <1>4
  <1> HIDE DEF m, r
  <1> QED
    BY <1>2, <1>4, <1>6, <1>7, CallKeeps

\* A set shows a set of elements.
LEMMA SetShown ==
    ASSUME KvInv, shape = "set"
    PROVE  MemoryShows \in SUBSET Elements /\ RedisShows \in SUBSET Elements
  <1>1. Empty = {} /\ ValuesOf(shape) = SUBSET Elements
    BY DEF Empty, ValuesOf
  <1>2. /\ Live(inMemory) => inMemory.value \in SUBSET Elements
        /\ RedisLive(inRedis) => inRedis.value \in SUBSET Elements
    BY <1>1, Shown DEF Live, RedisLive
  <1> QED
    BY <1>1, <1>2 DEF MemoryShows, RedisShows

LEMMA AddStep ==
    ASSUME KvAssumption, KvInv, NEW x \in Elements, NEW ttl \in Lifetimes, Add(x, ttl)
    PROVE  KvInv'
  <1>1. shape = "set" /\ ttl \in Nat /\ ValuesOf(shape) = SUBSET Elements
    BY DEF Add, Call, ValuesOf, KvAssumption
  <1>2. MemoryShows \union {x} \in ValuesOf(shape) /\ RedisShows \union {x} \in ValuesOf(shape)
    BY <1>1, SetShown
  <1> DEFINE m == MemoryAdd(x, ttl)
             r == RedisAdd(x, ttl)
  <1>3. m \in EntriesOf(ValuesOf(shape)) /\ r \in EntriesOf(ValuesOf(shape))
    BY <1>1, <1>2, WrittenTogether DEF MemoryAdd, RedisAdd
  <1>4. strayed \/ Lag \/ Coupled(shape, m, r, instant)
    BY <1>1, <1>2, ShowsTheSame, WrittenTogether DEF MemoryAdd, RedisAdd
  <1>5. /\ shape' = shape /\ instant' = instant
        /\ inMemory' \in {m, Sweep(m)} /\ inRedis' = r
        /\ lagging' = (strayed \/ Lag) /\ strayed' = (strayed \/ Lag)
        /\ answers'.memory = answers'.redis
    BY DEF Add, Call
  <1>6. strayed' \/ Coupled(shape, m, r, instant)
    BY <1>4, <1>5
  <1> HIDE DEF m, r
  <1> QED
    BY <1>3, <1>5, <1>6, CallKeeps

\* Redis drops the set with its last member; in memory the emptied set stays.
LEMMA RemoveStep ==
    ASSUME KvInv, NEW x \in Elements, Remove(x)
    PROVE  KvInv'
  <1>1. shape = "set" /\ ValuesOf(shape) = SUBSET Elements /\ Empty = {}
    BY DEF Remove, Call, ValuesOf, Empty
  <1> DEFINE m == MemoryRemove(x)
             r == RedisRemove(x)
  <1>2. Live(inMemory) => /\ m = Entry(inMemory.value \ {x}, inMemory.until)
                          /\ inMemory.value \ {x} \in ValuesOf(shape)
                          /\ inMemory.until \in Nat
    <2> SUFFICES ASSUME Live(inMemory) PROVE /\ m = Entry(inMemory.value \ {x}, inMemory.until)
                                             /\ inMemory.value \ {x} \in ValuesOf(shape)
                                             /\ inMemory.until \in Nat
      OBVIOUS
    <2>1. inMemory \in [value : ValuesOf(shape), until : Nat]
      BY Shown DEF Live
    <2>2. inMemory.value \ {x} \in ValuesOf(shape)
      BY <1>1, <2>1
    <2>3. [inMemory EXCEPT !.value = inMemory.value \ {x}]
             = Entry(inMemory.value \ {x}, inMemory.until)
      BY <2>1, <2>2, ValueReplaced
    <2>4. m = [inMemory EXCEPT !.value = inMemory.value \ {x}]
      BY DEF MemoryRemove
    <2>5. inMemory.until \in Nat
      BY <2>1
    <2> QED
      BY <2>2, <2>3, <2>4, <2>5
  <1>3. ~Live(inMemory) => m = Absent
    BY DEF MemoryRemove
  <1>4. RedisShows \subseteq {x} => r = Absent
    BY DEF RedisRemove
  <1>5. ~(RedisShows \subseteq {x}) =>
           /\ RedisLive(inRedis) /\ RedisShows = inRedis.value
           /\ r = Entry(inRedis.value \ {x}, inRedis.until)
           /\ inRedis.value \ {x} \in ValuesOf(shape)
           /\ inRedis.until \in Nat
    <2> SUFFICES ASSUME ~(RedisShows \subseteq {x})
                 PROVE  /\ RedisLive(inRedis) /\ RedisShows = inRedis.value
                        /\ r = Entry(inRedis.value \ {x}, inRedis.until)
                        /\ inRedis.value \ {x} \in ValuesOf(shape)
                        /\ inRedis.until \in Nat
      OBVIOUS
    <2>1. RedisLive(inRedis) /\ RedisShows = inRedis.value
      BY <1>1 DEF RedisShows
    <2>2. inRedis \in [value : ValuesOf(shape), until : Nat]
      BY <2>1, Shown DEF RedisLive
    <2>3. inRedis.value \ {x} \in ValuesOf(shape)
      BY <1>1, <2>2
    <2>4. [inRedis EXCEPT !.value = inRedis.value \ {x}]
             = Entry(inRedis.value \ {x}, inRedis.until)
      BY <2>2, <2>3, ValueReplaced
    <2>5. r = [inRedis EXCEPT !.value = inRedis.value \ {x}]
      BY DEF RedisRemove
    <2>6. inRedis.until \in Nat
      BY <2>2
    <2> QED
      BY <2>1, <2>3, <2>4, <2>5, <2>6
  <1> HIDE DEF m, r
  <1>6. m \in EntriesOf(ValuesOf(shape)) /\ r \in EntriesOf(ValuesOf(shape))
    <2>1. m \in EntriesOf(ValuesOf(shape))
      <3>1. CASE Live(inMemory)
        BY <1>2, <3>1, EntryIsThere
      <3>2. CASE ~Live(inMemory)
        BY <1>3, <3>2 DEF EntriesOf
      <3> QED
        BY <3>1, <3>2
    <2>2. r \in EntriesOf(ValuesOf(shape))
      <3>1. CASE RedisShows \subseteq {x}
        BY <1>4, <3>1 DEF EntriesOf
      <3>2. CASE ~(RedisShows \subseteq {x})
        BY <1>5, <3>2, EntryIsThere
      <3> QED
        BY <3>1, <3>2
    <2> QED
      BY <2>1, <2>2
  <1>7. Coupled(shape, inMemory, inRedis, instant) => Coupled(shape, m, r, instant)
    <2> SUFFICES ASSUME Coupled(shape, inMemory, inRedis, instant)
                 PROVE  Coupled(shape, m, r, instant)
      OBVIOUS
    <2>1. CASE Live(inMemory) /\ ~(RedisShows \subseteq {x})
      <3>1. /\ inRedis.value = inMemory.value
            /\ 2 * inMemory.until <= inRedis.until /\ inRedis.until <= 2 * inMemory.until + 1
            /\ inRedis.until > instant
        BY <1>5, <2>1, Shown DEF Coupled, LastsInRedis
      <3>2. /\ m.value = r.value /\ m.until = inMemory.until /\ r.until = inRedis.until
            /\ r # Absent
        BY <1>2, <1>5, <2>1, <3>1, EntryFields
      <3>3. 2 * m.until > instant
        BY <2>1, <3>2, Shown DEF LastsInMemory
      <3> QED
        <4>1. r.until > instant
          BY <3>1, <3>2
        <4>2. 2 * m.until <= r.until /\ r.until <= 2 * m.until + 1
          BY <3>1, <3>2
        <4>3. LastsInRedis(r, instant)
          BY <3>2, <4>1 DEF LastsInRedis
        <4>4. LastsInMemory(m, instant)
          BY <1>2, <2>1, <3>3, EntryFields DEF LastsInMemory
        <4> QED
          BY <3>2, <4>2, <4>3, <4>4 DEF Coupled
    <2>2. CASE Live(inMemory) /\ RedisShows \subseteq {x}
      <3>1. inMemory.value \ {x} = {}
        BY <1>1, <2>2, Shown DEF Coupled, RedisShows
      <3>2. m.value = {}
        BY <1>2, <2>2, <3>1, EntryFields
      <3>3. ~LastsInRedis(r, instant)
        BY <1>4, <2>2 DEF LastsInRedis
      <3> QED
        BY <1>1, <3>2, <3>3 DEF Coupled
    <2>3. CASE ~Live(inMemory)
      <3>1. ~LastsInMemory(m, instant)
        BY <1>3, <2>3 DEF LastsInMemory
      <3>2. CASE RedisShows \subseteq {x}
        BY <1>4, <3>1, <3>2 DEF Coupled, LastsInRedis
      <3>3. CASE ~(RedisShows \subseteq {x})
        <4>1. inRedis.until <= instant + 2
          BY <1>5, <2>3, <3>3, Shown DEF Coupled
        <4>2. r.until = inRedis.until
          BY <1>5, <3>3, EntryFields
        <4> QED
          BY <3>1, <4>1, <4>2 DEF Coupled
      <3> QED
        BY <3>2, <3>3
    <2> QED
      BY <2>1, <2>2, <2>3
  <1>8. strayed' \/ Coupled(shape, m, r, instant)
    BY <1>7 DEF KvInv, Remove
  <1>9. /\ shape' = shape /\ instant' = instant
        /\ inMemory' \in {m, Sweep(m)} /\ inRedis' = r
        /\ lagging' = (strayed \/ Lag)
        /\ answers'.memory = answers'.redis
    BY DEF Remove, Call, m, r
  <1> QED
    BY <1>6, <1>8, <1>9, CallKeeps

LEMMA IncrementStep ==
    ASSUME KvAssumption, KvInv, NEW ttl \in Lifetimes, Increment(ttl)
    PROVE  KvInv'
  <1>1. shape = "counter" /\ ttl \in Nat /\ ValuesOf(shape) = Nat
    BY DEF Increment, Call, ValuesOf, KvAssumption
  <1> DEFINE m == MemoryIncrement(ttl)
             r == RedisIncrement(ttl)
  <1>2. Live(inMemory) => /\ m = Entry(inMemory.value + 1, inMemory.until)
                          /\ inMemory.value + 1 \in Nat
                          /\ inMemory.until \in Nat
    <2> SUFFICES ASSUME Live(inMemory)
                 PROVE  /\ m = Entry(inMemory.value + 1, inMemory.until)
                        /\ inMemory.value + 1 \in Nat
                        /\ inMemory.until \in Nat
      OBVIOUS
    <2>1. inMemory \in [value : Nat, until : Nat]
      BY <1>1, Shown DEF Live
    <2> QED
      BY <2>1, ValueReplaced DEF MemoryIncrement
  <1>3. RedisLive(inRedis) => /\ r = Entry(inRedis.value + 1, inRedis.until)
                              /\ inRedis.value + 1 \in Nat
                              /\ inRedis.until \in Nat
    <2> SUFFICES ASSUME RedisLive(inRedis)
                 PROVE  /\ r = Entry(inRedis.value + 1, inRedis.until)
                        /\ inRedis.value + 1 \in Nat
                        /\ inRedis.until \in Nat
      OBVIOUS
    <2>1. inRedis \in [value : Nat, until : Nat]
      BY <1>1, Shown DEF RedisLive
    <2> QED
      BY <2>1, ValueReplaced DEF RedisIncrement
  <1>4. /\ ~Live(inMemory) => m = Entry(1, MemoryUntil(ttl))
        /\ ~RedisLive(inRedis) => r = Entry(1, RedisUntil(ttl))
    BY DEF MemoryIncrement, RedisIncrement
  <1>5. /\ Entry(1, MemoryUntil(ttl)) \in EntriesOf(ValuesOf(shape))
        /\ Entry(1, RedisUntil(ttl)) \in EntriesOf(ValuesOf(shape))
        /\ Coupled(shape, Entry(1, MemoryUntil(ttl)), Entry(1, RedisUntil(ttl)), instant)
    BY <1>1, WrittenTogether
  <1> HIDE DEF m, r
  <1>6. m \in EntriesOf(ValuesOf(shape)) /\ r \in EntriesOf(ValuesOf(shape))
    <2>1. ASSUME NEW v \in Nat, NEW u \in Nat
          PROVE  Entry(v, u) \in EntriesOf(ValuesOf(shape))
      BY <1>1 DEF Entry, EntriesOf
    <2> QED
      BY <1>2, <1>3, <1>4, <1>5, <2>1
  <1>7. strayed \/ Lag \/ (Coupled(shape, m, r, instant) /\ m.value = r.value)
    <2> SUFFICES ASSUME ~(strayed \/ Lag)
                 PROVE  Coupled(shape, m, r, instant) /\ m.value = r.value
      OBVIOUS
    <2>1. Live(inMemory) <=> RedisLive(inRedis)
      BY <1>1, ShowsTheSame
    <2>2. CASE Live(inMemory)
      <3>1. inMemory.value = inRedis.value
        BY <2>1, <2>2, ShowsTheSame
      <3>2. /\ m.value = r.value /\ m.until = inMemory.until /\ r.until = inRedis.until
            /\ m # Absent /\ r # Absent
        BY <1>2, <1>3, <2>1, <2>2, <3>1, EntryFields
      <3>3. Coupled(shape, inMemory, inRedis, instant)
        BY DEF KvInv
      <3> QED
        BY <1>1, <2>1, <2>2, <3>2, <3>3, Shown DEF Coupled, LastsInMemory, LastsInRedis
    <2>3. CASE ~Live(inMemory)
      BY <1>4, <1>5, <2>1, <2>3, EntryFields
    <2> QED
      BY <2>2, <2>3
  <1>8. /\ shape' = shape /\ instant' = instant
        /\ inMemory' \in {m, Sweep(m)} /\ inRedis' = r
        /\ lagging' = (strayed \/ Lag) /\ strayed' = (strayed \/ Lag)
        /\ answers' = [memory |-> m.value, redis |-> r.value]
    BY DEF Increment, Call, m, r
  <1>9. strayed \/ Lag \/ answers'.memory = answers'.redis
    BY <1>7, <1>8
  <1>10. strayed' \/ Coupled(shape, m, r, instant)
    BY <1>7, <1>8
  <1> QED
    BY <1>6, <1>8, <1>9, <1>10, CallKeeps

\* Half a second later the entry in memory may have run out and the one in Redis not: then
\* half a second or one is left to it.
LEMMA HalfSecondStep ==
    ASSUME KvInv, HalfSecond
    PROVE  KvInv'
  <1>1. /\ instant' = instant + 1
        /\ UNCHANGED <<shape, inMemory, inRedis, answers, strayed, lagging>>
    BY DEF HalfSecond
  <1>2. Coupled(shape, inMemory, inRedis, instant) =>
            Coupled(shape, inMemory, inRedis, instant + 1)
    <2>1. /\ inMemory # Absent => inMemory.until \in Nat
          /\ inRedis # Absent => inRedis.until \in Nat
          /\ instant \in Nat
      BY Shown DEF KvInv
    <2> QED
      BY <2>1 DEF Coupled, LastsInMemory, LastsInRedis
  <1>3. (strayed \/ Coupled(shape, inMemory, inRedis, instant))'
    <2>1. strayed \/ Coupled(shape, inMemory, inRedis, instant + 1)
      BY <1>2 DEF KvInv
    <2>2. Coupled(shape, inMemory, inRedis, instant)' = Coupled(shape, inMemory, inRedis, instant + 1)
      BY <1>1 DEF Coupled, LastsInMemory, LastsInRedis
    <2> QED
      BY <1>1, <2>1, <2>2
  <1>4. ValuesOf(shape)' = ValuesOf(shape)
    BY <1>1 DEF ValuesOf
  <1>5. (lagging \/ answers.memory = answers.redis)'
    BY <1>1 DEF KvInv
  <1> QED
    BY <1>1, <1>3, <1>4, <1>5 DEF KvInv

\* Both stores empty, the invariant holds at the start, and every step keeps it.
THEOREM StoresInvariance == KvSpec => []KvInv
  <1> USE KvAssumption
  <1>1. KvInit => KvInv
    BY NothingIsCoupled DEF KvInit, KvInv, EntriesOf
  <1>2. KvInv /\ [KvNext]_kvVars => KvInv'
    <2> SUFFICES ASSUME KvInv, [KvNext]_kvVars PROVE KvInv'
      OBVIOUS
    <2>1. ASSUME NEW value \in Payloads, NEW ttl \in Lifetimes,
                 Set(value, ttl) \/ SetIfAbsent(value, ttl)
          PROVE  KvInv'
      BY <2>1, SetStep, SetIfAbsentStep
    <2>2. ASSUME NEW value \in Payloads, Update(value) PROVE KvInv'
      BY <2>2, UpdateStep
    <2>3. ASSUME NEW x \in Elements, NEW ttl \in Lifetimes, Add(x, ttl) PROVE KvInv'
      BY <2>3, AddStep
    <2>4. ASSUME NEW x \in Elements, Remove(x) PROVE KvInv'
      BY <2>4, RemoveStep
    <2>5. ASSUME NEW ttl \in Lifetimes, Increment(ttl) PROVE KvInv'
      BY <2>5, IncrementStep
    <2>6. CASE Get \/ Members
      BY <2>6, ReadStep
    <2>7. CASE GetAndDelete \/ Delete
      BY <2>7, GetAndDeleteStep
    <2>8. CASE HalfSecond
      BY <2>8, HalfSecondStep
    <2>9. CASE UNCHANGED kvVars
      <3>1. UNCHANGED <<shape, instant, inMemory, inRedis, answers, strayed, lagging>>
        BY <2>9 DEF kvVars
      <3>2. ValuesOf(shape)' = ValuesOf(shape)
        BY <3>1 DEF ValuesOf
      <3>3. (strayed \/ Coupled(shape, inMemory, inRedis, instant))'
        BY <3>1 DEF KvInv
      <3>4. (lagging \/ answers.memory = answers.redis)'
        BY <3>1 DEF KvInv
      <3> QED
        BY <3>1, <3>2, <3>3, <3>4 DEF KvInv
    <2> QED
      BY <2>1, <2>2, <2>3, <2>4, <2>5, <2>6, <2>7, <2>8, <2>9 DEF KvNext
  <1> QED
    BY <1>1, <1>2, PTL DEF KvSpec

\* The in-memory store answers as Redis does, whatever is stored and for how long, except
\* in the last second of a key and, after certain calls in that second, until the key is
\* next written or deleted (kv-store.ts next to redis-store.ts).
THEOREM StoresAgreeAlways == KvSpec => []StoresAgree
  <1>1. KvInv => StoresAgree
    BY ShowsTheSame DEF StoresAgree, KvInv
  <1> QED
    BY <1>1, StoresInvariance, PTL

-----------------------------------------------------------------------------
(* The key cache: what it holds once the key has changed.                   *)
(*                                                                         *)
(* KeysFollowRotation is about what each verification was given; to keep it *)
(* one must know that a fetch sent or asked for after the change leaves the *)
(* new key in the cache, or says that it did not.                           *)

Points == {"idle", "awaiting", "given", "awaitingForced", "givenForced"}

ClockInv ==
    /\ tick \in Nat
    /\ \/ signing = 1 /\ rotatedAt = NotYet
       \/ signing = 2 /\ rotatedAt \in Nat /\ rotatedAt <= tick
    /\ attemptedAt \in Int /\ attemptedAt <= tick
    /\ forcedAt \in Int /\ forcedAt <= tick
    /\ failed \in BOOLEAN /\ late \in BOOLEAN

\* Nobody has the new key before there is one.
SourceInv ==
    /\ cached \subseteq {1, 2} /\ (signing = 1 => cached \subseteq {1})
    /\ \/ fetch = NoFetch
       \/ fetch.stage = "sent"
       \/ fetch.stage = "answered" /\ fetch.kids \in {{1}, {signing}}
    /\ (/\ signing = 2 /\ ~failed /\ ~late /\ fetch = NoFetch
        /\ attemptedAt > rotatedAt \/ forcedAt > rotatedAt) => cached = {2}

HoldersTyped ==
    /\ at \in [Verifiers -> Points] /\ kid \in [Verifiers -> {0, 1, 2}]
    /\ held \in [Verifiers -> SUBSET {1, 2}] /\ takenAt \in [Verifiers -> Nat]
    /\ overtook \in [Verifiers -> BOOLEAN]

\* The new kid is refused for want of its key: too soon after the change, or excused.
RefusalExcused(v) ==
    (at[v] = "givenForced" /\ held[v] # {} /\ kid[v] = signing /\ kid[v] \notin held[v]) =>
        \/ rotatedAt # NotYet /\ takenAt[v] < rotatedAt + RefreshMinInterval
        \/ overtook[v] \/ failed \/ late

\* The old kid is accepted: not long after the change, or excused.
AcceptanceExcused(v) ==
    (at[v] \in {"given", "givenForced"} /\ kid[v] = 1 /\ signing = 2 /\ 1 \in held[v]) =>
        \/ takenAt[v] < rotatedAt + CacheTtl
        \/ overtook[v] \/ failed \/ late

HolderInv(v) ==
    /\ kid[v] = 2 => signing = 2
    /\ signing = 1 => held[v] \subseteq {1}
    /\ takenAt[v] <= tick
    /\ RefusalExcused(v) /\ AcceptanceExcused(v)

JwksInv ==
    /\ ClockInv /\ SourceInv /\ HoldersTyped
    /\ \A v \in Verifiers : HolderInv(v)

\* A verification nothing happens to stays as it was.
LEMMA HolderKept ==
    ASSUME NEW v, HolderInv(v), tick \in Nat, tick' \in Nat, tick <= tick', takenAt[v] \in Nat,
           at'[v] = at[v], kid'[v] = kid[v], held'[v] = held[v],
           takenAt'[v] = takenAt[v], overtook'[v] = overtook[v],
           signing' = signing, rotatedAt' = rotatedAt,
           failed => failed', late => late'
    PROVE  HolderInv(v)'
  <1>1. /\ (kid[v] = 2 => signing = 2)'
        /\ (signing = 1 => held[v] \subseteq {1})'
        /\ (takenAt[v] <= tick)'
    BY DEF HolderInv
  <1>2. RefusalExcused(v)'
    BY DEF HolderInv, RefusalExcused
  <1>3. AcceptanceExcused(v)'
    BY DEF HolderInv, AcceptanceExcused
  <1> QED
    BY <1>1, <1>2, <1>3 DEF HolderInv

\* A fetch in flight is not the absence of one.
LEMMA FetchStages ==
    /\ NoFetch.stage = "none"
    /\ [NoFetch EXCEPT !.stage = "sent"].stage = "sent"
    /\ [NoFetch EXCEPT !.stage = "sent"] # NoFetch
  <1>1. [NoFetch EXCEPT !.stage = "sent"] = [stage |-> "sent", kids |-> {}]
    BY DEF NoFetch
  <1>2. [stage |-> "sent", kids |-> {}].stage = "sent" /\ NoFetch.stage = "none"
    BY DEF NoFetch
  <1> QED
    BY <1>1, <1>2

\* The cached keys may be handed out: once a fetch has been asked for since the change,
\* they are the new ones.
LEMMA CachedKeysFollow ==
    ASSUME ClockInv, SourceInv, signing = 2, 1 \in cached \/ 2 \notin cached,
           fetch = NoFetch, ~failed, ~late
    PROVE  attemptedAt <= rotatedAt /\ forcedAt <= rotatedAt /\ rotatedAt \in Nat
  BY DEF ClockInv, SourceInv

\* A request that is given the cached keys at once.
LEMMA GivenFields ==
    ASSUME HoldersTyped, SourceInv, tick \in Nat, NEW v \in Verifiers, NEW point \in Points,
           Given(v, cached, point)
    PROVE  /\ at'[v] = point /\ held'[v] = cached /\ takenAt'[v] = tick
           /\ overtook'[v] <=> fetch # NoFetch
           /\ \A w \in Verifiers \ {v} :
                 /\ at'[w] = at[w] /\ held'[w] = held[w] /\ takenAt'[w] = takenAt[w]
                 /\ overtook'[w] = overtook[w]
           /\ at' \in [Verifiers -> Points] /\ held' \in [Verifiers -> SUBSET {1, 2}]
           /\ takenAt' \in [Verifiers -> Nat] /\ overtook' \in [Verifiers -> BOOLEAN]
  <1>1. /\ at'[v] = point /\ held'[v] = cached /\ takenAt'[v] = tick
        /\ \A w \in Verifiers \ {v} :
              at'[w] = at[w] /\ held'[w] = held[w] /\ takenAt'[w] = takenAt[w]
    BY DEF Given, HoldersTyped
  <1>2. /\ at' \in [Verifiers -> Points] /\ held' \in [Verifiers -> SUBSET {1, 2}]
        /\ takenAt' \in [Verifiers -> Nat]
    <2>1. cached \in SUBSET {1, 2}
      BY DEF SourceInv
    <2> QED
      BY <2>1 DEF Given, HoldersTyped
  <1>3. PICK b \in BOOLEAN : (b <=> fetch # NoFetch) /\ b = (fetch # NoFetch)
    OBVIOUS
  <1>4. overtook' = [overtook EXCEPT ![v] = b]
    BY <1>3 DEF Given
  <1>5. /\ overtook'[v] = b
        /\ \A w \in Verifiers \ {v} : overtook'[w] = overtook[w]
        /\ overtook' \in [Verifiers -> BOOLEAN]
    BY <1>4 DEF HoldersTyped
  <1> QED
    BY <1>1, <1>2, <1>3, <1>5

\* A request that waits for a fetch.
LEMMA JoinFields ==
    ASSUME HoldersTyped, SourceInv, NEW v \in Verifiers, NEW point \in Points, Join(v, point)
    PROVE  /\ at'[v] = point
           /\ \A w \in Verifiers \ {v} : at'[w] = at[w]
           /\ at' \in [Verifiers -> Points]
           /\ UNCHANGED <<held, takenAt, overtook>>
           /\ fetch' # NoFetch
           /\ \/ fetch'.stage = "sent"
              \/ fetch'.stage = "answered" /\ fetch'.kids \in {{1}, {signing}}
           /\ attemptedAt' \in {attemptedAt, tick}
  <1>1. /\ at'[v] = point
        /\ \A w \in Verifiers \ {v} : at'[w] = at[w]
        /\ at' \in [Verifiers -> Points]
        /\ UNCHANGED <<held, takenAt, overtook>>
        /\ attemptedAt' \in {attemptedAt, tick}
    BY DEF Join, HoldersTyped
  <1>2. CASE fetch = NoFetch
    BY <1>1, <1>2, FetchStages DEF Join
  <1>3. CASE fetch # NoFetch
    BY <1>1, <1>3 DEF Join, SourceInv
  <1> QED
    BY <1>2, <1>3

LEMMA VerifyStep ==
    ASSUME JwksAssumption, JwksInv, NEW v \in Verifiers, NEW k \in {Unknown} \union 1 .. signing,
           Verify(v, k)
    PROVE  JwksInv'
  <1> USE DEF JwksInv
  <1>1. /\ UNCHANGED <<tick, signing, rotatedAt, cached, forcedAt, discovered, failed, late>>
        /\ kid' = [kid EXCEPT ![v] = k]
    BY DEF Verify
  <1>2. k \in {0, 1, 2} /\ (k = 2 => signing = 2)
    BY DEF Unknown, ClockInv
  <1>3. /\ kid'[v] = k /\ kid' \in [Verifiers -> {0, 1, 2}]
        /\ \A w \in Verifiers \ {v} : kid'[w] = kid[w]
    BY <1>1, <1>2 DEF HoldersTyped
  <1>4. CASE /\ Fresh \/ Spaced
             /\ Given(v, cached, "given")
             /\ UNCHANGED <<fetch, attemptedAt>>
    <2>1. /\ at'[v] = "given" /\ held'[v] = cached /\ takenAt'[v] = tick
          /\ overtook'[v] <=> fetch # NoFetch
          /\ \A w \in Verifiers \ {v} :
                /\ at'[w] = at[w] /\ held'[w] = held[w] /\ takenAt'[w] = takenAt[w]
                /\ overtook'[w] = overtook[w]
          /\ at' \in [Verifiers -> Points] /\ held' \in [Verifiers -> SUBSET {1, 2}]
          /\ takenAt' \in [Verifiers -> Nat] /\ overtook' \in [Verifiers -> BOOLEAN]
      BY <1>4, GivenFields DEF ClockInv, Points
    <2>2. ClockInv' /\ SourceInv'
      BY <1>1, <1>4 DEF ClockInv, SourceInv
    <2>3. HoldersTyped'
      BY <1>3, <2>1 DEF HoldersTyped
    <2>4. ASSUME NEW w \in Verifiers PROVE HolderInv(w)'
      <3>1. CASE w # v
        <4>1. tick \in Nat /\ tick' = tick /\ takenAt[w] \in Nat
          BY <1>1 DEF ClockInv, HoldersTyped
        <4> QED
          BY <1>1, <1>3, <2>1, <3>1, <4>1, HolderKept
      <3>2. CASE w = v
        <4>1. RefusalExcused(v)'
          BY <2>1 DEF RefusalExcused
        <4>2. AcceptanceExcused(v)'
          <5> SUFFICES ASSUME signing = 2, 1 \in cached, fetch = NoFetch, ~failed, ~late
                       PROVE  tick < rotatedAt + CacheTtl
            BY <1>1, <2>1 DEF AcceptanceExcused
          <5>1. attemptedAt <= rotatedAt /\ rotatedAt \in Nat
            BY CachedKeysFollow
          <5>2. tick - attemptedAt < CacheTtl
            BY <1>4, <5>1 DEF Fresh, Spaced, JwksAssumption, ClockInv
          <5> QED
            BY <5>1, <5>2 DEF JwksAssumption, ClockInv
        <4>3. (kid[v] = 2 => signing = 2)' /\ (takenAt[v] <= tick)'
          BY <1>1, <1>2, <1>3, <2>1 DEF ClockInv
        <4>4. (signing = 1 => held[v] \subseteq {1})'
          BY <1>1, <2>1 DEF SourceInv
        <4> QED
          BY <3>2, <4>1, <4>2, <4>3, <4>4 DEF HolderInv
      <3> QED
        BY <3>1, <3>2
    <2> QED
      BY <2>2, <2>3, <2>4
  <1>5. CASE Join(v, "awaiting")
    <2>1. /\ at'[v] = "awaiting"
          /\ \A w \in Verifiers \ {v} : at'[w] = at[w]
          /\ at' \in [Verifiers -> Points]
          /\ UNCHANGED <<held, takenAt, overtook>>
          /\ fetch' # NoFetch
          /\ \/ fetch'.stage = "sent"
             \/ fetch'.stage = "answered" /\ fetch'.kids \in {{1}, {signing}}
          /\ attemptedAt' \in {attemptedAt, tick}
      BY <1>5, JoinFields DEF Points
    <2>2. ClockInv' /\ SourceInv'
      BY <1>1, <2>1 DEF ClockInv, SourceInv
    <2>3. HoldersTyped'
      BY <1>3, <2>1 DEF HoldersTyped
    <2>4. ASSUME NEW w \in Verifiers PROVE HolderInv(w)'
      <3>1. CASE w # v
        <4>1. tick \in Nat /\ tick' = tick /\ takenAt[w] \in Nat
          BY <1>1 DEF ClockInv, HoldersTyped
        <4> QED
          BY <1>1, <1>3, <2>1, <3>1, <4>1, HolderKept
      <3>2. CASE w = v
        <4>1. RefusalExcused(v)' /\ AcceptanceExcused(v)'
          BY <2>1 DEF RefusalExcused, AcceptanceExcused
        <4> QED
          BY <1>1, <1>2, <1>3, <2>1, <3>2, <4>1 DEF HolderInv
      <3> QED
        BY <3>1, <3>2
    <2> QED
      BY <2>2, <2>3, <2>4
  <1> QED
    BY <1>4, <1>5 DEF Verify

LEMMA ForceRefreshStep ==
    ASSUME JwksAssumption, JwksInv, NEW v \in Verifiers, ForceRefresh(v)
    PROVE  JwksInv'
  <1> USE DEF JwksInv
  <1>1. UNCHANGED <<tick, signing, rotatedAt, cached, discovered, kid, failed, late>>
    BY DEF ForceRefresh
  <1>2. CASE /\ Throttled
             /\ Given(v, cached, "givenForced")
             /\ UNCHANGED <<fetch, attemptedAt, forcedAt>>
    <2>1. /\ at'[v] = "givenForced" /\ held'[v] = cached /\ takenAt'[v] = tick
          /\ overtook'[v] <=> fetch # NoFetch
          /\ \A w \in Verifiers \ {v} :
                /\ at'[w] = at[w] /\ held'[w] = held[w] /\ takenAt'[w] = takenAt[w]
                /\ overtook'[w] = overtook[w]
          /\ at' \in [Verifiers -> Points] /\ held' \in [Verifiers -> SUBSET {1, 2}]
          /\ takenAt' \in [Verifiers -> Nat] /\ overtook' \in [Verifiers -> BOOLEAN]
      BY <1>2, GivenFields DEF ClockInv, Points
    <2>2. ClockInv' /\ SourceInv'
      BY <1>1, <1>2 DEF ClockInv, SourceInv
    <2>3. HoldersTyped'
      BY <1>1, <2>1 DEF HoldersTyped
    <2>4. ASSUME NEW w \in Verifiers PROVE HolderInv(w)'
      <3>1. CASE w # v
        <4>1. tick \in Nat /\ tick' = tick /\ takenAt[w] \in Nat
          BY <1>1 DEF ClockInv, HoldersTyped
        <4> QED
          BY <1>1, <2>1, <3>1, <4>1, HolderKept
      <3>2. CASE w = v
        <4>1. ASSUME signing = 2, 1 \in cached \/ 2 \notin cached, fetch = NoFetch,
                     ~failed, ~late
              PROVE  /\ rotatedAt # NotYet /\ tick < rotatedAt + RefreshMinInterval
                     /\ tick < rotatedAt + CacheTtl
          <5>1. forcedAt <= rotatedAt /\ rotatedAt \in Nat
            BY <4>1, CachedKeysFollow
          <5>2. tick - forcedAt < RefreshMinInterval
            BY <1>2 DEF Throttled
          <5> QED
            BY <5>1, <5>2 DEF JwksAssumption, ClockInv, NotYet
        <4>2. RefusalExcused(v)'
          <5> SUFFICES ASSUME cached # {}, kid[v] = signing, kid[v] \notin cached,
                              fetch = NoFetch, ~failed, ~late
                       PROVE  rotatedAt # NotYet /\ tick < rotatedAt + RefreshMinInterval
            BY <1>1, <2>1 DEF RefusalExcused
          <5>1. signing = 2
            BY DEF SourceInv, ClockInv
          <5> QED
            BY <4>1, <5>1
        <4>3. AcceptanceExcused(v)'
          BY <1>1, <2>1, <4>1 DEF AcceptanceExcused
        <4>4. /\ (kid[v] = 2 => signing = 2)' /\ (takenAt[v] <= tick)'
              /\ (signing = 1 => held[v] \subseteq {1})'
          BY <1>1, <2>1 DEF ClockInv, SourceInv, HolderInv
        <4> QED
          BY <3>2, <4>2, <4>3, <4>4 DEF HolderInv
      <3> QED
        BY <3>1, <3>2
    <2> QED
      BY <2>2, <2>3, <2>4
  <1>3. CASE Join(v, "awaitingForced") /\ forcedAt' = tick
    <2>1. /\ at'[v] = "awaitingForced"
          /\ \A w \in Verifiers \ {v} : at'[w] = at[w]
          /\ at' \in [Verifiers -> Points]
          /\ UNCHANGED <<held, takenAt, overtook>>
          /\ fetch' # NoFetch
          /\ \/ fetch'.stage = "sent"
             \/ fetch'.stage = "answered" /\ fetch'.kids \in {{1}, {signing}}
          /\ attemptedAt' \in {attemptedAt, tick}
      BY <1>3, JoinFields DEF Points
    <2>2. ClockInv' /\ SourceInv'
      BY <1>1, <1>3, <2>1 DEF ClockInv, SourceInv
    <2>3. HoldersTyped'
      BY <1>1, <2>1 DEF HoldersTyped
    <2>4. ASSUME NEW w \in Verifiers PROVE HolderInv(w)'
      <3>1. CASE w # v
        <4>1. tick \in Nat /\ tick' = tick /\ takenAt[w] \in Nat
          BY <1>1 DEF ClockInv, HoldersTyped
        <4> QED
          BY <1>1, <2>1, <3>1, <4>1, HolderKept
      <3>2. CASE w = v
        <4>1. RefusalExcused(v)' /\ AcceptanceExcused(v)'
          BY <2>1 DEF RefusalExcused, AcceptanceExcused
        <4> QED
          BY <1>1, <2>1, <3>2, <4>1 DEF HolderInv
      <3> QED
        BY <3>1, <3>2
    <2> QED
      BY <2>2, <2>3, <2>4
  <1> QED
    BY <1>2, <1>3 DEF ForceRefresh

LEMMA ConcludeStep ==
    ASSUME JwksInv, NEW v \in Verifiers, Conclude(v)
    PROVE  JwksInv'
  <1> USE DEF JwksInv
  <1>1. UNCHANGED <<tick, signing, rotatedAt, cached, attemptedAt, forcedAt, fetch, failed, late>>
    BY DEF Conclude, sourceVars
  <1>2. /\ at'[v] = "idle" /\ kid'[v] = 0 /\ held'[v] = {} /\ takenAt'[v] = 0
        /\ \A w \in Verifiers \ {v} :
              /\ at'[w] = at[w] /\ kid'[w] = kid[w] /\ held'[w] = held[w]
              /\ takenAt'[w] = takenAt[w] /\ overtook'[w] = overtook[w]
    BY DEF Conclude, HoldersTyped, Unknown
  <1>3. HoldersTyped'
    BY DEF Conclude, HoldersTyped, Points, Unknown
  <1>4. ClockInv' /\ SourceInv'
    BY <1>1 DEF ClockInv, SourceInv
  <1>5. ASSUME NEW w \in Verifiers PROVE HolderInv(w)'
    <2>1. tick \in Nat /\ tick' = tick /\ takenAt[w] \in Nat
      BY <1>1 DEF ClockInv, HoldersTyped
    <2>2. CASE w # v
      BY <1>1, <1>2, <2>1, <2>2, HolderKept
    <2>3. CASE w = v
      BY <1>1, <1>2, <2>1, <2>3 DEF HolderInv, RefusalExcused, AcceptanceExcused
    <2> QED
      BY <2>2, <2>3
  <1> QED
    BY <1>3, <1>4, <1>5

\* Everybody who waited goes on with the keys, the others as they were.
LEMMA WakeFields ==
    ASSUME HoldersTyped, tick \in Nat, NEW keys \in SUBSET {1, 2}, Wake(keys)
    PROVE  /\ fetch' = NoFetch
           /\ \A w \in Verifiers :
                 \/ /\ at[w] \in {"awaiting", "awaitingForced"}
                    /\ at'[w] \in {"given", "givenForced"}
                    /\ held'[w] = keys /\ takenAt'[w] = tick
                 \/ /\ at'[w] = at[w] /\ held'[w] = held[w] /\ takenAt'[w] = takenAt[w]
                    /\ overtook'[w] = overtook[w]
           /\ at' \in [Verifiers -> Points] /\ held' \in [Verifiers -> SUBSET {1, 2}]
           /\ takenAt' \in [Verifiers -> Nat] /\ overtook' \in [Verifiers -> BOOLEAN]
  <1>1. fetch' = NoFetch
    BY DEF Wake
  <1>2. ASSUME NEW w \in Verifiers
        PROVE  \/ /\ at[w] \in {"awaiting", "awaitingForced"}
                  /\ at'[w] \in {"given", "givenForced"}
                  /\ held'[w] = keys /\ takenAt'[w] = tick
               \/ /\ at'[w] = at[w] /\ held'[w] = held[w] /\ takenAt'[w] = takenAt[w]
                  /\ overtook'[w] = overtook[w]
    <2>1. CASE at[w] \in {"awaiting", "awaitingForced"}
      BY <2>1 DEF Wake
    <2>2. CASE at[w] \notin {"awaiting", "awaitingForced"}
      <3>1. at'[w] = at[w] /\ held'[w] = held[w] /\ takenAt'[w] = takenAt[w]
        BY <2>2 DEF Wake
      <3>2. overtook'[w] = (overtook[w] /\ at[w] \notin {"awaiting", "awaitingForced"})
        BY DEF Wake
      <3>3. overtook[w] \in BOOLEAN
        BY DEF HoldersTyped
      <3>4. overtook'[w] = overtook[w]
        BY <2>2, <3>2, <3>3
      <3> QED
        BY <3>1, <3>4
    <2> QED
      BY <2>1, <2>2
  <1>3. /\ at' \in [Verifiers -> Points] /\ held' \in [Verifiers -> SUBSET {1, 2}]
        /\ takenAt' \in [Verifiers -> Nat]
    <2>1. at' \in [Verifiers -> Points]
      BY DEF Wake, HoldersTyped, Points
    <2>2. held' \in [Verifiers -> SUBSET {1, 2}]
      BY DEF Wake, HoldersTyped
    <2>3. takenAt' \in [Verifiers -> Nat]
      BY DEF Wake, HoldersTyped
    <2> QED
      BY <2>1, <2>2, <2>3
  <1>4. overtook' \in [Verifiers -> BOOLEAN]
    <2>1. \A w \in Verifiers :
             (overtook[w] /\ at[w] \notin {"awaiting", "awaitingForced"}) \in BOOLEAN
      OBVIOUS
    <2> QED
      BY <2>1 DEF Wake
  <1> QED
    BY <1>1, <1>2, <1>3, <1>4

LEMMA ServerAnswersStep ==
    ASSUME JwksInv, ServerAnswers
    PROVE  JwksInv'
  <1> USE DEF JwksInv
  <1>1. /\ UNCHANGED <<tick, signing, rotatedAt, cached, attemptedAt, forcedAt,
                       at, kid, held, takenAt, overtook, failed, late>>
        /\ fetch' = [stage |-> "answered", kids |-> {signing}]
    BY DEF ServerAnswers
  <1>2. fetch'.stage = "answered" /\ fetch'.kids = {signing} /\ fetch' # NoFetch
    BY <1>1, FetchStages
  <1>3. ClockInv' /\ SourceInv' /\ HoldersTyped'
    BY <1>1, <1>2 DEF ClockInv, SourceInv, HoldersTyped
  <1>4. ASSUME NEW w \in Verifiers PROVE HolderInv(w)'
    BY <1>1 DEF HolderInv, RefusalExcused, AcceptanceExcused
  <1> QED
    BY <1>3, <1>4

\* Keys read before the change and returned after it are remembered as late.
LEMMA FetchReturnsStep ==
    ASSUME JwksInv, FetchReturns
    PROVE  JwksInv'
  <1> USE DEF JwksInv
  <1>1. /\ fetch.stage = "answered" /\ cached' = fetch.kids
        /\ late' = (late \/ (rotatedAt # NotYet /\ signing \notin fetch.kids))
        /\ Wake(fetch.kids)
        /\ UNCHANGED <<tick, signing, rotatedAt, attemptedAt, forcedAt, discovered, kid, failed>>
    BY DEF FetchReturns
  <1>2. /\ fetch.kids \in {{1}, {signing}} /\ fetch.kids \in SUBSET {1, 2}
        /\ signing \in {1, 2}
        /\ signing = 2 => rotatedAt # NotYet
        /\ signing = 1 => fetch.kids = {1}
    BY <1>1, FetchStages DEF SourceInv, ClockInv, NotYet
  <1>3. /\ late => late'
        /\ 1 \in fetch.kids \/ 2 \notin fetch.kids => signing = 1 \/ late'
        /\ late' \in BOOLEAN
    BY <1>1, <1>2 DEF ClockInv
  <1>4. /\ fetch' = NoFetch
        /\ \A w \in Verifiers :
              \/ /\ at[w] \in {"awaiting", "awaitingForced"}
                 /\ at'[w] \in {"given", "givenForced"}
                 /\ held'[w] = fetch.kids /\ takenAt'[w] = tick
              \/ /\ at'[w] = at[w] /\ held'[w] = held[w] /\ takenAt'[w] = takenAt[w]
                 /\ overtook'[w] = overtook[w]
        /\ at' \in [Verifiers -> Points] /\ held' \in [Verifiers -> SUBSET {1, 2}]
        /\ takenAt' \in [Verifiers -> Nat] /\ overtook' \in [Verifiers -> BOOLEAN]
    BY <1>1, <1>2, WakeFields DEF ClockInv
  <1>5. ClockInv' /\ HoldersTyped'
    BY <1>1, <1>3, <1>4 DEF ClockInv, HoldersTyped
  <1>6. SourceInv'
    BY <1>1, <1>2, <1>3, <1>4 DEF SourceInv
  <1>7. ASSUME NEW w \in Verifiers PROVE HolderInv(w)'
    <2>1. /\ tick \in Nat /\ tick' = tick /\ takenAt[w] \in Nat /\ kid'[w] = kid[w]
          /\ failed' = failed /\ signing' = signing /\ rotatedAt' = rotatedAt
      BY <1>1 DEF ClockInv, HoldersTyped
    <2>2. CASE /\ at'[w] = at[w] /\ held'[w] = held[w] /\ takenAt'[w] = takenAt[w]
               /\ overtook'[w] = overtook[w]
      BY <1>3, <2>1, <2>2, HolderKept
    <2>3. CASE held'[w] = fetch.kids /\ takenAt'[w] = tick
      <3>1. RefusalExcused(w)'
        <4> SUFFICES ASSUME kid[w] = signing, kid[w] \notin fetch.kids PROVE late'
          BY <2>1, <2>3 DEF RefusalExcused
        <4> QED
          BY <1>2, <1>3
      <3>2. AcceptanceExcused(w)'
        <4> SUFFICES ASSUME signing = 2, 1 \in fetch.kids PROVE late'
          BY <2>1, <2>3 DEF AcceptanceExcused
        <4> QED
          BY <1>3
      <3>3. (kid[w] = 2 => signing = 2)' /\ (takenAt[w] <= tick)'
        BY <2>1, <2>3 DEF HolderInv
      <3>4. (signing = 1 => held[w] \subseteq {1})'
        BY <1>2, <2>1, <2>3
      <3> QED
        BY <3>1, <3>2, <3>3, <3>4 DEF HolderInv
    <2> QED
      BY <1>4, <2>2, <2>3
  <1> QED
    BY <1>5, <1>6, <1>7

LEMMA FetchFailsStep ==
    ASSUME JwksInv, FetchFails
    PROVE  JwksInv'
  <1> USE DEF JwksInv
  <1>1. /\ failed' = (failed \/ rotatedAt # NotYet)
        /\ Wake(cached)
        /\ UNCHANGED <<tick, signing, rotatedAt, cached, attemptedAt, forcedAt, kid, late>>
    BY DEF FetchFails
  <1>2. /\ cached \in SUBSET {1, 2} /\ signing \in {1, 2}
        /\ signing = 2 => rotatedAt # NotYet
        /\ signing = 1 => cached \subseteq {1}
    BY DEF SourceInv, ClockInv, NotYet
  <1>3. /\ failed => failed'
        /\ signing = 2 => failed'
        /\ failed' \in BOOLEAN
    BY <1>1, <1>2 DEF ClockInv
  <1>4. /\ fetch' = NoFetch
        /\ \A w \in Verifiers :
              \/ /\ at[w] \in {"awaiting", "awaitingForced"}
                 /\ at'[w] \in {"given", "givenForced"}
                 /\ held'[w] = cached /\ takenAt'[w] = tick
              \/ /\ at'[w] = at[w] /\ held'[w] = held[w] /\ takenAt'[w] = takenAt[w]
                 /\ overtook'[w] = overtook[w]
        /\ at' \in [Verifiers -> Points] /\ held' \in [Verifiers -> SUBSET {1, 2}]
        /\ takenAt' \in [Verifiers -> Nat] /\ overtook' \in [Verifiers -> BOOLEAN]
    BY <1>1, <1>2, WakeFields DEF ClockInv
  <1>5. ClockInv' /\ HoldersTyped'
    BY <1>1, <1>3, <1>4 DEF ClockInv, HoldersTyped
  <1>6. SourceInv'
    BY <1>1, <1>2, <1>3, <1>4 DEF SourceInv
  <1>7. ASSUME NEW w \in Verifiers PROVE HolderInv(w)'
    <2>1. /\ tick \in Nat /\ tick' = tick /\ takenAt[w] \in Nat /\ kid'[w] = kid[w]
          /\ late' = late /\ signing' = signing /\ rotatedAt' = rotatedAt
      BY <1>1 DEF ClockInv, HoldersTyped
    <2>2. CASE /\ at'[w] = at[w] /\ held'[w] = held[w] /\ takenAt'[w] = takenAt[w]
               /\ overtook'[w] = overtook[w]
      BY <1>3, <2>1, <2>2, HolderKept
    <2>3. CASE held'[w] = cached /\ takenAt'[w] = tick
      <3>1. RefusalExcused(w)'
        <4> SUFFICES ASSUME cached # {}, kid[w] = signing, kid[w] \notin cached PROVE failed'
          BY <2>1, <2>3 DEF RefusalExcused
        <4> QED
          BY <1>2, <1>3
      <3>2. AcceptanceExcused(w)'
        BY <1>3, <2>1, <2>3 DEF AcceptanceExcused
      <3>3. (kid[w] = 2 => signing = 2)' /\ (takenAt[w] <= tick)'
        BY <2>1, <2>3 DEF HolderInv
      <3>4. (signing = 1 => held[w] \subseteq {1})'
        BY <1>2, <2>1, <2>3
      <3> QED
        BY <3>1, <3>2, <3>3, <3>4 DEF HolderInv
    <2> QED
      BY <1>4, <2>2, <2>3
  <1> QED
    BY <1>5, <1>6, <1>7

\* The keys held when the key changes were all taken before.
LEMMA RotateStep ==
    ASSUME JwksAssumption, JwksInv, Rotate
    PROVE  JwksInv'
  <1> USE DEF JwksInv
  <1>1. /\ signing = 1 /\ signing' = 2 /\ rotatedAt' = tick
        /\ UNCHANGED <<tick, cached, attemptedAt, forcedAt, fetch,
                       at, kid, held, takenAt, overtook, failed, late>>
    BY DEF Rotate, sourceVars
  <1>2. ClockInv' /\ SourceInv' /\ HoldersTyped'
    BY <1>1 DEF ClockInv, SourceInv, HoldersTyped
  <1>3. ASSUME NEW w \in Verifiers PROVE HolderInv(w)'
    <2>1. kid[w] # 2 /\ takenAt[w] <= tick /\ takenAt[w] \in Nat /\ tick \in Nat
      BY <1>1 DEF HolderInv, HoldersTyped, ClockInv
    <2>2. takenAt[w] < tick + CacheTtl
      BY <2>1 DEF JwksAssumption
    <2> QED
      BY <1>1, <2>1, <2>2 DEF HolderInv, RefusalExcused, AcceptanceExcused
  <1> QED
    BY <1>2, <1>3

LEMMA TickStep ==
    ASSUME JwksInv, Tick
    PROVE  JwksInv'
  <1> USE DEF JwksInv
  <1>1. /\ tick' = tick + 1
        /\ UNCHANGED <<signing, rotatedAt, cached, attemptedAt, forcedAt, fetch,
                       at, kid, held, takenAt, overtook, failed, late>>
    BY DEF Tick, sourceVars
  <1>2. ClockInv' /\ SourceInv' /\ HoldersTyped'
    BY <1>1 DEF ClockInv, SourceInv, HoldersTyped
  <1>3. ASSUME NEW w \in Verifiers PROVE HolderInv(w)'
    <2>1. tick \in Nat /\ tick' \in Nat /\ tick <= tick' /\ takenAt[w] \in Nat
      BY <1>1 DEF ClockInv, HoldersTyped
    <2> QED
      BY <1>1, <2>1, HolderKept
  <1> QED
    BY <1>2, <1>3

\* What every step of rotation, expiry and fetching keeps of the authorization server's keys
\* and of the copy a verifier holds (RemoteJwksSource, jwks.ts).
THEOREM KeysInvariance == JwksSpec => []JwksInv
  <1> USE JwksAssumption
  <1>1. JwksInit => JwksInv
    <2> SUFFICES ASSUME JwksInit PROVE JwksInv
      OBVIOUS
    <2>1. ClockInv
      <3>1. -(CacheTtl + 1) \in Int /\ -(CacheTtl + 1) <= 0
        BY DEF JwksAssumption
      <3> QED
        BY <3>1 DEF JwksInit, ClockInv, LongAgo
    <2>0. SourceInv
      BY DEF JwksInit, SourceInv
    <2>2. HoldersTyped
      BY DEF JwksInit, HoldersTyped, Points, Unknown
    <2>3. ASSUME NEW v \in Verifiers PROVE HolderInv(v)
      BY DEF JwksInit, HolderInv, RefusalExcused, AcceptanceExcused, Unknown
    <2> QED
      BY <2>0, <2>1, <2>2, <2>3 DEF JwksInv
  <1>2. JwksInv /\ [JwksNext]_jwksVars => JwksInv'
    <2> SUFFICES ASSUME JwksInv, [JwksNext]_jwksVars PROVE JwksInv'
      OBVIOUS
    <2>1. ASSUME NEW v \in Verifiers, NEW k \in {Unknown} \union 1 .. signing, Verify(v, k)
          PROVE  JwksInv'
      BY <2>1, VerifyStep
    <2>2. ASSUME NEW v \in Verifiers, ForceRefresh(v) PROVE JwksInv'
      BY <2>2, ForceRefreshStep
    <2>3. ASSUME NEW v \in Verifiers, Conclude(v) PROVE JwksInv'
      BY <2>3, ConcludeStep
    <2>4. CASE ServerAnswers
      BY <2>4, ServerAnswersStep
    <2>5. CASE FetchReturns
      BY <2>5, FetchReturnsStep
    <2>6. CASE FetchFails
      BY <2>6, FetchFailsStep
    <2>7. CASE Rotate
      BY <2>7, RotateStep
    <2>8. CASE Tick
      BY <2>8, TickStep
    <2>9. CASE UNCHANGED jwksVars
      <3>1. UNCHANGED <<tick, signing, rotatedAt, cached, attemptedAt, forcedAt, fetch,
                        at, kid, held, takenAt, overtook, failed, late>>
        BY <2>9 DEF jwksVars
      <3>2. ClockInv' /\ SourceInv' /\ HoldersTyped'
        BY <3>1 DEF JwksInv, ClockInv, SourceInv, HoldersTyped
      <3>3. ASSUME NEW w \in Verifiers PROVE HolderInv(w)'
        BY <3>1 DEF JwksInv, HolderInv, RefusalExcused, AcceptanceExcused
      <3> QED
        BY <3>2, <3>3 DEF JwksInv
    <2> QED
      BY <2>1, <2>2, <2>3, <2>4, <2>5, <2>6, <2>7, <2>8, <2>9 DEF JwksNext
  <1> QED
    BY <1>1, <1>2, PTL DEF JwksSpec

\* Verification follows a change of the signing key, for any number of verifications and
\* any lifetimes with REFRESH_MIN_INTERVAL_SECONDS <= CACHE_TTL_SECONDS, the latter positive:
\* the new kid is refused for want of its key only within the interval after the change, the
\* old one accepted only within the lifetime after it, unless a fetch under way, failed or
\* overtaken by the change excuses it (RemoteJwksSource and verifyJwtWithSource, jwks.ts).
THEOREM KeysFollow == JwksSpec => []KeysFollowRotation
  <1>1. JwksInv => KeysFollowRotation
    BY DEF JwksInv, HolderInv, RefusalExcused, AcceptanceExcused, KeysFollowRotation
  <1> QED
    BY <1>1, KeysInvariance, PTL

-----------------------------------------------------------------------------
(* Provisioning: what a run has done by each of its stages.                 *)
(*                                                                         *)
(* ProvisionConverges speaks of runs that are over; it is inductive only    *)
(* with what the run under way has behind it, statement by statement and    *)
(* service by service.                                                      *)

Seeding == {"role", "tables", "createUser", "getUser", "seedIdentity"}
Serving == {"serviceRole", "serviceTables", "count", "serviceSeed"}

IdentityRows ==
    [role : BOOLEAN, tables : BOOLEAN, user : [id : {"none", "seed", "invited"}, sub : Nat],
     contract : {"none", "active", "suspended"}, client : {"none", "active", "disabled"},
     secrets : SUBSET ClientSecrets, assigned : {"none", "active"}]

ServiceRows == [role : BOOLEAN, tables : BOOLEAN, members : BOOLEAN, records : BOOLEAN]

ProvisionTyped ==
    /\ stage \in Resting \union Seeding \union Serving
    /\ turn \in 1 .. Len(ServiceDbs)
    /\ secret \in ClientSecrets /\ sub \in Nat /\ pool \in Nat
    /\ identity \in IdentityRows
    /\ serviceDb \in [ServiceNames -> ServiceRows]

\* The rows of the identity seed, in place since its transaction.
IdentitySeeded ==
    /\ identity.user # NoUser /\ identity.user.sub = sub
    /\ identity.client = "active" /\ identity.contract = "active"
    /\ identity.assigned = "active"
    /\ identity.secrets = {secret}

IdentityInv ==
    /\ stage \in (Seeding \ {"role"}) \union Serving \union {"done"} => identity.role = TRUE
    /\ stage \in (Seeding \ {"role", "tables"}) \union Serving \union {"done"} =>
          identity.tables = TRUE
    /\ stage \in Serving \union {"done"} => meddled \/ IdentitySeeded

\* A service the run is through with.
ServiceProvisioned(k) ==
    /\ serviceDb[ServiceDbs[k]].role = TRUE /\ serviceDb[ServiceDbs[k]].tables = TRUE
    /\ meddled \/ serviceDb[ServiceDbs[k]].members = TRUE

ServicesInv ==
    /\ stage \in Seeding => turn = 1
    /\ stage \in Serving => \A k \in 1 .. turn - 1 : ServiceProvisioned(k)
    /\ stage = "done" => \A k \in 1 .. Len(ServiceDbs) : ServiceProvisioned(k)
    /\ stage \in Serving \ {"serviceRole"} => serviceDb[Here].role = TRUE
    /\ stage \in {"count", "serviceSeed"} => serviceDb[Here].tables = TRUE
    /\ stage = "serviceSeed" /\ bypasses => serviceDb[Here].members = FALSE

ProvisionInv ==
    /\ ProvisionTyped /\ IdentityInv /\ ServicesInv
    /\ stage = "failed" => meddled \/ stopped \/ Unrepairable

-----------------------------------------------------------------------------

LEMMA HereIsOne ==
    ASSUME ProvisionTyped, ProvisionAssumption
    PROVE  /\ Here \in ServiceNames
           /\ Len(ServiceDbs) \in Nat \ {0}
           /\ \A k \in 1 .. Len(ServiceDbs) : ServiceDbs[k] \in ServiceNames
  <1>1. Len(ServiceDbs) \in Nat
    BY DEF ProvisionAssumption
  <1>2. \A k \in 1 .. Len(ServiceDbs) : ServiceDbs[k] \in ServiceNames
    BY DEF ServiceNames
  <1> QED
    BY <1>1, <1>2 DEF Here, ProvisionTyped

\* The identity database as one statement leaves it.
LEMMA IdentityWritten ==
    ASSUME NEW i \in IdentityRows
    PROVE  /\ [i EXCEPT !.role = TRUE] \in IdentityRows
           /\ [i EXCEPT !.role = TRUE].role = TRUE
           /\ [i EXCEPT !.role = TRUE].tables = i.tables
           /\ [i EXCEPT !.tables = TRUE] \in IdentityRows
           /\ [i EXCEPT !.tables = TRUE].role = i.role
           /\ [i EXCEPT !.tables = TRUE].tables = TRUE
  BY DEF IdentityRows

\* A statement in the database of one service leaves the others alone.
LEMMA ServiceWritten ==
    ASSUME NEW db \in [ServiceNames -> ServiceRows], NEW h \in ServiceNames,
           NEW row \in ServiceRows
    PROVE  /\ [db EXCEPT ![h] = row] \in [ServiceNames -> ServiceRows]
           /\ [db EXCEPT ![h] = row][h] = row
           /\ \A s \in ServiceNames : s # h => [db EXCEPT ![h] = row][s] = db[s]
  OBVIOUS

\* The row of a service after each of its statements.
LEMMA RowWritten ==
    ASSUME NEW row \in ServiceRows
    PROVE  /\ [row EXCEPT !.role = TRUE] \in ServiceRows
           /\ [row EXCEPT !.role = TRUE].role = TRUE
           /\ [row EXCEPT !.role = TRUE].tables = row.tables
           /\ [row EXCEPT !.role = TRUE].members = row.members
           /\ [row EXCEPT !.tables = TRUE] \in ServiceRows
           /\ [row EXCEPT !.tables = TRUE].role = row.role
           /\ [row EXCEPT !.tables = TRUE].tables = TRUE
           /\ [row EXCEPT !.tables = TRUE].members = row.members
           /\ [row EXCEPT !.members = TRUE, !.records = TRUE] \in ServiceRows
           /\ [row EXCEPT !.members = TRUE, !.records = TRUE].role = row.role
           /\ [row EXCEPT !.members = TRUE, !.records = TRUE].tables = row.tables
           /\ [row EXCEPT !.members = TRUE, !.records = TRUE].members = TRUE
  BY DEF ServiceRows

\* While a service's row only gains, the services the run is through with stay provisioned.
LEMMA StaysProvisioned ==
    ASSUME ProvisionAssumption, ProvisionTyped, NEW row \in ServiceRows,
           serviceDb' = [serviceDb EXCEPT ![Here] = row], meddled' = meddled,
           serviceDb[Here].role = TRUE => row.role = TRUE,
           serviceDb[Here].tables = TRUE => row.tables = TRUE,
           serviceDb[Here].members = TRUE => row.members = TRUE,
           NEW k \in 1 .. Len(ServiceDbs), ServiceProvisioned(k)
    PROVE  ServiceProvisioned(k)'
  <1>1. ServiceDbs[k] \in ServiceNames /\ Here \in ServiceNames
    BY HereIsOne
  <1>2. /\ serviceDb'[Here] = row
        /\ \A s \in ServiceNames : s # Here => serviceDb'[s] = serviceDb[s]
    BY <1>1, ServiceWritten DEF ProvisionTyped
  <1>3. CASE ServiceDbs[k] = Here
    BY <1>2, <1>3 DEF ServiceProvisioned
  <1>4. CASE ServiceDbs[k] # Here
    BY <1>1, <1>2, <1>4 DEF ServiceProvisioned
  <1> QED
    BY <1>3, <1>4

LEMMA BeginStep ==
    ASSUME ProvisionAssumption, ProvisionInv, NEW given \in ClientSecrets, Begin(given)
    PROVE  ProvisionInv'
  <1>1. /\ stage' = "role" /\ turn' = 1 /\ secret' = given /\ sub' = 0
        /\ UNCHANGED <<pool, identity, serviceDb>>
    BY DEF Begin, NoSub
  <1>2. 1 \in 1 .. Len(ServiceDbs)
    BY HereIsOne DEF ProvisionInv
  <1>3. ProvisionTyped'
    BY <1>1, <1>2 DEF ProvisionInv, ProvisionTyped, Seeding
  <1>4. IdentityInv' /\ ServicesInv'
    BY <1>1 DEF IdentityInv, ServicesInv, Serving, Seeding
  <1> QED
    BY <1>1, <1>3, <1>4 DEF ProvisionInv

LEMMA EnsureRoleStep ==
    ASSUME ProvisionInv, EnsureRole
    PROVE  ProvisionInv'
  <1>1. /\ stage = "role" /\ stage' = "tables"
        /\ identity' = [identity EXCEPT !.role = TRUE]
        /\ UNCHANGED <<turn, secret, sub, pool, serviceDb, meddled, bypasses>>
    BY DEF EnsureRole, outsideVars
  <1>2. identity' \in IdentityRows /\ identity'.role = TRUE
    BY <1>1, IdentityWritten DEF ProvisionInv, ProvisionTyped
  <1>3. ProvisionTyped'
    BY <1>1, <1>2 DEF ProvisionInv, ProvisionTyped, Seeding
  <1>4. IdentityInv'
    BY <1>1, <1>2 DEF IdentityInv, Serving, Seeding
  <1>5. ServicesInv'
    BY <1>1 DEF ProvisionInv, ServicesInv, Serving, Seeding
  <1> QED
    BY <1>1, <1>3, <1>4, <1>5 DEF ProvisionInv

LEMMA ApplySchemaStep ==
    ASSUME ProvisionInv, ApplySchema
    PROVE  ProvisionInv'
  <1>1. /\ stage = "tables" /\ stage' \in {"createUser", "seedIdentity"}
        /\ identity' = [identity EXCEPT !.tables = TRUE]
        /\ sub' \in Nat
        /\ UNCHANGED <<turn, secret, pool, serviceDb, meddled, bypasses>>
    BY DEF ApplySchema, outsideVars, NoSub, FallbackSub
  <1>2. identity' \in IdentityRows /\ identity'.tables = TRUE /\ identity'.role = identity.role
    BY <1>1, IdentityWritten DEF ProvisionInv, ProvisionTyped
  <1>3. ProvisionTyped'
    BY <1>1, <1>2 DEF ProvisionInv, ProvisionTyped, Seeding
  <1>4. IdentityInv'
    BY <1>1, <1>2 DEF ProvisionInv, IdentityInv, Serving, Seeding
  <1>5. ServicesInv'
    BY <1>1 DEF ProvisionInv, ServicesInv, Serving, Seeding
  <1> QED
    BY <1>1, <1>3, <1>4, <1>5 DEF ProvisionInv

\* The calls to Cognito leave the databases alone.
LEMMA CognitoStep ==
    ASSUME ProvisionInv, CreateIfMissing \/ GetUser
    PROVE  ProvisionInv'
  <1>1. /\ stage \in {"createUser", "getUser"}
        /\ \/ stage' \in {"getUser", "seedIdentity"}
           \/ stage' = "failed" /\ stopped'
        /\ sub' \in Nat /\ pool' \in Nat
        /\ UNCHANGED <<turn, secret, identity, serviceDb, meddled, bypasses>>
    <2>1. sub \in Nat /\ pool \in Nat
      BY DEF ProvisionInv, ProvisionTyped
    <2>2. CASE CreateIfMissing
      BY <2>1, <2>2 DEF CreateIfMissing
    <2>3. CASE GetUser
      <3>1. pool = 0 => stopped'
        BY <2>3 DEF GetUser
      <3> QED
        BY <2>1, <2>3, <3>1 DEF GetUser, outsideVars
    <2> QED
      BY <2>2, <2>3
  <1>2. ProvisionTyped'
    BY <1>1 DEF ProvisionInv, ProvisionTyped, Seeding, Resting
  <1>3. IdentityInv'
    BY <1>1 DEF ProvisionInv, IdentityInv, Serving, Seeding
  <1>4. ServicesInv'
    BY <1>1 DEF ProvisionInv, ServicesInv, Serving, Seeding
  <1> QED
    BY <1>1, <1>2, <1>3, <1>4 DEF ProvisionInv

\* The seed takes the row that has the sub, or makes one.
LEMMA SeedWritten ==
    ASSUME ProvisionTyped, ~UserConflicts,
           identity' = [identity EXCEPT !.user = SeededUser, !.client = "active",
                                        !.secrets = Secrets, !.contract = "active",
                                        !.assigned = "active"],
           secret' = secret, sub' = sub
    PROVE  /\ identity' \in IdentityRows
           /\ identity'.role = identity.role /\ identity'.tables = identity.tables
           /\ IdentitySeeded'
  <1>1. SeededUser # NoUser /\ SeededUser.sub = sub
    BY DEF SeededUser, NoUser, UserConflicts
  <1>2. SeededUser \in [id : {"none", "seed", "invited"}, sub : Nat]
    BY DEF SeededUser, ProvisionTyped, IdentityRows
  <1>3. Secrets = {secret} /\ Secrets \in SUBSET ClientSecrets
    BY DEF Secrets, ProvisionTyped
  <1>4. identity \in IdentityRows
    BY DEF ProvisionTyped
  <1>5. identity' \in IdentityRows
    BY <1>2, <1>3, <1>4 DEF IdentityRows
  <1>6. /\ identity'.role = identity.role /\ identity'.tables = identity.tables
        /\ identity'.user = SeededUser /\ identity'.client = "active"
        /\ identity'.secrets = Secrets /\ identity'.contract = "active"
        /\ identity'.assigned = "active"
    BY <1>4 DEF IdentityRows
  <1>7. IdentitySeeded'
    BY <1>1, <1>3, <1>6 DEF IdentitySeeded
  <1> QED
    BY <1>5, <1>6, <1>7

LEMMA SeedIdentityStep ==
    ASSUME ProvisionAssumption, ProvisionInv, SeedIdentity
    PROVE  ProvisionInv'
  <1>1. /\ stage = "seedIdentity"
        /\ UNCHANGED <<turn, secret, sub, pool, serviceDb, meddled, bypasses, stopped>>
    BY DEF SeedIdentity, outsideVars
  <1>2. turn = 1 /\ identity.role = TRUE /\ identity.tables = TRUE
    BY <1>1 DEF ProvisionInv, ServicesInv, IdentityInv, Seeding
  <1>3. CASE UserConflicts /\ stage' = "failed" /\ UNCHANGED identity
    <2>1. ProvisionTyped'
      BY <1>1, <1>3 DEF ProvisionInv, ProvisionTyped, Resting
    <2>2. IdentityInv' /\ ServicesInv'
      BY <1>3 DEF IdentityInv, ServicesInv, Serving, Seeding
    <2>3. UserConflicts'
      BY <1>1, <1>3 DEF UserConflicts
    <2> QED
      BY <2>1, <2>2, <2>3 DEF ProvisionInv, Unrepairable
  <1>4. CASE /\ ~UserConflicts
             /\ identity' = [identity EXCEPT !.user = SeededUser, !.client = "active",
                                             !.secrets = Secrets, !.contract = "active",
                                             !.assigned = "active"]
             /\ stage' = "serviceRole"
    <2>1. /\ identity' \in IdentityRows
          /\ identity'.role = TRUE /\ identity'.tables = TRUE
          /\ IdentitySeeded'
      BY <1>1, <1>2, <1>4, SeedWritten DEF ProvisionInv
    <2>2. ProvisionTyped'
      BY <1>1, <1>4, <2>1 DEF ProvisionInv, ProvisionTyped, Serving
    <2>3. IdentityInv'
      BY <1>4, <2>1 DEF IdentityInv
    <2>4. ServicesInv'
      BY <1>1, <1>2, <1>4 DEF ServicesInv, Serving, Seeding
    <2> QED
      BY <1>4, <2>2, <2>3, <2>4 DEF ProvisionInv
  <1> QED
    BY <1>3, <1>4 DEF SeedIdentity

LEMMA EnsureServiceRoleStep ==
    ASSUME ProvisionAssumption, ProvisionInv, EnsureServiceRole
    PROVE  ProvisionInv'
  <1> DEFINE row == [serviceDb[Here] EXCEPT !.role = TRUE]
  <1>1. /\ stage = "serviceRole" /\ stage' = "serviceTables"
        /\ UNCHANGED <<turn, secret, sub, pool, identity, meddled, bypasses, stopped>>
        /\ serviceDb' = [serviceDb EXCEPT ![Here] = row]
    BY DEF EnsureServiceRole, outsideVars
  <1>2. Here \in ServiceNames /\ Here' = Here /\ serviceDb[Here] \in ServiceRows
    BY <1>1, HereIsOne DEF ProvisionInv, ProvisionTyped, Here
  <1>3. /\ row \in ServiceRows /\ row.role = TRUE
        /\ row.tables = serviceDb[Here].tables /\ row.members = serviceDb[Here].members
    BY <1>2, RowWritten
  <1> HIDE DEF row
  <1>4. serviceDb' \in [ServiceNames -> ServiceRows] /\ serviceDb'[Here] = row
    BY <1>1, <1>2, <1>3, ServiceWritten DEF ProvisionInv, ProvisionTyped
  <1>5. ProvisionTyped'
    BY <1>1, <1>4 DEF ProvisionInv, ProvisionTyped, Serving
  <1>6. IdentityInv'
    <2>1. meddled \/ IdentitySeeded
      BY <1>1 DEF ProvisionInv, IdentityInv, Serving
    <2>2. (meddled \/ IdentitySeeded)'
      BY <1>1, <2>1 DEF IdentitySeeded
    <2> QED
      BY <1>1, <2>2 DEF ProvisionInv, IdentityInv, Serving, Seeding
  <1>7. \A k \in 1 .. turn - 1 : ServiceProvisioned(k)'
    <2> SUFFICES ASSUME NEW k \in 1 .. turn - 1 PROVE ServiceProvisioned(k)'
      OBVIOUS
    <2>1. k \in 1 .. Len(ServiceDbs) /\ ServiceProvisioned(k)
      BY <1>1, HereIsOne DEF ProvisionInv, ProvisionTyped, ServicesInv, Serving
    <2> QED
      BY <1>1, <1>3, <2>1, StaysProvisioned DEF ProvisionInv
  <1>8. ServicesInv'
    BY <1>1, <1>2, <1>3, <1>4, <1>7 DEF ServicesInv, Serving, Seeding
  <1> QED
    BY <1>1, <1>5, <1>6, <1>8 DEF ProvisionInv

LEMMA ServiceTablesStep ==
    ASSUME ProvisionAssumption, ProvisionInv, ServiceTables
    PROVE  ProvisionInv'
  <1> DEFINE row == [serviceDb[Here] EXCEPT !.tables = TRUE]
  <1>1. /\ stage = "serviceTables" /\ stage' = "count"
        /\ UNCHANGED <<turn, secret, sub, pool, identity, meddled, bypasses, stopped>>
        /\ serviceDb' = [serviceDb EXCEPT ![Here] = row]
    BY DEF ServiceTables, outsideVars
  <1>2. /\ Here \in ServiceNames /\ Here' = Here
        /\ serviceDb[Here] \in ServiceRows /\ serviceDb[Here].role = TRUE
    BY <1>1, HereIsOne DEF ProvisionInv, ProvisionTyped, ServicesInv, Serving, Here
  <1>3. /\ row \in ServiceRows /\ row.tables = TRUE
        /\ row.role = serviceDb[Here].role /\ row.members = serviceDb[Here].members
    BY <1>2, RowWritten
  <1> HIDE DEF row
  <1>4. serviceDb' \in [ServiceNames -> ServiceRows] /\ serviceDb'[Here] = row
    BY <1>1, <1>2, <1>3, ServiceWritten DEF ProvisionInv, ProvisionTyped
  <1>5. ProvisionTyped'
    BY <1>1, <1>4 DEF ProvisionInv, ProvisionTyped, Serving
  <1>6. IdentityInv'
    <2>1. meddled \/ IdentitySeeded
      BY <1>1 DEF ProvisionInv, IdentityInv, Serving
    <2>2. (meddled \/ IdentitySeeded)'
      BY <1>1, <2>1 DEF IdentitySeeded
    <2> QED
      BY <1>1, <2>2 DEF ProvisionInv, IdentityInv, Serving, Seeding
  <1>7. \A k \in 1 .. turn - 1 : ServiceProvisioned(k)'
    <2> SUFFICES ASSUME NEW k \in 1 .. turn - 1 PROVE ServiceProvisioned(k)'
      OBVIOUS
    <2>1. k \in 1 .. Len(ServiceDbs) /\ ServiceProvisioned(k)
      BY <1>1, HereIsOne DEF ProvisionInv, ProvisionTyped, ServicesInv, Serving
    <2> QED
      BY <1>1, <1>3, <2>1, StaysProvisioned DEF ProvisionInv
  <1>8. ServicesInv'
    BY <1>1, <1>2, <1>3, <1>4, <1>7 DEF ServicesInv, Serving, Seeding
  <1> QED
    BY <1>1, <1>5, <1>6, <1>8 DEF ProvisionInv

\* With this service provisioned as well, the run goes on to the next one or is done.
LEMMA OnwardKeeps ==
    ASSUME ProvisionAssumption, ProvisionInv, stage \in Serving, Onward,
           serviceDb' \in [ServiceNames -> ServiceRows],
           UNCHANGED <<secret, sub, pool, identity, meddled>>,
           \A k \in 1 .. turn : ServiceProvisioned(k)'
    PROVE  ProvisionInv'
  <1>1. turn \in Nat \ {0} /\ turn <= Len(ServiceDbs) /\ Len(ServiceDbs) \in Nat
    BY HereIsOne DEF ProvisionInv, ProvisionTyped
  <1>2. \/ turn < Len(ServiceDbs) /\ turn' = turn + 1 /\ stage' = "serviceRole"
        \/ turn = Len(ServiceDbs) /\ turn' = turn /\ stage' = "done"
    BY <1>1 DEF Onward
  <1>3. ProvisionTyped'
    BY <1>1, <1>2 DEF ProvisionInv, ProvisionTyped, Serving, Resting
  <1>4. IdentityInv'
    <2>1. (meddled \/ IdentitySeeded) /\ identity.role = TRUE /\ identity.tables = TRUE
      BY DEF ProvisionInv, IdentityInv, Serving, Seeding
    <2>2. (meddled \/ IdentitySeeded)'
      BY <2>1 DEF IdentitySeeded
    <2> QED
      BY <2>1, <2>2 DEF IdentityInv
  <1>5. ServicesInv'
    <2>1. CASE turn' = turn + 1 /\ stage' = "serviceRole"
      <3>1. \A k \in 1 .. turn' - 1 : ServiceProvisioned(k)'
        BY <1>1, <2>1
      <3> QED
        BY <2>1, <3>1 DEF ServicesInv, Serving, Seeding
    <2>2. CASE turn = Len(ServiceDbs) /\ stage' = "done"
      BY <2>2 DEF ServicesInv, Serving, Seeding
    <2> QED
      BY <1>2, <2>1, <2>2
  <1> QED
    BY <1>2, <1>3, <1>4, <1>5 DEF ProvisionInv

LEMMA CountMembersStep ==
    ASSUME ProvisionAssumption, ProvisionInv, CountMembers
    PROVE  ProvisionInv'
  <1>1. /\ stage = "count" /\ stage \in Serving
        /\ UNCHANGED <<secret, sub, pool, identity, serviceDb, meddled, bypasses, stopped>>
    BY DEF CountMembers, outsideVars, Serving
  <1>2. /\ serviceDb[Here].role = TRUE /\ serviceDb[Here].tables = TRUE
        /\ \A k \in 1 .. turn - 1 : ServiceProvisioned(k)
        /\ serviceDb \in [ServiceNames -> ServiceRows] /\ Here \in ServiceNames
        /\ turn \in Nat
    BY <1>1, HereIsOne DEF ProvisionInv, ProvisionTyped, ServicesInv, Serving
  <1>3. CASE SeesMembers /\ Onward
    <2>1. serviceDb[Here].members = TRUE
      BY <1>2, <1>3 DEF SeesMembers, ServiceRows
    <2>2. ServiceProvisioned(turn)
      BY <1>2, <2>1 DEF ServiceProvisioned, Here
    <2>3. \A k \in 1 .. turn : ServiceProvisioned(k)'
      <3>1. \A k \in 1 .. turn : ServiceProvisioned(k)
        BY <1>2, <2>2
      <3> QED
        BY <1>1, <3>1 DEF ServiceProvisioned
    <2> QED
      BY <1>1, <1>2, <1>3, <2>3, OnwardKeeps
  <1>4. CASE ~SeesMembers /\ stage' = "serviceSeed" /\ turn' = turn
    <2>1. bypasses => serviceDb[Here].members = FALSE
      BY <1>2, <1>4 DEF SeesMembers, ServiceRows
    <2>2. ProvisionTyped'
      BY <1>1, <1>4 DEF ProvisionInv, ProvisionTyped, Serving
    <2>3. IdentityInv'
      <3>1. (meddled \/ IdentitySeeded) /\ identity.role = TRUE /\ identity.tables = TRUE
        BY <1>1 DEF ProvisionInv, IdentityInv, Serving, Seeding
      <3>2. (meddled \/ IdentitySeeded)'
        BY <1>1, <3>1 DEF IdentitySeeded
      <3> QED
        BY <1>1, <3>1, <3>2 DEF IdentityInv
    <2>4. Here' = Here
      BY <1>4 DEF Here
    <2>5. \A k \in 1 .. turn - 1 : ServiceProvisioned(k)'
      BY <1>1, <1>2 DEF ServiceProvisioned
    <2>6. ServicesInv'
      BY <1>1, <1>2, <1>4, <2>1, <2>4, <2>5 DEF ServicesInv, Serving, Seeding
    <2> QED
      BY <1>4, <2>2, <2>3, <2>6 DEF ProvisionInv
  <1> QED
    BY <1>3, <1>4 DEF CountMembers

\* The seed of a service is refused only where no rerun can repair it.
LEMMA ServiceSeedStep ==
    ASSUME ProvisionAssumption, ProvisionInv, ServiceSeed
    PROVE  ProvisionInv'
  <1>1. /\ stage = "serviceSeed" /\ stage \in Serving
        /\ UNCHANGED <<secret, sub, pool, identity, meddled, bypasses, stopped>>
    BY DEF ServiceSeed, outsideVars, Serving
  <1>2. /\ serviceDb[Here].role = TRUE /\ serviceDb[Here].tables = TRUE
        /\ \A k \in 1 .. turn - 1 : ServiceProvisioned(k)
        /\ serviceDb \in [ServiceNames -> ServiceRows] /\ Here \in ServiceNames
        /\ turn \in 1 .. Len(ServiceDbs) /\ Len(ServiceDbs) \in Nat
        /\ bypasses => serviceDb[Here].members = FALSE
    BY <1>1, HereIsOne DEF ProvisionInv, ProvisionTyped, ServicesInv, Serving
  <1>3. CASE SeedRefused /\ stage' = "failed" /\ UNCHANGED <<serviceDb, turn>>
    <2>1. Unrepairable
      <3>1. CASE ~bypasses
        BY <3>1 DEF Unrepairable
      <3>2. CASE bypasses
        <4>1. ~serviceDb[Here].members /\ serviceDb[Here].records
          BY <1>2, <1>3, <3>2 DEF SeedRefused
        <4> QED
          BY <1>2, <4>1 DEF Unrepairable
      <3> QED
        BY <3>1, <3>2
    <2>2. Unrepairable'
      BY <1>1, <1>3, <2>1 DEF Unrepairable, UserConflicts
    <2>3. ProvisionTyped'
      BY <1>1, <1>3 DEF ProvisionInv, ProvisionTyped, Resting
    <2>4. IdentityInv' /\ ServicesInv'
      BY <1>3 DEF IdentityInv, ServicesInv, Serving, Seeding
    <2> QED
      BY <2>2, <2>3, <2>4 DEF ProvisionInv
  <1>4. CASE /\ ~SeedRefused
             /\ serviceDb' = [serviceDb EXCEPT ![Here].members = TRUE, ![Here].records = TRUE]
             /\ Onward
    <2> DEFINE row == [serviceDb[Here] EXCEPT !.members = TRUE, !.records = TRUE]
    <2>1. serviceDb' = [serviceDb EXCEPT ![Here] = row]
      BY <1>2, <1>4 DEF ServiceRows
    <2>2. /\ row \in ServiceRows /\ row.members = TRUE
          /\ row.role = TRUE /\ row.tables = TRUE
      BY <1>2, RowWritten
    <2> HIDE DEF row
    <2>3. serviceDb' \in [ServiceNames -> ServiceRows] /\ serviceDb'[Here] = row
      BY <1>2, <2>1, <2>2, ServiceWritten
    <2>4. ASSUME NEW k \in 1 .. turn PROVE ServiceProvisioned(k)'
      <3>1. CASE k = turn
        BY <2>2, <2>3, <3>1 DEF ServiceProvisioned, Here
      <3>2. CASE k # turn
        <4>1. k \in 1 .. Len(ServiceDbs) /\ ServiceProvisioned(k)
          BY <1>2, <3>2
        <4> QED
          BY <1>1, <2>1, <2>2, <4>1, StaysProvisioned DEF ProvisionInv
      <3> QED
        BY <3>1, <3>2
    <2> QED
      BY <1>1, <1>4, <2>3, <2>4, OnwardKeeps
  <1> QED
    BY <1>3, <1>4 DEF ServiceSeed

LEMMA StopStep ==
    ASSUME ProvisionInv, Stop
    PROVE  ProvisionInv'
  <1>1. /\ stage' = "failed" /\ stopped' = TRUE
        /\ UNCHANGED <<turn, secret, sub, pool, identity, serviceDb>>
    BY DEF Stop, outsideVars
  <1>2. ProvisionTyped'
    BY <1>1 DEF ProvisionInv, ProvisionTyped, Resting
  <1>3. IdentityInv' /\ ServicesInv'
    BY <1>1 DEF IdentityInv, ServicesInv, Serving, Seeding
  <1> QED
    BY <1>1, <1>2, <1>3 DEF ProvisionInv

\* What others write never takes a role or a table away.
LEMMA MeddlingKeeps ==
    ASSUME ProvisionAssumption, ProvisionInv, Meddle, Aside, pool' \in Nat,
           identity' \in IdentityRows,
           identity'.role = identity.role, identity'.tables = identity.tables,
           serviceDb' \in [ServiceNames -> ServiceRows],
           \A s \in ServiceNames : /\ serviceDb'[s].role = serviceDb[s].role
                                   /\ serviceDb'[s].tables = serviceDb[s].tables
                                   /\ serviceDb[s].members = FALSE =>
                                         serviceDb'[s].members = FALSE
    PROVE  ProvisionInv'
  <1>1. meddled' = TRUE /\ UNCHANGED <<stage, turn, secret, sub, bypasses>> /\ Here' = Here
    BY DEF Meddle, Aside, Here
  <1>2. /\ Here \in ServiceNames /\ turn \in 1 .. Len(ServiceDbs) /\ Len(ServiceDbs) \in Nat
        /\ \A k \in 1 .. Len(ServiceDbs) : ServiceDbs[k] \in ServiceNames
    BY HereIsOne DEF ProvisionInv, ProvisionTyped
  <1>3. ProvisionTyped'
    BY <1>1 DEF ProvisionInv, ProvisionTyped
  <1>4. IdentityInv'
    BY <1>1 DEF ProvisionInv, IdentityInv
  <1>5. \A k \in 1 .. Len(ServiceDbs) : ServiceProvisioned(k) => ServiceProvisioned(k)'
    BY <1>1, <1>2 DEF ServiceProvisioned
  <1>6. \A k \in 1 .. turn - 1 : k \in 1 .. Len(ServiceDbs)
    BY <1>2
  <1>7. ServicesInv'
    BY <1>1, <1>2, <1>5, <1>6 DEF ProvisionInv, ServicesInv
  <1> QED
    BY <1>1, <1>3, <1>4, <1>7 DEF ProvisionInv

LEMMA MeddlingStep ==
    ASSUME ProvisionAssumption, ProvisionInv,
           Invite \/ Login \/ RecreatePool \/ Withdraw
                  \/ (\E s \in ServiceNames : EmptyService(s))
    PROVE  ProvisionInv'
  <1>1. /\ identity \in IdentityRows /\ pool \in Nat
        /\ serviceDb \in [ServiceNames -> ServiceRows]
    BY DEF ProvisionInv, ProvisionTyped
  <1>2. CASE Invite
    <2>1. identity' = [identity EXCEPT !.user = [id |-> "invited", sub |-> NoSub]]
      BY <1>2 DEF Invite
    <2>2. /\ identity' \in IdentityRows
          /\ identity'.role = identity.role /\ identity'.tables = identity.tables
      BY <1>1, <2>1 DEF IdentityRows, NoSub
    <2> QED
      BY <1>1, <1>2, <2>2, MeddlingKeeps DEF Invite
  <1>3. CASE Login
    <2>1. PICK u \in Nat : identity' = [identity EXCEPT !.user.sub = u]
      BY <1>1, <1>3 DEF Login, FallbackSub
    <2>2. /\ identity' \in IdentityRows
          /\ identity'.role = identity.role /\ identity'.tables = identity.tables
      BY <1>1, <2>1 DEF IdentityRows
    <2> QED
      BY <1>1, <1>3, <2>2, MeddlingKeeps DEF Login
  <1>4. CASE RecreatePool
    <2>1. pool' \in Nat
      BY <1>4 DEF RecreatePool
    <2> QED
      BY <1>1, <1>4, <2>1, MeddlingKeeps DEF RecreatePool
  <1>5. CASE Withdraw
    <2>1. /\ identity' \in IdentityRows
          /\ identity'.role = identity.role /\ identity'.tables = identity.tables
      BY <1>1, <1>5 DEF Withdraw, IdentityRows
    <2> QED
      BY <1>1, <1>5, <2>1, MeddlingKeeps DEF Withdraw
  <1>6. ASSUME NEW s \in ServiceNames, EmptyService(s) PROVE ProvisionInv'
    <2>1. PICK left \in {serviceDb[s].records, FALSE} :
             serviceDb' = [serviceDb EXCEPT ![s].members = FALSE, ![s].records = left]
      BY <1>6 DEF EmptyService
    <2> DEFINE row == [serviceDb[s] EXCEPT !.members = FALSE, !.records = left]
    <2>2. serviceDb[s] \in ServiceRows /\ left \in BOOLEAN
      BY <1>1 DEF ServiceRows
    <2>3. serviceDb' = [serviceDb EXCEPT ![s] = row]
      BY <1>1, <2>1, <2>2 DEF ServiceRows
    <2>4. /\ row \in ServiceRows /\ row.members = FALSE
          /\ row.role = serviceDb[s].role /\ row.tables = serviceDb[s].tables
      BY <2>2 DEF ServiceRows
    <2> HIDE DEF row
    <2>5. /\ serviceDb' \in [ServiceNames -> ServiceRows] /\ serviceDb'[s] = row
          /\ \A z \in ServiceNames : z # s => serviceDb'[z] = serviceDb[z]
      BY <1>1, <2>3, <2>4, ServiceWritten
    <2>6. \A z \in ServiceNames : /\ serviceDb'[z].role = serviceDb[z].role
                                  /\ serviceDb'[z].tables = serviceDb[z].tables
                                  /\ serviceDb[z].members = FALSE =>
                                        serviceDb'[z].members = FALSE
      BY <2>4, <2>5
    <2> QED
      BY <1>1, <1>6, <2>5, <2>6, MeddlingKeeps DEF EmptyService
  <1> QED
    BY <1>2, <1>3, <1>4, <1>5, <1>6

\* What a run of the provisioning tool has achieved at each of its stages stays so for the
\* rest of the run, unless somebody writes to the same rows meanwhile, and the run only
\* fails where a rerun would fail too (tools/provision).
THEOREM ProvisionInvariance == ProvisionSpec => []ProvisionInv
  <1> USE ProvisionAssumption
  <1>1. ProvisionInit => ProvisionInv
    <2> SUFFICES ASSUME ProvisionInit PROVE ProvisionInv
      OBVIOUS
    <2>1. Len(ServiceDbs) \in Nat /\ Len(ServiceDbs) >= 1
      BY DEF ProvisionAssumption
    <2>2. identity \in IdentityRows
      <3>1. EmptyIdentity \in IdentityRows
        BY DEF EmptyIdentity, IdentityRows, NoUser
      <3>2. EarlierIdentity \in IdentityRows
        BY <3>1 DEF EarlierIdentity, IdentityRows, ProvisionInit
      <3> QED
        BY <3>1, <3>2 DEF ProvisionInit
    <2>3. serviceDb \in [ServiceNames -> ServiceRows]
      BY DEF ProvisionInit, EmptyServiceDb, ServiceRows
    <2>4. ProvisionTyped
      BY <2>1, <2>2, <2>3 DEF ProvisionInit, ProvisionTyped, Resting, NoSub
    <2>5. IdentityInv /\ ServicesInv
      BY DEF ProvisionInit, IdentityInv, ServicesInv, Serving, Seeding
    <2> QED
      BY <2>4, <2>5 DEF ProvisionInit, ProvisionInv
  <1>2. ProvisionInv /\ [ProvisionNext]_provisionVars => ProvisionInv'
    <2> SUFFICES ASSUME ProvisionInv, [ProvisionNext]_provisionVars PROVE ProvisionInv'
      OBVIOUS
    <2>1. ASSUME NEW given \in ClientSecrets, Begin(given) PROVE ProvisionInv'
      BY <2>1, BeginStep
    <2>2. CASE EnsureRole
      BY <2>2, EnsureRoleStep
    <2>3. CASE ApplySchema
      BY <2>3, ApplySchemaStep
    <2>4. CASE CreateIfMissing \/ GetUser
      BY <2>4, CognitoStep
    <2>5. CASE SeedIdentity
      BY <2>5, SeedIdentityStep
    <2>6. CASE EnsureServiceRole
      BY <2>6, EnsureServiceRoleStep
    <2>7. CASE ServiceTables
      BY <2>7, ServiceTablesStep
    <2>8. CASE CountMembers
      BY <2>8, CountMembersStep
    <2>9. CASE ServiceSeed
      BY <2>9, ServiceSeedStep
    <2>10. CASE Stop
      BY <2>10, StopStep
    <2>11. CASE Invite \/ Login \/ RecreatePool \/ Withdraw
                       \/ (\E s \in ServiceNames : EmptyService(s))
      BY <2>11, MeddlingStep
    <2>12. CASE UNCHANGED provisionVars
      <3>1. UNCHANGED <<stage, turn, secret, sub, useCognito, bypasses, pool, identity,
                        serviceDb, meddled, stopped>>
        BY <2>12 DEF provisionVars
      <3>2. Here' = Here
        BY <3>1 DEF Here
      <3>3. ProvisionTyped'
        BY <3>1 DEF ProvisionInv, ProvisionTyped
      <3>4. IdentityInv'
        BY <3>1 DEF ProvisionInv, IdentityInv, IdentitySeeded
      <3>5. ServicesInv'
        BY <3>1, <3>2 DEF ProvisionInv, ServicesInv, ServiceProvisioned
      <3>6. (stage = "failed" => meddled \/ stopped \/ Unrepairable)'
        BY <3>1 DEF ProvisionInv, Unrepairable, UserConflicts
      <3> QED
        BY <3>3, <3>4, <3>5, <3>6 DEF ProvisionInv
    <2> QED
      BY <2>1, <2>2, <2>3, <2>4, <2>5, <2>6, <2>7, <2>8, <2>9, <2>10, <2>11, <2>12
         DEF ProvisionNext
  <1> QED
    BY <1>1, <1>2, PTL DEF ProvisionSpec

\* Provisioning may be stopped anywhere and run again, for any services and client secrets
\* (docs/deploy.md:73): a run that finishes without others writing meanwhile leaves what the
\* seed says and its own secret as the only active one, and a run that fails was stopped or
\* met a state no rerun repairs (tools/provision).
THEOREM ProvisionAlwaysConverges == ProvisionSpec => []ProvisionConverges
  <1>1. ProvisionInv => ProvisionConverges
    <2> SUFFICES ASSUME ProvisionInv PROVE ProvisionConverges
      OBVIOUS
    <2>1. ASSUME stage = "done", ~meddled PROVE SeedHeld
      <3>1. IdentitySeeded /\ identity.role = TRUE /\ identity.tables = TRUE
        BY <2>1 DEF ProvisionInv, IdentityInv
      <3>2. ASSUME NEW s \in ServiceNames
            PROVE  serviceDb[s].role /\ serviceDb[s].tables /\ serviceDb[s].members
        <4>1. PICK k \in 1 .. Len(ServiceDbs) : s = ServiceDbs[k]
          BY DEF ServiceNames
        <4>2. ServiceProvisioned(k)
          BY <2>1 DEF ProvisionInv, ServicesInv
        <4> QED
          BY <2>1, <4>1, <4>2 DEF ServiceProvisioned
      <3> QED
        BY <3>1, <3>2 DEF SeedHeld, IdentitySeeded
    <2> QED
      BY <2>1 DEF ProvisionInv, ProvisionConverges
  <1> QED
    BY <1>1, ProvisionInvariance, PTL

-----------------------------------------------------------------------------
(* The members page: what is on its way from and to the rows.               *)
(*                                                                         *)
(* Every list in the page is as old as the version it was read with; it     *)
(* speaks for the row, apart from what was changed by hand, only while the  *)
(* row still has that version.                                              *)

ServerTyped == onServer \in [Colleagues -> [present : BOOLEAN, overrides : Choices, version : Nat]]

\* The list is the row's, but for the edits, if the row was not written since.
SpeaksFor(m, version, list, edits) ==
    /\ m \in Colleagues /\ version \in Nat /\ list \in Choices
    /\ version <= onServer[m].version
    /\ version = onServer[m].version =>
          \A a \in Abilities \ edits : list[a] = onServer[m].overrides[a]

LoadingInv ==
    /\ loading = [m \in Colleagues |-> loading[m]]
    /\ \A m \in Colleagues : loading[m].what = "detail" =>
          SpeaksFor(m, loading[m].version, loading[m].overrides, {})

EditorInv ==
    /\ effects \in Choices
    /\ selected # NoDetail =>
          /\ SpeaksFor(selected.who, selected.version, selected.overrides, {})
          /\ carried \/ SpeaksFor(selected.who, selected.version, effects, chosen)

\* A save on its way; the member and the list are there even if the editor was carried over.
SaveInv ==
    /\ doing = [t \in Tasks |-> doing[t]]
    /\ doing["save"].reply = "awaited" =>
          /\ doing["save"].who \in Colleagues /\ doing["save"].list \in Choices
          /\ \/ doing["save"].carried
             \/ SpeaksFor(doing["save"].who, doing["save"].version,
                          doing["save"].list, doing["save"].edits)

ConsoleInv == ServerTyped /\ LoadingInv /\ EditorInv /\ SaveInv

\* A row is as it was or has a later version.
RowsAge ==
    \A m \in Colleagues :
        \/ onServer'[m] = onServer[m]
        \/ onServer'[m].version > onServer[m].version

-----------------------------------------------------------------------------

\* What spoke for a row still does after any write: either nothing was written to it, or
\* its version has moved on.
LEMMA StillSpeaks ==
    ASSUME ServerTyped, ServerTyped', RowsAge,
           NEW m, NEW v, NEW list, NEW edits, SpeaksFor(m, v, list, edits)
    PROVE  /\ m \in Colleagues /\ v \in Nat /\ list \in Choices
           /\ v <= onServer'[m].version
           /\ v = onServer'[m].version =>
                 \A a \in Abilities \ edits : list[a] = onServer'[m].overrides[a]
  <1>1. /\ m \in Colleagues /\ v \in Nat /\ list \in Choices /\ v <= onServer[m].version
        /\ v = onServer[m].version =>
                 \A a \in Abilities \ edits : list[a] = onServer[m].overrides[a]
    BY DEF SpeaksFor
  <1>2. onServer[m].version \in Nat /\ onServer'[m].version \in Nat
    BY <1>1 DEF ServerTyped
  <1>3. CASE onServer'[m] = onServer[m]
    BY <1>1, <1>3
  <1>4. CASE onServer'[m].version > onServer[m].version
    BY <1>1, <1>2, <1>4
  <1> QED
    BY <1>1, <1>3, <1>4 DEF RowsAge

LEMMA LoadingKept ==
    ASSUME ServerTyped, ServerTyped', RowsAge, LoadingInv, loading' = loading
    PROVE  LoadingInv'
  <1>1. ASSUME NEW m \in Colleagues, loading[m].what = "detail"
        PROVE  SpeaksFor(m, loading[m].version, loading[m].overrides, {})'
    <2>1. SpeaksFor(m, loading[m].version, loading[m].overrides, {})
      BY <1>1 DEF LoadingInv
    <2>2. /\ m \in Colleagues /\ loading[m].version \in Nat /\ loading[m].overrides \in Choices
          /\ loading[m].version <= onServer'[m].version
          /\ loading[m].version = onServer'[m].version =>
                \A a \in Abilities \ {} : loading[m].overrides[a] = onServer'[m].overrides[a]
      BY <2>1, StillSpeaks
    <2> QED
      BY <2>2 DEF SpeaksFor
  <1> QED
    BY <1>1 DEF LoadingInv

LEMMA EditorKept ==
    ASSUME ServerTyped, ServerTyped', RowsAge, EditorInv,
           UNCHANGED <<selected, effects, chosen, carried>>
    PROVE  EditorInv'
  <1>1. selected # NoDetail => SpeaksFor(selected.who, selected.version, selected.overrides, {})'
    <2> SUFFICES ASSUME selected # NoDetail
                 PROVE  SpeaksFor(selected.who, selected.version, selected.overrides, {})'
      OBVIOUS
    <2>1. SpeaksFor(selected.who, selected.version, selected.overrides, {})
      BY DEF EditorInv
    <2>2. /\ selected.who \in Colleagues /\ selected.version \in Nat /\ selected.overrides \in Choices
          /\ selected.version <= onServer'[selected.who].version
          /\ selected.version = onServer'[selected.who].version =>
                \A a \in Abilities \ {} : selected.overrides[a] = onServer'[selected.who].overrides[a]
      BY <2>1, StillSpeaks
    <2> QED
      BY <2>2 DEF SpeaksFor
  <1>2. selected # NoDetail =>
           carried \/ SpeaksFor(selected.who, selected.version, effects, chosen)'
    <2> SUFFICES ASSUME selected # NoDetail, ~carried
                 PROVE  SpeaksFor(selected.who, selected.version, effects, chosen)'
      OBVIOUS
    <2>1. SpeaksFor(selected.who, selected.version, effects, chosen)
      BY DEF EditorInv
    <2>2. /\ selected.who \in Colleagues /\ selected.version \in Nat /\ effects \in Choices
          /\ selected.version <= onServer'[selected.who].version
          /\ selected.version = onServer'[selected.who].version =>
                \A a \in Abilities \ chosen : effects[a] = onServer'[selected.who].overrides[a]
      BY <2>1, StillSpeaks
    <2> QED
      BY <2>2 DEF SpeaksFor
  <1> QED
    BY <1>1, <1>2 DEF EditorInv

LEMMA SaveKept ==
    ASSUME ServerTyped, ServerTyped', RowsAge, SaveInv,
           doing' = [t \in Tasks |-> doing'[t]], doing'["save"] = doing["save"]
    PROVE  SaveInv'
  <1> DEFINE sent == doing["save"]
  <1>1. sent.reply = "awaited" => sent.who \in Colleagues /\ sent.list \in Choices
    BY DEF SaveInv
  <1>2. ASSUME sent.reply = "awaited", ~sent.carried
        PROVE  SpeaksFor(sent.who, sent.version, sent.list, sent.edits)'
    <2>1. SpeaksFor(sent.who, sent.version, sent.list, sent.edits)
      BY <1>2 DEF SaveInv
    <2>2. /\ sent.who \in Colleagues /\ sent.version \in Nat /\ sent.list \in Choices
          /\ sent.version <= onServer'[sent.who].version
          /\ sent.version = onServer'[sent.who].version =>
                \A a \in Abilities \ sent.edits : sent.list[a] = onServer'[sent.who].overrides[a]
      BY <2>1, StillSpeaks
    <2> QED
      BY <2>2 DEF SpeaksFor
  <1>3. sent.reply = "awaited" =>
           sent.carried \/ SpeaksFor(sent.who, sent.version, sent.list, sent.edits)'
    BY <1>2
  <1> QED
    BY <1>1, <1>3 DEF SaveInv

\* A write gives a row its next version.
LEMMA WriteAges ==
    ASSUME ServerTyped, NEW m \in Colleagues, NEW present \in BOOLEAN, NEW list \in Choices,
           Write(m, present, list)
    PROVE  ServerTyped' /\ RowsAge
  <1> DEFINE row == [present |-> present, overrides |-> list,
                     version |-> onServer[m].version + 1]
  <1>1. onServer' = [onServer EXCEPT ![m] = row] /\ onServer[m].version \in Nat
    BY DEF Write, ServerTyped
  <1>2. /\ row \in [present : BOOLEAN, overrides : Choices, version : Nat]
        /\ row.version = onServer[m].version + 1
    BY <1>1
  <1> HIDE DEF row
  <1>3. ServerTyped'
    BY <1>1, <1>2 DEF ServerTyped
  <1>4. ASSUME NEW n \in Colleagues
        PROVE  onServer'[n] = onServer[n] \/ onServer'[n].version > onServer[n].version
    BY <1>1, <1>2 DEF ServerTyped
  <1> QED
    BY <1>3, <1>4 DEF RowsAge

\* Nothing written.
LEMMA RowsRest ==
    ASSUME ServerTyped, onServer' = onServer
    PROVE  ServerTyped' /\ RowsAge
  BY DEF ServerTyped, RowsAge

LEMMA OpenStep ==
    ASSUME ConsoleInv, NEW m \in Colleagues, Open(m) \/ ShowDetailError(m)
    PROVE  ConsoleInv'
  <1> USE DEF ConsoleInv
  <1>1. UNCHANGED <<onServer, selected, effects, doing, pending, chosen, carried>>
    BY DEF Open, ShowDetailError
  <1>2. ServerTyped' /\ RowsAge
    BY <1>1, RowsRest
  <1>3. EditorInv' /\ SaveInv'
    BY <1>1, <1>2, EditorKept, SaveKept DEF SaveInv
  <1>4. PICK answer : /\ loading' = [loading EXCEPT ![m] = answer]
                      /\ \/ answer.what # "detail"
                         \/ /\ answer.version = onServer[m].version
                            /\ answer.overrides = onServer[m].overrides
    <2>1. CASE Open(m) /\ onServer[m].present
      <3> DEFINE detail == [what |-> "detail", overrides |-> onServer[m].overrides,
                            version |-> onServer[m].version]
      <3>1. loading' = [loading EXCEPT ![m] = detail]
        BY <2>1 DEF Open
      <3>2. detail.version = onServer[m].version /\ detail.overrides = onServer[m].overrides
        OBVIOUS
      <3> HIDE DEF detail
      <3> QED
        BY <3>1, <3>2
    <2>2. CASE Open(m) /\ ~onServer[m].present
      <3>1. [what |-> "error"].what # "detail"
        OBVIOUS
      <3> QED
        BY <2>2, <3>1 DEF Open
    <2>3. CASE ShowDetailError(m)
      <3>1. Free.what # "detail"
        BY DEF Free
      <3> QED
        BY <2>3, <3>1 DEF ShowDetailError
    <2> QED
      BY <2>1, <2>2, <2>3
  <1>5. /\ loading' = [n \in Colleagues |-> loading'[n]] /\ loading'[m] = answer
        /\ \A n \in Colleagues : n # m => loading'[n] = loading[n]
    BY <1>4 DEF LoadingInv
  <1>6. ASSUME NEW n \in Colleagues, loading'[n].what = "detail"
        PROVE  SpeaksFor(n, loading[n].version, loading[n].overrides, {})'
    <2>1. CASE n # m
      <3>1. SpeaksFor(n, loading[n].version, loading[n].overrides, {})
        BY <1>5, <1>6, <2>1 DEF LoadingInv
      <3> QED
        BY <1>1, <1>5, <2>1, <3>1 DEF SpeaksFor
    <2>2. CASE n = m
      <3>1. onServer[m].version \in Nat /\ onServer[m].overrides \in Choices
        BY DEF ServerTyped
      <3> QED
        BY <1>1, <1>4, <1>5, <1>6, <2>2, <3>1 DEF SpeaksFor
    <2> QED
      BY <2>1, <2>2
  <1>7. LoadingInv'
    BY <1>5, <1>6 DEF LoadingInv
  <1> QED
    BY <1>2, <1>3, <1>7

\* The answer is shown: by an editor mounted for it, or by the one that was mounted before.
LEMMA ShowDetailStep ==
    ASSUME ConsoleInv, NEW m \in Colleagues, ShowDetail(m)
    PROVE  ConsoleInv'
  <1> USE DEF ConsoleInv
  <1>1. /\ loading[m].what = "detail"
        /\ selected' = [who |-> m, overrides |-> loading[m].overrides,
                        version |-> loading[m].version]
        /\ loading' = [loading EXCEPT ![m] = Free]
        /\ UNCHANGED <<onServer, doing, pending>>
    BY DEF ShowDetail
  <1>2. ServerTyped' /\ RowsAge
    BY <1>1, RowsRest
  <1>3. SaveInv'
    BY <1>1, <1>2, SaveKept DEF SaveInv
  <1>4. SpeaksFor(m, loading[m].version, loading[m].overrides, {})
    BY <1>1 DEF LoadingInv
  <1>5. LoadingInv'
    <2>1. Free.what # "detail"
      BY DEF Free
    <2>2. /\ loading' = [n \in Colleagues |-> loading'[n]] /\ loading'[m] = Free
          /\ \A n \in Colleagues : n # m => loading'[n] = loading[n]
      BY <1>1 DEF LoadingInv
    <2>3. ASSUME NEW n \in Colleagues, loading'[n].what = "detail"
          PROVE  SpeaksFor(n, loading[n].version, loading[n].overrides, {})'
      <3>1. n # m /\ SpeaksFor(n, loading[n].version, loading[n].overrides, {})
        BY <2>1, <2>2, <2>3 DEF LoadingInv
      <3> QED
        BY <1>1, <2>2, <3>1 DEF SpeaksFor
    <2> QED
      BY <2>2, <2>3 DEF LoadingInv
  <1>6. /\ selected'.who = m /\ selected'.version = loading[m].version
        /\ selected'.overrides = loading[m].overrides
    BY <1>1
  <1>7. SpeaksFor(selected.who, selected.version, selected.overrides, {})'
    BY <1>1, <1>4, <1>6 DEF SpeaksFor
  <1>8. CASE selected = NoDetail
    <2>1. effects' = loading[m].overrides /\ chosen' = {}
      BY <1>8 DEF ShowDetail, Mounted
    <2>2. effects' \in Choices
      BY <1>4, <2>1 DEF SpeaksFor
    <2>3. SpeaksFor(selected.who, selected.version, effects, chosen)'
      BY <1>1, <1>4, <1>6, <2>1 DEF SpeaksFor
    <2> QED
      BY <1>2, <1>3, <1>5, <1>7, <2>2, <2>3 DEF EditorInv
  <1>9. CASE selected # NoDetail
    <2>1. /\ UNCHANGED <<effects, chosen>>
          /\ carried' = (carried \/ ~SameReading(m))
      BY <1>9 DEF ShowDetail, Mounted
    <2>2. ASSUME ~carried' PROVE SpeaksFor(selected.who, selected.version, effects, chosen)'
      <3>1. /\ ~carried
            /\ selected.who = m /\ selected.version = loading[m].version
        BY <2>1, <2>2 DEF SameReading
      <3>2. SpeaksFor(selected.who, selected.version, effects, chosen)
        BY <1>9, <3>1 DEF EditorInv
      <3> QED
        BY <1>1, <1>6, <2>1, <3>1, <3>2 DEF SpeaksFor
    <2> QED
      BY <1>2, <1>3, <1>5, <1>7, <2>1, <2>2 DEF EditorInv
  <1> QED
    BY <1>8, <1>9

LEMMA ChooseStep ==
    ASSUME ConsoleInv, NEW a \in Abilities, NEW e \in Effects, Choose(a, e)
    PROVE  ConsoleInv'
  <1> USE DEF ConsoleInv
  <1>1. /\ effects' = [effects EXCEPT ![a] = e] /\ chosen' = chosen \union {a}
        /\ UNCHANGED <<onServer, loading, selected, doing, pending, carried>>
    BY DEF Choose
  <1>2. ServerTyped' /\ RowsAge
    BY <1>1, RowsRest
  <1>3. LoadingInv' /\ SaveInv'
    BY <1>1, <1>2, LoadingKept, SaveKept DEF SaveInv
  <1>4. /\ effects' \in Choices
        /\ \A b \in Abilities \ {a} : effects'[b] = effects[b]
    BY <1>1 DEF EditorInv, Choices
  <1>5. ASSUME selected # NoDetail
        PROVE  /\ SpeaksFor(selected.who, selected.version, selected.overrides, {})'
               /\ carried \/ SpeaksFor(selected.who, selected.version, effects, chosen)'
    <2>1. SpeaksFor(selected.who, selected.version, selected.overrides, {})'
      BY <1>1, <1>5 DEF EditorInv, SpeaksFor
    <2>2. ASSUME ~carried PROVE SpeaksFor(selected.who, selected.version, effects, chosen)'
      <3>1. SpeaksFor(selected.who, selected.version, effects, chosen)
        BY <1>5, <2>2 DEF EditorInv
      <3>2. \A b \in Abilities \ chosen' : b \in Abilities \ chosen /\ effects'[b] = effects[b]
        BY <1>1, <1>4
      <3> QED
        BY <1>1, <1>4, <3>1, <3>2 DEF SpeaksFor
    <2> QED
      BY <2>1, <2>2
  <1> QED
    BY <1>1, <1>2, <1>3, <1>4, <1>5 DEF EditorInv

LEMMA NothingChosen == AsTheRole \in Choices
  BY ConsoleAssumption DEF AsTheRole, Choices

LEMMA CloseEditorStep ==
    ASSUME ConsoleInv, CloseEditor
    PROVE  ConsoleInv'
  <1> USE DEF ConsoleInv
  <1>1. /\ selected' = NoDetail /\ effects' = AsTheRole
        /\ UNCHANGED <<onServer, loading, doing>>
    BY DEF CloseEditor
  <1>2. ServerTyped' /\ RowsAge
    BY <1>1, RowsRest
  <1>3. LoadingInv' /\ SaveInv'
    BY <1>1, <1>2, LoadingKept, SaveKept DEF SaveInv
  <1>4. EditorInv'
    BY <1>1, NothingChosen DEF EditorInv
  <1> QED
    BY <1>2, <1>3, <1>4

\* A save takes the editor's list along.
LEMMA SaveStep ==
    ASSUME ConsoleInv, Save
    PROVE  ConsoleInv'
  <1> USE DEF ConsoleInv
  <1> DEFINE request == [Request(selected.who) EXCEPT !.list = effects,
                                                      !.version = selected.version,
                                                      !.edits = chosen, !.carried = carried]
  <1>1. /\ selected # NoDetail
        /\ UNCHANGED <<onServer, loading, selected, effects, chosen, carried>>
    BY DEF Save
  <1>2. DOMAIN Request(selected.who) = {"who", "list", "version", "edits", "carried", "reply"}
    BY DEF Request, NotSent
  <1>3. doing' = [doing EXCEPT !["save"] = request]
    BY DEF Save, Send
  <1>4. /\ request.who = selected.who /\ request.list = effects
        /\ request.version = selected.version /\ request.edits = chosen
        /\ request.carried = carried
    <2>1. PICK c : c = carried
      OBVIOUS
    <2>2. request = [Request(selected.who) EXCEPT !.list = effects,
                                                  !.version = selected.version,
                                                  !.edits = chosen, !.carried = c]
      BY <2>1
    <2>3. /\ request.list = effects /\ request.version = selected.version
          /\ request.edits = chosen /\ request.carried = c
      BY <1>2, <2>2
    <2>4. request.who = Request(selected.who).who
      BY <1>2, <2>2
    <2>5. Request(selected.who).who = selected.who
      BY DEF Request, NotSent
    <2> QED
      BY <2>1, <2>3, <2>4, <2>5
  <1> HIDE DEF request
  <1>5. doing' = [t \in Tasks |-> doing'[t]] /\ doing'["save"] = request
    BY <1>3 DEF SaveInv, Tasks
  <1>6. ServerTyped' /\ RowsAge
    BY <1>1, RowsRest
  <1>7. LoadingInv' /\ EditorInv'
    BY <1>1, <1>6, LoadingKept, EditorKept
  <1>8. /\ selected.who \in Colleagues /\ effects \in Choices
        /\ carried \/ SpeaksFor(selected.who, selected.version, effects, chosen)
    BY <1>1 DEF EditorInv, SpeaksFor
  <1>9. doing'["save"].carried
           \/ SpeaksFor(doing["save"].who, doing["save"].version,
                        doing["save"].list, doing["save"].edits)'
    <2>1. CASE carried
      BY <1>4, <1>5, <2>1
    <2>2. CASE SpeaksFor(selected.who, selected.version, effects, chosen)
      BY <1>1, <1>4, <1>5, <2>2 DEF SpeaksFor
    <2> QED
      BY <1>8, <2>1, <2>2
  <1>10. SaveInv'
    BY <1>4, <1>5, <1>8, <1>9 DEF SaveInv
  <1> QED
    BY <1>6, <1>7, <1>10

\* The other writes of the page take nothing from the editor.
LEMMA OtherTaskStep ==
    ASSUME ConsoleInv,
           ChangeMemberRole \/ (\E m \in Colleagues : RemoveColleague(m) \/ InviteMember(m))
    PROVE  ConsoleInv'
  <1> USE DEF ConsoleInv
  <1>1. /\ UNCHANGED <<onServer, loading, selected, effects, chosen, carried>>
        /\ \E task \in Tasks \ {"save"} :
              \E request : doing' = [doing EXCEPT ![task] = request]
    BY DEF ChangeMemberRole, RemoveColleague, InviteMember, Send, Tasks
  <1>2. doing' = [t \in Tasks |-> doing'[t]] /\ doing'["save"] = doing["save"]
    BY <1>1 DEF SaveInv, Tasks
  <1>3. ServerTyped' /\ RowsAge
    BY <1>1, RowsRest
  <1> QED
    BY <1>1, <1>2, <1>3, LoadingKept, EditorKept, SaveKept

\* What a reply leaves of a save is not awaited any more.
LEMMA Replied ==
    ASSUME SaveInv, NEW task \in Tasks, NEW reply \in {"ok", "error"}, Reply(task, reply)
    PROVE  /\ doing' = [t \in Tasks |-> doing'[t]]
           /\ IF task = "save" THEN doing'["save"].reply # "awaited"
              ELSE doing'["save"] = doing["save"]
  <1>1. doing' = [t \in Tasks |-> doing'[t]]
    BY DEF Reply, SaveInv
  <1>2. CASE task # "save"
    BY <1>1, <1>2 DEF Reply, SaveInv, Tasks
  <1>3. CASE task = "save"
    <2>1. doing'["save"] = [doing["save"] EXCEPT !.reply = reply]
      BY <1>3 DEF Reply, SaveInv
    <2> QED
      BY <1>1, <1>3, <2>1
  <1> QED
    BY <1>2, <1>3

\* The rows and the replies change, and the save on its way is answered or left alone.
LEMMA AnswerKeeps ==
    ASSUME ConsoleInv, ServerTyped', RowsAge,
           UNCHANGED <<loading, selected, effects, chosen, carried>>,
           doing' = [t \in Tasks |-> doing'[t]],
           doing'["save"] = doing["save"] \/ doing'["save"].reply # "awaited"
    PROVE  ConsoleInv'
  <1> USE DEF ConsoleInv
  <1>1. LoadingInv' /\ EditorInv'
    BY LoadingKept, EditorKept
  <1>2. CASE doing'["save"] = doing["save"]
    BY <1>1, <1>2, SaveKept
  <1>3. CASE doing'["save"].reply # "awaited"
    BY <1>1, <1>3 DEF SaveInv
  <1> QED
    BY <1>2, <1>3

LEMMA SaveArrivesStep ==
    ASSUME ConsoleInv, SaveArrives
    PROVE  ConsoleInv'
  <1> USE DEF ConsoleInv
  <1>1. /\ doing["save"].reply = "awaited"
        /\ UNCHANGED <<loading, selected, effects, chosen, carried>>
    BY DEF SaveArrives
  <1>2. doing["save"].who \in Colleagues /\ doing["save"].list \in Choices
    BY <1>1 DEF SaveInv
  <1>3. CASE Write(doing["save"].who, TRUE, doing["save"].list) /\ Reply("save", "ok")
    <2>1. ServerTyped' /\ RowsAge
      BY <1>2, <1>3, WriteAges
    <2>2. doing' = [t \in Tasks |-> doing'[t]] /\ doing'["save"].reply # "awaited"
      BY <1>3, Replied DEF Tasks
    <2> QED
      BY <1>1, <2>1, <2>2, AnswerKeeps
  <1>4. CASE Reply("save", "error") /\ UNCHANGED onServer
    <2>1. ServerTyped' /\ RowsAge
      BY <1>4, RowsRest
    <2>2. doing' = [t \in Tasks |-> doing'[t]] /\ doing'["save"].reply # "awaited"
      BY <1>4, Replied DEF Tasks
    <2> QED
      BY <1>1, <2>1, <2>2, AnswerKeeps
  <1> QED
    BY <1>3, <1>4 DEF SaveArrives

\* A removal or an invitation of a member the task names.
LEMMA OtherArrivesStep ==
    ASSUME ConsoleInv, NEW task \in Tasks, OtherArrives(task),
           doing[task].who \in Colleagues
    PROVE  ConsoleInv'
  <1> USE DEF ConsoleInv
  <1>1. /\ task # "save" /\ Reply(task, "ok")
        /\ UNCHANGED <<loading, selected, effects, chosen, carried>>
    BY DEF OtherArrives
  <1>2. doing' = [t \in Tasks |-> doing'[t]] /\ doing'["save"] = doing["save"]
    BY <1>1, Replied
  <1>3. \/ Write(doing[task].who, FALSE, AsTheRole)
        \/ Write(doing[task].who, TRUE, AsTheRole)
    BY DEF OtherArrives
  <1>4. ServerTyped' /\ RowsAge
    <2>1. CASE Write(doing[task].who, FALSE, AsTheRole)
      BY <2>1, NothingChosen, WriteAges
    <2>2. CASE Write(doing[task].who, TRUE, AsTheRole)
      BY <2>2, NothingChosen, WriteAges
    <2> QED
      BY <1>3, <2>1, <2>2
  <1> QED
    BY <1>1, <1>2, <1>4, AnswerKeeps

LEMMA RequestFailsStep ==
    ASSUME ConsoleInv, NEW task \in Tasks, RequestFails(task)
    PROVE  ConsoleInv'
  <1> USE DEF ConsoleInv
  <1>1. /\ Reply(task, "error")
        /\ UNCHANGED <<onServer, loading, selected, effects, chosen, carried>>
    BY DEF RequestFails
  <1>2. /\ doing' = [t \in Tasks |-> doing'[t]]
        /\ doing'["save"] = doing["save"] \/ doing'["save"].reply # "awaited"
    BY <1>1, Replied
  <1>3. ServerTyped' /\ RowsAge
    BY <1>1, RowsRest
  <1> QED
    BY <1>1, <1>2, <1>3, AnswerKeeps

LEMMA NotSentIsNotAwaited == NotSent.reply # "awaited"
  BY DEF NotSent

LEMMA FinishStep ==
    ASSUME ConsoleInv, NEW task \in Tasks, Finish(task)
    PROVE  ConsoleInv'
  <1> USE DEF ConsoleInv
  <1>1. UNCHANGED <<onServer, loading>> /\ doing' = [doing EXCEPT ![task] = NotSent]
    BY DEF Finish
  <1>2. ServerTyped' /\ RowsAge
    BY <1>1, RowsRest
  <1>3. /\ doing' = [t \in Tasks |-> doing'[t]]
        /\ doing'["save"] = doing["save"] \/ doing'["save"] = NotSent
    BY <1>1 DEF SaveInv, Tasks
  <1>4. SaveInv'
    <2>1. CASE doing'["save"] = doing["save"]
      BY <1>2, <1>3, <2>1, SaveKept
    <2>2. CASE doing'["save"] = NotSent
      BY <1>3, <2>2, NotSentIsNotAwaited DEF SaveInv
    <2> QED
      BY <1>3, <2>1, <2>2
  <1>5. EditorInv'
    <2>1. CASE selected' = NoDetail /\ effects' = AsTheRole
      BY <2>1, NothingChosen DEF EditorInv
    <2>2. CASE UNCHANGED <<selected, effects, chosen, carried>>
      BY <1>2, <2>2, EditorKept
    <2> QED
      BY <2>1, <2>2 DEF Finish
  <1> QED
    BY <1>1, <1>2, <1>4, <1>5, LoadingKept

LEMMA RedirectStep ==
    ASSUME ConsoleInv, RedirectToLogin
    PROVE  ConsoleInv'
  <1> USE DEF ConsoleInv
  <1>1. /\ loading' = [m \in Colleagues |-> Free]
        /\ selected' = NoDetail /\ effects' = AsTheRole
        /\ doing' = [t \in Tasks |-> NotSent]
        /\ UNCHANGED onServer
    BY DEF RedirectToLogin
  <1>2. ServerTyped'
    BY <1>1, RowsRest
  <1>3. LoadingInv'
    <2>1. Free.what # "detail"
      BY DEF Free
    <2> QED
      BY <1>1, <2>1 DEF LoadingInv
  <1>4. EditorInv'
    BY <1>1, NothingChosen DEF EditorInv
  <1>5. SaveInv'
    BY <1>1, NotSentIsNotAwaited DEF SaveInv, Tasks
  <1> QED
    BY <1>2, <1>3, <1>4, <1>5

LEMMA SomebodyElseStep ==
    ASSUME ConsoleInv, NEW m \in Colleagues, NEW list \in Choices, SomebodyElseSaves(m, list)
    PROVE  ConsoleInv'
  <1> USE DEF ConsoleInv
  <1>1. /\ Write(m, TRUE, list)
        /\ UNCHANGED <<loading, selected, effects, doing, chosen, carried>>
    BY DEF SomebodyElseSaves
  <1>2. ServerTyped' /\ RowsAge
    BY <1>1, WriteAges
  <1> QED
    BY <1>1, <1>2, AnswerKeeps DEF SaveInv

\* A removal or an invitation on its way is about a member of the list.
TaskInv ==
    \A t \in Tasks \ {"save"} : doing[t].reply = "awaited" => doing[t].who \in Colleagues

LEMMA RequestNames ==
    ASSUME NEW m
    PROVE  Request(m).who = m
  BY DEF Request, NotSent

\* Every step that writes `doing' writes one task.
LEMMA TasksStep ==
    ASSUME SaveInv, TaskInv, ConsoleNext
    PROVE  TaskInv'
  <1>1. ASSUME NEW task \in Tasks, NEW request, doing' = [doing EXCEPT ![task] = request],
               task = "save" \/ request.reply # "awaited" \/ request.who \in Colleagues
        PROVE  TaskInv'
    <2>1. \A t \in Tasks : doing'[t] = IF t = task THEN request ELSE doing[t]
      BY <1>1 DEF SaveInv
    <2> QED
      BY <1>1, <2>1 DEF TaskInv
  <1>2. ASSUME NEW task \in Tasks, NEW reply, Reply(task, reply) PROVE TaskInv'
    <2>1. CASE task = "save"
      BY <1>1, <1>2, <2>1 DEF Reply
    <2>2. CASE task # "save"
      <3>1. doing' = [doing EXCEPT ![task] = [NotSent EXCEPT !.reply = "ok"]]
        BY <1>2, <2>2 DEF Reply
      <3>2. [NotSent EXCEPT !.reply = "ok"].reply # "awaited"
        BY DEF NotSent
      <3> QED
        BY <1>1, <3>1, <3>2
    <2> QED
      BY <2>1, <2>2
  <1>3. CASE UNCHANGED doing
    BY <1>3 DEF TaskInv
  <1>4. CASE Save
    BY <1>1, <1>4 DEF Save, Send, Tasks
  <1>5. CASE ChangeMemberRole
    <2>1. [NotSent EXCEPT !.reply = "ok"].reply # "awaited"
      BY DEF NotSent
    <2>2. doing' = [doing EXCEPT !["role"] = [NotSent EXCEPT !.reply = "ok"]]
      BY <1>5 DEF ChangeMemberRole, Send
    <2> QED
      BY <1>1, <2>1, <2>2 DEF Tasks
  <1>6. ASSUME NEW m \in Colleagues, RemoveColleague(m) \/ InviteMember(m) PROVE TaskInv'
    <2>1. Request(m).who \in Colleagues
      BY RequestNames
    <2>2. \E task \in Tasks : doing' = [doing EXCEPT ![task] = Request(m)]
      BY <1>6 DEF RemoveColleague, InviteMember, Send, Tasks
    <2> QED
      BY <1>1, <2>1, <2>2
  <1>7. CASE SaveArrives \/ (\E task \in Tasks : OtherArrives(task) \/ RequestFails(task))
    BY <1>2, <1>7 DEF SaveArrives, OtherArrives, RequestFails, Tasks
  <1>8. ASSUME NEW task \in Tasks, Finish(task) PROVE TaskInv'
    BY <1>1, <1>8, NotSentIsNotAwaited DEF Finish
  <1>9. CASE RedirectToLogin
    BY <1>9, NotSentIsNotAwaited DEF RedirectToLogin, TaskInv
  <1> QED
    BY <1>3, <1>4, <1>5, <1>6, <1>7, <1>8, <1>9
       DEF ConsoleNext, Open, ShowDetail, ShowDetailError, SomebodyElseSaves, Choose, CloseEditor

\* What every step of the members page keeps, whatever the other administrator writes: each
\* list on its way to the page, in the editor or on its way back is as old as the version it
\* names, and speaks for the row while the row still has that version.
THEOREM ConsoleInvariance == ConsoleSpec => [](ConsoleInv /\ TaskInv)
  <1>1. ConsoleInit => ConsoleInv /\ TaskInv
    <2> SUFFICES ASSUME ConsoleInit PROVE ConsoleInv /\ TaskInv
      OBVIOUS
    <2>1. ServerTyped
      BY ConsoleAssumption DEF ConsoleInit, ServerTyped, Row
    <2>2. LoadingInv
      <3>1. Free.what # "detail"
        BY DEF Free
      <3> QED
        BY <3>1 DEF ConsoleInit, LoadingInv
    <2>3. EditorInv
      BY NothingChosen DEF ConsoleInit, EditorInv
    <2>4. SaveInv /\ TaskInv
      BY NotSentIsNotAwaited DEF ConsoleInit, SaveInv, TaskInv, Tasks
    <2> QED
      BY <2>1, <2>2, <2>3, <2>4 DEF ConsoleInv
  <1>2. ConsoleInv /\ TaskInv /\ [ConsoleNext]_consoleVars => (ConsoleInv /\ TaskInv)'
    <2> SUFFICES ASSUME ConsoleInv, TaskInv, [ConsoleNext]_consoleVars
                 PROVE  ConsoleInv' /\ TaskInv'
      OBVIOUS
    <2>1. CASE ConsoleNext
      <3>1. ASSUME NEW m \in Colleagues,
                   Open(m) \/ ShowDetail(m) \/ ShowDetailError(m)
                           \/ (\E list \in Choices : SomebodyElseSaves(m, list))
            PROVE  ConsoleInv'
        BY <3>1, OpenStep, ShowDetailStep, SomebodyElseStep
      <3>2. ASSUME NEW a \in Abilities, NEW e \in Effects, Choose(a, e) PROVE ConsoleInv'
        BY <3>2, ChooseStep
      <3>3. ASSUME ChangeMemberRole \/ (\E m \in Colleagues : RemoveColleague(m) \/ InviteMember(m))
            PROVE  ConsoleInv'
        BY <3>3, OtherTaskStep
      <3>4. ASSUME CloseEditor \/ Save \/ SaveArrives \/ RedirectToLogin PROVE ConsoleInv'
        BY <3>4, CloseEditorStep, SaveStep, SaveArrivesStep, RedirectStep
      <3>5. ASSUME NEW task \in Tasks, OtherArrives(task) PROVE ConsoleInv'
        <4>1. doing[task].who \in Colleagues
          BY <3>5 DEF OtherArrives, TaskInv
        <4> QED
          BY <3>5, <4>1, OtherArrivesStep
      <3>6. ASSUME NEW task \in Tasks, RequestFails(task) \/ Finish(task) PROVE ConsoleInv'
        BY <3>6, RequestFailsStep, FinishStep
      <3>7. ConsoleInv'
        BY <2>1, <3>1, <3>2, <3>3, <3>4, <3>5, <3>6 DEF ConsoleNext
      <3> QED
        BY <2>1, <3>7, TasksStep DEF ConsoleInv
    <2>2. CASE UNCHANGED consoleVars
      <3>1. UNCHANGED <<onServer, loading, selected, effects, doing, chosen, carried>>
        BY <2>2 DEF consoleVars
      <3>2. ServerTyped' /\ RowsAge
        BY <3>1, RowsRest DEF ConsoleInv
      <3>3. ConsoleInv'
        BY <3>1, <3>2, AnswerKeeps DEF ConsoleInv, SaveInv
      <3> QED
        BY <3>1, <3>3 DEF TaskInv
    <2> QED
      BY <2>1, <2>2
  <1> QED
    BY <1>1, <1>2, PTL DEF ConsoleSpec

\* A save in the members page touches what the administrator chose and nothing else, for any
\* members, permissions and number of writes: when the row has not changed since it was read
\* and the editor shows the reading it was mounted with, every ability not changed by hand
\* keeps its effect (members-page.tsx, permission-editor.tsx).
THEOREM SavesTouchOnlyEdits == ConsoleSpec => SaveTouchesOnlyEdits
  <1>1. ASSUME ConsoleInv, [ConsoleNext]_consoleVars, NEW m \in Colleagues,
               doing["save"].reply = "awaited", doing'["save"].reply = "ok",
               doing["save"].who = m, doing["save"].version = onServer[m].version,
               ~doing["save"].carried, NEW a \in Abilities \ doing["save"].edits
        PROVE  onServer'[m].overrides[a] = onServer[m].overrides[a]
    <2>1. CASE UNCHANGED onServer
      BY <2>1
    <2>2. SpeaksFor(m, onServer[m].version, doing["save"].list, doing["save"].edits)
      BY <1>1 DEF ConsoleInv, SaveInv
    <2>3. doing["save"].list[a] = onServer[m].overrides[a]
      BY <2>2 DEF SpeaksFor
    <2>4. CASE SaveArrives
      <3>1. CASE Write(m, TRUE, doing["save"].list)
        <4>1. onServer' = [onServer EXCEPT ![m] =
                 [present |-> TRUE, overrides |-> doing["save"].list, version |-> @.version + 1]]
          BY <3>1 DEF Write
        <4>2. onServer'[m].overrides = doing["save"].list
          BY <1>1, <4>1 DEF ConsoleInv, ServerTyped
        <4> QED
          BY <2>3, <4>2
      <3> QED
        BY <1>1, <2>1, <2>4, <3>1 DEF SaveArrives
    <2>5. CASE \E n \in Colleagues, list \in Choices : SomebodyElseSaves(n, list)
      <3>1. doing' = doing
        BY <2>5 DEF SomebodyElseSaves
      <3> QED
        BY <1>1, <3>1
    <2>6. CASE \E task \in Tasks : OtherArrives(task)
      <3>1. PICK task \in Tasks : OtherArrives(task)
        BY <2>6
      <3>2. task # "save" /\ Reply(task, "ok")
        BY <3>1 DEF OtherArrives
      <3>3. SaveInv
        BY <1>1 DEF ConsoleInv
      <3>4. doing'["save"] = doing["save"]
        BY <3>2, <3>3, Replied
      <3> QED
        BY <1>1, <3>4
    <2>7. CASE \E task \in Tasks : RequestFails(task) \/ Finish(task)
      BY <2>1, <2>7 DEF RequestFails, Finish
    <2>8. CASE \/ \E n \in Colleagues : \/ Open(n) \/ ShowDetail(n) \/ ShowDetailError(n)
                                        \/ RemoveColleague(n) \/ InviteMember(n)
               \/ \E b \in Abilities, e \in Effects : Choose(b, e)
               \/ CloseEditor \/ ChangeMemberRole \/ Save \/ RedirectToLogin
      BY <2>1, <2>8 DEF Open, ShowDetail, ShowDetailError, RemoveColleague, InviteMember,
                        Choose, CloseEditor, ChangeMemberRole, Save, RedirectToLogin
    <2>9. CASE UNCHANGED consoleVars
      BY <2>1, <2>9 DEF consoleVars
    <2> QED
      BY <1>1, <2>4, <2>5, <2>6, <2>7, <2>8, <2>9 DEF ConsoleNext
  <1>2. ConsoleInv /\ [ConsoleNext]_consoleVars =>
           [\A m \in Colleagues :
               LET sent == doing["save"]
               IN  (/\ sent.reply = "awaited" /\ doing'["save"].reply = "ok" /\ sent.who = m
                    /\ sent.version = onServer[m].version /\ ~sent.carried) =>
                       \A a \in Abilities \ sent.edits :
                           onServer'[m].overrides[a] = onServer[m].overrides[a]]_consoleVars
    BY <1>1
  <1> QED
    BY <1>2, ConsoleInvariance, PTL DEF ConsoleSpec, SaveTouchesOnlyEdits

-----------------------------------------------------------------------------
(* The repositories: both classes hold the same, call by call.              *)

USE RepoAssumption

Ports == {"users", "assignments", "sessions", "members"}

\* What a store of the port holds.
RepoTyped(s) ==
    CASE port = "users" ->
           /\ s = [users |-> s.users, enrolled |-> s.enrolled]
           /\ s.users \in [People -> UserRows \union {NoRow}]
           /\ s.enrolled \in [People -> 0 .. 2]
      [] port = "assignments" ->
           /\ s = [assigned |-> s.assigned]
           /\ s.assigned \in [Places -> [People -> {"none", "active", "disabled"}]]
      [] port = "sessions" ->
           /\ s = [session |-> s.session, clients |-> s.clients]
           /\ s.session # NoRow =>
                 /\ {"env", "createdAt", "lastSeenAt", "revokedAt", "revokeReason"}
                       \subseteq DOMAIN s.session
                 /\ s.session.createdAt \in Int /\ s.session.lastSeenAt \in Int
           /\ s.clients = [place \in Places |-> s.clients[place]]
           /\ \A place \in Places : s.clients[place] # NoRow =>
                 "lastSeenAt" \in DOMAIN s.clients[place]
      [] port = "members" ->
           /\ s = [members |-> s.members, overrides |-> s.overrides]
           /\ s.members = [i \in People |-> s.members[i]]
           /\ s.overrides \in [People -> [Grants -> {"none", "allow", "deny"}]]

RepoInv ==
    /\ port \in Ports /\ moment \in Nat /\ catalog.users \subseteq People
    /\ RepoTyped(database) /\ SchemaHolds(database)
    /\ lenient \/ (standIn = database /\ replies.memory = replies.postgres)

\* A call both classes answer alike unless the in-memory one was lenient.
LEMMA CallAgrees ==
    ASSUME RepoInv, ~lenient, NEW of, NEW memory, NEW postgres, NEW mr, NEW pr, NEW ow,
           Ask(of, memory, postgres, mr, pr, ow),
           postgres # Refused => RepoTyped(postgres) /\ SchemaHolds(postgres),
           memory = Refused => postgres = Refused,
           ~ow /\ memory # Refused /\ SchemaHolds(memory) => postgres = memory /\ pr = mr
    PROVE  RepoInv'
<1>1. UNCHANGED <<port, catalog, moment>>
  BY DEF Ask
<1>2. database' = IF postgres = Refused THEN database ELSE postgres
  BY DEF Ask
<1>3. standIn' = IF memory = Refused THEN standIn ELSE memory
  BY DEF Ask
<1>4. /\ replies'.memory = IF memory = Refused THEN "error" ELSE mr
      /\ replies'.postgres = IF postgres = Refused THEN "error" ELSE pr
  BY DEF Ask
<1>5. ~lenient' => ~ow /\ (memory = Refused \/ SchemaHolds(memory))
  BY Zenon DEF Ask
<1>6. RepoTyped(database') /\ SchemaHolds(database')
  BY <1>2 DEF RepoInv
<1>7. RepoTyped(database)' /\ SchemaHolds(database)'
  BY <1>1, <1>6 DEF RepoTyped, SchemaHolds, UsersUnique, MfaOfUsers, AssignedUnderContract,
                    ClientsOfSessions, OverridesOfMembers
<1>8. lenient' \/ (standIn' = database' /\ replies'.memory = replies'.postgres)
  BY <1>2, <1>3, <1>4, <1>5 DEF RepoInv
<1> QED BY <1>1, <1>7, <1>8 DEF RepoInv

LEMMA RowsAreRows ==
    /\ \A row \in UserRows : row # NoRow
    /\ \A row \in MemberRows : row # NoRow
    /\ \A row : {"env"} \subseteq DOMAIN row => row # NoRow
    /\ \A row : {"lastSeenAt"} \subseteq DOMAIN row => row # NoRow
    /\ \A row : {"role"} \subseteq DOMAIN row => row # NoRow
<1>1. DOMAIN NoRow = {"row"}
  BY DEF NoRow
<1>2. \A row \in UserRows : "sub" \in DOMAIN row
  BY DEF UserRows
<1>3. \A row \in MemberRows : "role" \in DOMAIN row
  BY DEF MemberRows
<1> QED BY <1>1, <1>2, <1>3

\* users.
LEMMA UsersStore ==
    ASSUME RepoInv, port = "users"
    PROVE  /\ database = [users |-> database.users, enrolled |-> database.enrolled]
           /\ database.users \in [People -> UserRows \union {NoRow}]
           /\ database.enrolled \in [People -> 0 .. 2]
           /\ UsersUnique(database) /\ MfaOfUsers(database)
           /\ \A s : SchemaHolds(s) <=> UsersUnique(s) /\ MfaOfUsers(s)
           /\ \A s : RepoTyped(s) <=> /\ s = [users |-> s.users, enrolled |-> s.enrolled]
                                      /\ s.users \in [People -> UserRows \union {NoRow}]
                                      /\ s.enrolled \in [People -> 0 .. 2]
  BY DEF RepoInv, RepoTyped, SchemaHolds

LEMMA CreateUserStep ==
    ASSUME RepoInv, ~lenient, NEW i \in People, NEW row \in UserRows, CreateUser(i, row)
    PROVE  RepoInv'
<1>1. port = "users" /\ standIn = database
  BY DEF CreateUser, RepoInv
<1>2. PICK m : m = MemoryCreateUser(i, row)
  OBVIOUS
<1>3. PICK p : p = PgCreateUser(i, row)
  OBVIOUS
<1>4. m = [database EXCEPT !.users[i] = row]
  BY <1>1, <1>2 DEF MemoryCreateUser
<1>5. /\ m = [users |-> m.users, enrolled |-> m.enrolled]
      /\ m.users = [database.users EXCEPT ![i] = row] /\ m.enrolled = database.enrolled
  BY <1>1, <1>4, UsersStore
<1>6. /\ m.users[i] = row /\ row # NoRow
      /\ \A j \in People : j # i => m.users[j] = database.users[j]
      /\ m.users \in [People -> UserRows \union {NoRow}]
  BY <1>1, <1>5, UsersStore, RowsAreRows
<1>7. p = Refused \/ p = m
  BY <1>3, <1>4 DEF PgCreateUser
<1>8. p # Refused => RepoTyped(p) /\ SchemaHolds(p)
  <2> SUFFICES ASSUME p # Refused PROVE RepoTyped(m) /\ SchemaHolds(m)
    BY <1>7
  <2>1. \A j \in People : database.users[j] # NoRow =>
           j # i /\ database.users[j].email # row.email
           /\ ~(row.sub # Null /\ database.users[j].sub = row.sub)
    BY <1>3 DEF PgCreateUser
  <2>2. UsersUnique(m)
    BY <1>1, <1>6, <2>1, UsersStore DEF UsersUnique
  <2>3. MfaOfUsers(m)
    BY <1>1, <1>5, <1>6, UsersStore DEF MfaOfUsers
  <2> QED BY <1>1, <1>5, <1>6, <2>2, <2>3, UsersStore
<1>9. standIn.users[i] = NoRow /\ SchemaHolds(m) => p = m
  <2> SUFFICES ASSUME standIn.users[i] = NoRow, SchemaHolds(m) PROVE p = m
    OBVIOUS
  <2>1. UsersUnique(m)
    BY <1>1, UsersStore
  <2>2. ASSUME NEW j \in People, database.users[j] # NoRow
        PROVE  /\ j # i /\ database.users[j].email # row.email
               /\ ~(row.sub # Null /\ database.users[j].sub = row.sub)
    BY <1>1, <1>6, <2>1, <2>2 DEF UsersUnique
  <2> QED BY <1>3, <1>4, <2>2 DEF PgCreateUser
<1>10. Ask("users", m, p, row, row, standIn.users[i] # NoRow)
  BY <1>2, <1>3 DEF CreateUser
<1> QED BY <1>7, <1>8, <1>9, <1>10, CallAgrees

LEMMA LinkCognitoSubStep ==
    ASSUME RepoInv, ~lenient, NEW i \in People, NEW login \in Subs, LinkCognitoSub(i, login)
    PROVE  RepoInv'
<1>1. port = "users" /\ standIn = database
  BY DEF LinkCognitoSub, RepoInv
<1>2. PICK m : m = MemoryLinkCognitoSub(i, login)
  OBVIOUS
<1>3. PICK p : p = PgLinkCognitoSub(i, login)
  OBVIOUS
<1>4. PICK ow : ow = (standIn.users[i] # NoRow /\ standIn.users[i].sub # Null)
  OBVIOUS
<1>5. Ask("users", m, p, login, login, ow)
  BY <1>2, <1>3, <1>4 DEF LinkCognitoSub
<1>6. CASE database.users[i] = NoRow
  <2>1. m = Refused /\ p = Refused
    BY <1>1, <1>2, <1>3, <1>6 DEF MemoryLinkCognitoSub, PgLinkCognitoSub
  <2> QED BY <1>5, <2>1, CallAgrees
<1>7. CASE database.users[i] # NoRow
  <2>1. m = [database EXCEPT !.users[i].sub = login]
    BY <1>1, <1>2, <1>7 DEF MemoryLinkCognitoSub
  <2>2. database.users[i] \in UserRows
    BY <1>1, <1>7, UsersStore
  <2>3. PICK row : row = [database.users[i] EXCEPT !.sub = login]
    OBVIOUS
  <2>4. row \in UserRows /\ row.sub = login /\ row.email = database.users[i].email
    BY <2>2, <2>3 DEF UserRows
  <2>5. m = [database EXCEPT !.users[i] = row]
    BY <1>1, <2>1, <2>3, UsersStore
  <2>6. /\ m = [users |-> m.users, enrolled |-> m.enrolled]
        /\ m.users = [database.users EXCEPT ![i] = row] /\ m.enrolled = database.enrolled
    BY <1>1, <2>5, UsersStore
  <2>7. /\ m.users[i] = row /\ row # NoRow
        /\ \A j \in People : j # i => m.users[j] = database.users[j]
        /\ m.users \in [People -> UserRows \union {NoRow}]
    BY <1>1, <2>4, <2>6, UsersStore, RowsAreRows
  <2>8. p = Refused \/ p = m
    BY <1>3, <2>1 DEF PgLinkCognitoSub
  <2>9. p # Refused => RepoTyped(p) /\ SchemaHolds(p)
    <3> SUFFICES ASSUME p # Refused PROVE RepoTyped(m) /\ SchemaHolds(m)
      BY <2>8
    <3>1. \A j \in People : database.users[j] # NoRow => database.users[j].sub # login
      BY <1>3 DEF PgLinkCognitoSub, FindUserByCognitoSub
    <3>2. UsersUnique(m)
      BY <1>1, <1>7, <2>4, <2>7, <3>1, UsersStore DEF UsersUnique
    <3>3. MfaOfUsers(m)
      BY <1>1, <2>6, <2>7, UsersStore DEF MfaOfUsers
    <3> QED BY <1>1, <2>6, <2>7, <3>2, <3>3, UsersStore
  <2>10. ~ow /\ SchemaHolds(m) => p = m
    <3> SUFFICES ASSUME ~ow, SchemaHolds(m) PROVE p = m
      OBVIOUS
    <3>1. UsersUnique(m)
      BY <1>1, UsersStore
    <3>2. database.users[i].sub = Null /\ login # Null
      BY <1>1, <1>4, <1>7 DEF Null
    <3>3. ASSUME NEW j \in People, database.users[j] # NoRow PROVE database.users[j].sub # login
      BY <2>4, <2>7, <3>1, <3>2, <3>3 DEF UsersUnique
    <3> QED BY <1>3, <1>7, <2>1, <3>2, <3>3 DEF PgLinkCognitoSub, FindUserByCognitoSub
  <2> QED BY <1>5, <2>8, <2>9, <2>10, CallAgrees
<1> QED BY <1>6, <1>7

LEMMA RecordMfaMethodStep ==
    ASSUME RepoInv, ~lenient, NEW i \in People, NEW place \in {1, 2}, RecordMfaMethod(i, place)
    PROVE  RepoInv'
<1>1. port = "users" /\ standIn = database
  BY DEF RecordMfaMethod, RepoInv
<1>2. PICK m : m = MemoryRecordMfaMethod(i, place)
  OBVIOUS
<1>3. PICK p : p = PgRecordMfaMethod(i, place)
  OBVIOUS
<1>4. Ask("users", m, p, Null, Null, FALSE)
  BY <1>2, <1>3 DEF RecordMfaMethod
<1>5. p = Refused \/ p = m
  BY <1>1, <1>2, <1>3 DEF MemoryRecordMfaMethod, PgRecordMfaMethod
<1>6. /\ m = [users |-> m.users, enrolled |-> m.enrolled]
      /\ m.users = database.users
      /\ m.enrolled \in [People -> 0 .. 2] /\ m.enrolled[i] # 0
      /\ \A j \in People : j # i => m.enrolled[j] = database.enrolled[j]
  <2>1. CASE database.enrolled[i] # 0
    BY <1>1, <1>2, <2>1, UsersStore DEF MemoryRecordMfaMethod
  <2>2. CASE database.enrolled[i] = 0
    <3>1. m = [database EXCEPT !.enrolled[i] = place]
      BY <1>1, <1>2, <2>2 DEF MemoryRecordMfaMethod
    <3>2. /\ m = [users |-> m.users, enrolled |-> m.enrolled]
          /\ m.users = database.users /\ m.enrolled = [database.enrolled EXCEPT ![i] = place]
      BY <1>1, <3>1, UsersStore
    <3> QED BY <1>1, <3>2, UsersStore
  <2> QED BY <2>1, <2>2
<1>7. p # Refused => RepoTyped(p) /\ SchemaHolds(p)
  <2> SUFFICES ASSUME p # Refused PROVE RepoTyped(m) /\ SchemaHolds(m)
    BY <1>5
  <2>1. database.users[i] # NoRow
    BY <1>3 DEF PgRecordMfaMethod
  <2>2. UsersUnique(m) /\ MfaOfUsers(m)
    BY <1>1, <1>6, <2>1, UsersStore DEF UsersUnique, MfaOfUsers
  <2> QED BY <1>1, <1>6, <2>2, UsersStore
<1>8. SchemaHolds(m) => p = m
  <2> SUFFICES ASSUME SchemaHolds(m) PROVE p = m
    OBVIOUS
  <2>1. database.users[i] # NoRow
    BY <1>1, <1>6, UsersStore DEF MfaOfUsers
  <2> QED BY <1>1, <1>2, <1>3, <2>1 DEF MemoryRecordMfaMethod, PgRecordMfaMethod
<1> QED BY <1>4, <1>5, <1>7, <1>8, CallAgrees

\* assignments.
LEMMA AssignmentsStore ==
    ASSUME RepoInv, port = "assignments"
    PROVE  /\ database = [assigned |-> database.assigned]
           /\ database.assigned \in [Places -> [People -> {"none", "active", "disabled"}]]
           /\ AssignedUnderContract(database)
           /\ \A s : SchemaHolds(s) <=> AssignedUnderContract(s)
           /\ \A s : RepoTyped(s) <=>
                 /\ s = [assigned |-> s.assigned]
                 /\ s.assigned \in [Places -> [People -> {"none", "active", "disabled"}]]
  BY DEF RepoInv, RepoTyped, SchemaHolds

LEMMA AssignmentWritten ==
    ASSUME RepoInv, port = "assignments", NEW place \in Places, NEW i \in People,
           NEW v \in {"none", "active", "disabled"},
           NEW m, m = [database EXCEPT !.assigned[place][i] = v]
    PROVE  /\ RepoTyped(m)
           /\ m.assigned[place][i] = v
           /\ \A b \in Places, j \in People :
                 b # place \/ j # i => m.assigned[b][j] = database.assigned[b][j]
<1>1. PICK row : row = [database.assigned[place] EXCEPT ![i] = v]
  OBVIOUS
<1>2. /\ row \in [People -> {"none", "active", "disabled"}] /\ row[i] = v
      /\ \A j \in People : j # i => row[j] = database.assigned[place][j]
  BY <1>1, AssignmentsStore
<1>3. m = [database EXCEPT !.assigned = [database.assigned EXCEPT ![place] = row]]
  BY <1>1, AssignmentsStore
<1>4. m = [assigned |-> m.assigned] /\ m.assigned = [database.assigned EXCEPT ![place] = row]
  BY <1>3, AssignmentsStore
<1> QED BY <1>2, <1>4, AssignmentsStore

LEMMA UpsertServiceMembershipStep ==
    ASSUME RepoInv, ~lenient, NEW place \in Places, NEW i \in People,
           UpsertServiceMembership(place, i)
    PROVE  RepoInv'
<1>1. port = "assignments" /\ standIn = database
  BY DEF UpsertServiceMembership, RepoInv
<1>2. PICK m : m = MemoryUpsertServiceMembership(place, i)
  OBVIOUS
<1>3. PICK p : p = PgUpsertServiceMembership(place, i)
  OBVIOUS
<1>4. Ask("assignments", m, p, Null, Null, FALSE)
  BY <1>2, <1>3 DEF UpsertServiceMembership
<1>5. m = [database EXCEPT !.assigned[place][i] = "active"]
  BY <1>1, <1>2 DEF MemoryUpsertServiceMembership
<1>6. /\ RepoTyped(m) /\ m.assigned[place][i] = "active"
      /\ \A b \in Places, j \in People :
            b # place \/ j # i => m.assigned[b][j] = database.assigned[b][j]
  BY <1>1, <1>5, AssignmentWritten
<1>7. p = Refused \/ p = m
  BY <1>3, <1>5 DEF PgUpsertServiceMembership
<1>8. p # Refused => RepoTyped(p) /\ SchemaHolds(p)
  <2> SUFFICES ASSUME p # Refused PROVE AssignedUnderContract(m)
    BY <1>1, <1>6, <1>7, AssignmentsStore
  <2>1. catalog.contract[place] # "none" /\ i \in catalog.users
    BY <1>3 DEF PgUpsertServiceMembership
  <2> QED BY <1>1, <1>6, <2>1, AssignmentsStore DEF AssignedUnderContract
<1>9. SchemaHolds(m) => p = m
  <2> SUFFICES ASSUME SchemaHolds(m) PROVE p = m
    OBVIOUS
  <2>1. catalog.contract[place] # "none" /\ i \in catalog.users
    BY <1>1, <1>6, AssignmentsStore DEF AssignedUnderContract
  <2> QED BY <1>3, <1>5, <2>1 DEF PgUpsertServiceMembership
<1> QED BY <1>4, <1>7, <1>8, <1>9, CallAgrees

LEMMA AssignmentEndsStep ==
    ASSUME RepoInv, ~lenient, NEW place \in Places, NEW i \in People,
           RemoveServiceMembership(place, i) \/ Disable(place, i)
    PROVE  RepoInv'
<1>1. port = "assignments" /\ standIn = database
  BY DEF RemoveServiceMembership, Disable, RepoInv
<1>2. PICK v \in {"none", "disabled"} :
         /\ v = "disabled" => database.assigned[place][i] = "active"
         /\ Ask("assignments", [standIn EXCEPT !.assigned[place][i] = v],
                [database EXCEPT !.assigned[place][i] = v], Null, Null, FALSE)
  BY DEF RemoveServiceMembership, Disable
<1>3. PICK m : m = [database EXCEPT !.assigned[place][i] = v]
  OBVIOUS
<1>4. /\ RepoTyped(m) /\ m.assigned[place][i] = v
      /\ \A b \in Places, j \in People :
            b # place \/ j # i => m.assigned[b][j] = database.assigned[b][j]
  BY <1>1, <1>3, AssignmentWritten
<1>5. Ask("assignments", m, m, Null, Null, FALSE)
  BY <1>1, <1>2, <1>3
<1>6. AssignedUnderContract(m)
  BY <1>1, <1>2, <1>4, AssignmentsStore DEF AssignedUnderContract
<1>7. SchemaHolds(m)
  BY <1>1, <1>6, AssignmentsStore
<1> QED BY <1>4, <1>5, <1>7, CallAgrees

\* sessions.
SessionRow(row) ==
    /\ {"env", "createdAt", "lastSeenAt", "revokedAt", "revokeReason"} \subseteq DOMAIN row
    /\ row.createdAt \in Int /\ row.lastSeenAt \in Int

LEMMA SessionsStore ==
    ASSUME RepoInv, port = "sessions"
    PROVE  /\ database = [session |-> database.session, clients |-> database.clients]
           /\ database.session # NoRow => SessionRow(database.session)
           /\ database.clients = [place \in Places |-> database.clients[place]]
           /\ \A place \in Places : database.clients[place] # NoRow =>
                 "lastSeenAt" \in DOMAIN database.clients[place]
           /\ ClientsOfSessions(database)
           /\ \A s : SchemaHolds(s) <=> ClientsOfSessions(s)
           /\ \A s : RepoTyped(s) <=>
                 /\ s = [session |-> s.session, clients |-> s.clients]
                 /\ s.session # NoRow => SessionRow(s.session)
                 /\ s.clients = [place \in Places |-> s.clients[place]]
                 /\ \A place \in Places : s.clients[place] # NoRow =>
                       "lastSeenAt" \in DOMAIN s.clients[place]
           /\ WholeSeconds \in Int
  BY DEF RepoInv, RepoTyped, SchemaHolds, SessionRow, WholeSeconds

\* A call that writes the session's row in both.
LEMMA SessionWritten ==
    ASSUME RepoInv, ~lenient, port = "sessions", NEW row, SessionRow(row),
           NEW m, m = [database EXCEPT !.session = row], NEW reply,
           Ask("sessions", m, m, reply, reply, FALSE)
    PROVE  RepoInv'
<1>1. m = [session |-> m.session, clients |-> m.clients]
      /\ m.session = row /\ m.clients = database.clients
  BY SessionsStore
<1>2. row # NoRow
  BY RowsAreRows DEF SessionRow
<1>3. RepoTyped(m) /\ SchemaHolds(m)
  BY <1>1, <1>2, SessionsStore DEF ClientsOfSessions
<1> QED BY <1>3, CallAgrees

LEMMA CallChangesNothing ==
    ASSUME RepoInv, ~lenient, NEW of, NEW reply,
           Ask(of, database, database, reply, reply, FALSE)
    PROVE  RepoInv'
  BY CallAgrees DEF RepoInv

LEMMA SessionStep ==
    ASSUME RepoInv, ~lenient, NEW environment, CreateSession(environment) \/ Touch(environment)
    PROVE  RepoInv'
<1>1. port = "sessions" /\ standIn = database
  BY DEF CreateSession, Touch, RepoInv
<1>2. CASE CreateSession(environment)
  <2>1. PICK row : row = NewSession(environment)
    OBVIOUS
  <2>2. SessionRow(row)
    BY <1>1, <2>1, SessionsStore DEF NewSession, SessionRow
  <2>3. PICK m : m = [database EXCEPT !.session = row]
    OBVIOUS
  <2>4. Ask("sessions", m, m, Null, Null, FALSE)
    BY <1>1, <1>2, <2>1, <2>3 DEF CreateSession
  <2> QED BY <1>1, <2>2, <2>3, <2>4, SessionWritten
<1>3. CASE Touch(environment) /\ database.session = NoRow
  <2>1. PICK reply : reply = EnvironmentBefore(database)
    OBVIOUS
  <2>2. Ask("sessions", database, database, reply, reply, FALSE)
    BY <1>1, <1>3, <2>1 DEF Touch, Touched
  <2> QED BY <2>2, CallChangesNothing
<1>4. CASE Touch(environment) /\ database.session # NoRow
  <2>1. PICK row : row = [database.session EXCEPT !.env = environment,
                                                  !.lastSeenAt = WholeSeconds]
    OBVIOUS
  <2>2. SessionRow(database.session)
    BY <1>1, <1>4, SessionsStore
  <2>3. SessionRow(row)
    BY <1>1, <2>1, <2>2, SessionsStore DEF SessionRow
  <2>4. PICK m : m = [database EXCEPT !.session = row]
    OBVIOUS
  <2>5. m = Touched(database, environment)
    BY <1>1, <1>4, <2>1, <2>2, <2>4, SessionsStore DEF Touched, SessionRow
  <2>6. PICK reply : reply = EnvironmentBefore(database)
    OBVIOUS
  <2>7. Ask("sessions", m, m, reply, reply, FALSE)
    BY <1>1, <1>4, <2>5, <2>6 DEF Touch
  <2> QED BY <1>1, <2>3, <2>4, <2>7, SessionWritten
<1> QED BY <1>2, <1>3, <1>4

LEMMA MarkRevokedStep ==
    ASSUME RepoInv, ~lenient, NEW reason, MarkRevoked(reason)
    PROVE  RepoInv'
<1>1. port = "sessions" /\ standIn = database
  BY DEF MarkRevoked, RepoInv
<1>2. CASE database.session = NoRow \/ database.session.revokedAt # Never
  <2>1. Ask("sessions", database, database, Null, Null, FALSE)
    BY <1>1, <1>2 DEF MarkRevoked, Revoked
  <2> QED BY <2>1, CallChangesNothing
<1>3. CASE ~(database.session = NoRow \/ database.session.revokedAt # Never)
  <2>1. PICK row : row = [database.session EXCEPT !.revokedAt = WholeSeconds,
                                                  !.revokeReason = reason]
    OBVIOUS
  <2>2. SessionRow(database.session)
    BY <1>1, <1>3, SessionsStore
  <2>3. SessionRow(row)
    BY <1>1, <2>1, <2>2 DEF SessionRow
  <2>4. PICK m : m = [database EXCEPT !.session = row]
    OBVIOUS
  <2>5. m = Revoked(database, reason)
    BY <1>1, <1>3, <2>1, <2>2, <2>4, SessionsStore DEF Revoked, SessionRow
  <2>6. Ask("sessions", m, m, Null, Null, FALSE)
    BY <1>1, <2>5 DEF MarkRevoked
  <2> QED BY <1>1, <2>3, <2>4, <2>6, SessionWritten
<1> QED BY <1>2, <1>3

LEMMA RecordClientStep ==
    ASSUME RepoInv, ~lenient, NEW place \in Places, RecordClient(place)
    PROVE  RepoInv'
<1>1. port = "sessions" /\ standIn = database
  BY DEF RecordClient, RepoInv
<1>2. PICK m : m = MemoryRecordClient(place)
  OBVIOUS
<1>3. PICK p : p = PgRecordClient(place)
  OBVIOUS
<1>4. Ask("sessions", m, p, Null, Null, FALSE)
  BY <1>2, <1>3 DEF RecordClient
<1>5. p = Refused \/ p = m
  BY <1>1, <1>2, <1>3 DEF MemoryRecordClient, PgRecordClient
<1>6. PICK row : /\ m = [database EXCEPT !.clients = [database.clients EXCEPT ![place] = row]]
                 /\ "lastSeenAt" \in DOMAIN row
  <2>1. CASE database.clients[place] = NoRow
    <3>1. m = [database EXCEPT !.clients[place] =
                 [firstSeenAt |-> WholeSeconds, lastSeenAt |-> WholeSeconds]]
      BY <1>1, <1>2, <2>1 DEF MemoryRecordClient
    <3>2. PICK new : new = [firstSeenAt |-> WholeSeconds, lastSeenAt |-> WholeSeconds]
      OBVIOUS
    <3>3. m = [database EXCEPT !.clients = [database.clients EXCEPT ![place] = new]]
      BY <1>1, <3>1, <3>2, SessionsStore
    <3>4. "lastSeenAt" \in DOMAIN new
      BY <3>2
    <3> QED BY <3>3, <3>4
  <2>2. CASE database.clients[place] # NoRow
    <3>1. m = [database EXCEPT !.clients[place].lastSeenAt = WholeSeconds]
      BY <1>1, <1>2, <2>2 DEF MemoryRecordClient
    <3>2. PICK new : new = [database.clients[place] EXCEPT !.lastSeenAt = WholeSeconds]
      OBVIOUS
    <3>3. m = [database EXCEPT !.clients = [database.clients EXCEPT ![place] = new]]
      BY <1>1, <3>1, <3>2, SessionsStore
    <3>4. "lastSeenAt" \in DOMAIN new
      BY <1>1, <2>2, <3>2, SessionsStore
    <3> QED BY <3>3, <3>4
  <2> QED BY <2>1, <2>2
<1>7. /\ m = [session |-> m.session, clients |-> m.clients]
      /\ m.session = database.session
      /\ m.clients = [database.clients EXCEPT ![place] = row] /\ row # NoRow
  BY <1>1, <1>6, SessionsStore, RowsAreRows
<1>8. /\ RepoTyped(m) /\ m.clients[place] # NoRow
      /\ \A b \in Places : b # place => m.clients[b] = database.clients[b]
  BY <1>1, <1>6, <1>7, SessionsStore
<1>9. p # Refused => RepoTyped(p) /\ SchemaHolds(p)
  <2> SUFFICES ASSUME p # Refused PROVE ClientsOfSessions(m)
    BY <1>1, <1>5, <1>8, SessionsStore
  <2>1. database.session # NoRow
    BY <1>3 DEF PgRecordClient
  <2> QED BY <1>1, <1>7, <1>8, <2>1, SessionsStore DEF ClientsOfSessions
<1>10. SchemaHolds(m) => p = m
  <2> SUFFICES ASSUME SchemaHolds(m) PROVE p = m
    OBVIOUS
  <2>1. database.session # NoRow
    BY <1>1, <1>7, <1>8, SessionsStore DEF ClientsOfSessions
  <2> QED BY <1>1, <1>2, <1>3, <2>1 DEF MemoryRecordClient, PgRecordClient
<1> QED BY <1>4, <1>5, <1>9, <1>10, CallAgrees

\* members.
LEMMA MembersStore ==
    ASSUME RepoInv, port = "members"
    PROVE  /\ database = [members |-> database.members, overrides |-> database.overrides]
           /\ database.members = [i \in People |-> database.members[i]]
           /\ database.overrides \in [People -> [Grants -> {"none", "allow", "deny"}]]
           /\ OverridesOfMembers(database)
           /\ \A s : SchemaHolds(s) <=> OverridesOfMembers(s)
           /\ \A s : RepoTyped(s) <=>
                 /\ s = [members |-> s.members, overrides |-> s.overrides]
                 /\ s.members = [i \in People |-> s.members[i]]
                 /\ s.overrides \in [People -> [Grants -> {"none", "allow", "deny"}]]
  BY DEF RepoInv, RepoTyped, SchemaHolds

\* A member's row and overrides are replaced, overrides only under a row.
LEMMA MemberWritten ==
    ASSUME RepoInv, ~lenient, port = "members", NEW i \in People,
           NEW row, NEW list \in [Grants -> {"none", "allow", "deny"}],
           row # NoRow \/ \A g \in Grants : list[g] = "none",
           NEW m, m = [database EXCEPT !.members = [database.members EXCEPT ![i] = row],
                                       !.overrides = [database.overrides EXCEPT ![i] = list]]
    PROVE  RepoTyped(m) /\ SchemaHolds(m)
<1>1. /\ m = [members |-> m.members, overrides |-> m.overrides]
      /\ m.members = [database.members EXCEPT ![i] = row]
      /\ m.overrides = [database.overrides EXCEPT ![i] = list]
  BY MembersStore
<1>2. /\ m.members[i] = row /\ m.overrides[i] = list
      /\ \A j \in People : j # i => /\ m.members[j] = database.members[j]
                                    /\ m.overrides[j] = database.overrides[j]
  BY <1>1, MembersStore
<1>3. RepoTyped(m)
  BY <1>1, MembersStore
<1>4. OverridesOfMembers(m)
  BY <1>2, MembersStore DEF OverridesOfMembers
<1> QED BY <1>3, <1>4, MembersStore

LEMMA NothingOverridden ==
    /\ NoOverrides \in [Grants -> {"none", "allow", "deny"}]
    /\ \A g \in Grants : NoOverrides[g] = "none"
    /\ \A list \in [Grants -> {"none", "allow", "deny"}] :
          (\A g \in Grants : list[g] = "none") => list = NoOverrides
  BY DEF NoOverrides

LEMMA UpsertMemberStep ==
    ASSUME RepoInv, ~lenient, NEW i \in People, NEW row \in MemberRows, Upsert(i, row)
    PROVE  RepoInv'
<1>1. port = "members" /\ standIn = database
  BY DEF Upsert, RepoInv
<1>2. PICK merged : merged = Merged(database, i, row)
  OBVIOUS
<1>3. "role" \in DOMAIN merged
  BY <1>2 DEF Merged, MemberRows
<1>4. merged # NoRow
  BY <1>3, RowsAreRows
<1>5. PICK m : m = [database EXCEPT !.members[i] = merged]
  OBVIOUS
<1>6. PICK list : list = database.overrides[i]
  OBVIOUS
<1>7. list \in [Grants -> {"none", "allow", "deny"}]
  BY <1>1, <1>6, MembersStore
<1>8. m = [database EXCEPT !.members = [database.members EXCEPT ![i] = merged],
                           !.overrides = [database.overrides EXCEPT ![i] = list]]
  <2>1. database.overrides = [database.overrides EXCEPT ![i] = list]
    BY <1>1, <1>6, MembersStore
  <2> QED BY <1>1, <1>5, <2>1, MembersStore
<1>9. RepoTyped(m) /\ SchemaHolds(m)
  BY <1>1, <1>4, <1>7, <1>8, MemberWritten
<1>10. Ask("members", m, m, merged, merged, FALSE)
  BY <1>1, <1>2, <1>5 DEF Upsert
<1> QED BY <1>9, <1>10, CallAgrees

LEMMA RemoveMemberStep ==
    ASSUME RepoInv, ~lenient, NEW i \in People, RemoveMember(i)
    PROVE  RepoInv'
<1>1. port = "members" /\ standIn = database
  BY DEF RemoveMember, RepoInv
<1>2. PICK m : m = [database EXCEPT !.members[i] = NoRow, !.overrides[i] = NoOverrides]
  OBVIOUS
<1>3. m = [database EXCEPT !.members = [database.members EXCEPT ![i] = NoRow],
                           !.overrides = [database.overrides EXCEPT ![i] = NoOverrides]]
  BY <1>1, <1>2, MembersStore
<1>4. RepoTyped(m) /\ SchemaHolds(m)
  BY <1>1, <1>3, MemberWritten, NothingOverridden
<1>5. Ask("members", m, m, Null, Null, FALSE)
  BY <1>1, <1>2 DEF RemoveMember
<1> QED BY <1>4, <1>5, CallAgrees

LEMMA ReplaceOverridesStep ==
    ASSUME RepoInv, ~lenient, NEW i \in People,
           NEW list \in [Grants -> {"none", "allow", "deny"}], ReplaceOverrides(i, list)
    PROVE  RepoInv'
<1>1. port = "members" /\ standIn = database
  BY DEF ReplaceOverrides, RepoInv
<1>2. PICK m : m = MemoryReplaceOverrides(i, list)
  OBVIOUS
<1>3. PICK p : p = PgReplaceOverrides(i, list)
  OBVIOUS
<1>4. Ask("members", m, p, Null, Null, FALSE)
  BY <1>2, <1>3 DEF ReplaceOverrides
<1>5. m = [database EXCEPT !.overrides[i] = list]
  BY <1>1, <1>2 DEF MemoryReplaceOverrides
<1>6. p = Refused \/ p = m
  BY <1>3, <1>5 DEF PgReplaceOverrides
<1>7. PICK row : row = database.members[i]
  OBVIOUS
<1>8. m = [database EXCEPT !.members = [database.members EXCEPT ![i] = row],
                           !.overrides = [database.overrides EXCEPT ![i] = list]]
  <2>1. database.members = [database.members EXCEPT ![i] = row]
    BY <1>1, <1>7, MembersStore
  <2> QED BY <1>1, <1>5, <2>1, MembersStore
<1>9. p # Refused => RepoTyped(p) /\ SchemaHolds(p)
  <2> SUFFICES ASSUME p # Refused PROVE RepoTyped(m) /\ SchemaHolds(m)
    BY <1>6
  <2>1. list = NoOverrides \/ row # NoRow
    BY <1>3, <1>7 DEF PgReplaceOverrides
  <2>2. row # NoRow \/ \A g \in Grants : list[g] = "none"
    BY <2>1, NothingOverridden
  <2> QED BY <1>1, <1>8, <2>2, MemberWritten
<1>10. SchemaHolds(m) => p = m
  <2> SUFFICES ASSUME SchemaHolds(m) PROVE p = m
    OBVIOUS
  <2>1. m.overrides[i] = list /\ m.members[i] = row
    BY <1>1, <1>7, <1>8, MembersStore
  <2>2. row # NoRow \/ \A g \in Grants : list[g] = "none"
    BY <1>1, <2>1, MembersStore DEF OverridesOfMembers
  <2>3. row # NoRow \/ list = NoOverrides
    BY <2>2, NothingOverridden
  <2> QED BY <1>3, <1>5, <1>7, <2>3 DEF PgReplaceOverrides
<1> QED BY <1>4, <1>6, <1>9, <1>10, CallAgrees

LEMMA MomentPassesStep ==
    ASSUME RepoInv, MomentPasses
    PROVE  RepoInv'
<1>1. UNCHANGED <<port, catalog, standIn, database, replies, lenient>> /\ moment' \in Nat
  BY DEF MomentPasses, RepoInv
<1>2. RepoTyped(database)' /\ SchemaHolds(database)'
  BY <1>1 DEF RepoInv, RepoTyped, SchemaHolds, UsersUnique, MfaOfUsers, AssignedUnderContract,
              ClientsOfSessions, OverridesOfMembers
<1> QED BY <1>1, <1>2 DEF RepoInv

LEMMA RepoStarts == RepoInit => RepoInv
<1> SUFFICES ASSUME RepoInit PROVE RepoInv
  OBVIOUS
<1>1. /\ port \in Ports /\ moment = 0 /\ standIn = EmptyStore /\ database = EmptyStore
      /\ replies.memory = Null /\ replies.postgres = Null
      /\ catalog.users \subseteq People
  BY DEF RepoInit, Ports, Catalogs, PlainCatalog
<1>2. CASE port = "users"
  <2>1. RepoTyped(EmptyStore)
    BY <1>2 DEF RepoTyped, EmptyStore
  <2>2. SchemaHolds(EmptyStore)
    BY <1>2 DEF SchemaHolds, EmptyStore, UsersUnique, MfaOfUsers
  <2> QED BY <1>1, <2>1, <2>2 DEF RepoInv
<1>3. CASE port = "assignments"
  <2>1. RepoTyped(EmptyStore)
    BY <1>3 DEF RepoTyped, EmptyStore
  <2>2. SchemaHolds(EmptyStore)
    BY <1>3 DEF SchemaHolds, EmptyStore, AssignedUnderContract
  <2> QED BY <1>1, <2>1, <2>2 DEF RepoInv
<1>4. CASE port = "sessions"
  <2>1. RepoTyped(EmptyStore)
    BY <1>4 DEF RepoTyped, EmptyStore
  <2>2. SchemaHolds(EmptyStore)
    BY <1>4 DEF SchemaHolds, EmptyStore, ClientsOfSessions
  <2> QED BY <1>1, <2>1, <2>2 DEF RepoInv
<1>5. CASE port = "members"
  <2>1. RepoTyped(EmptyStore)
    BY <1>5 DEF RepoTyped, EmptyStore
  <2>2. SchemaHolds(EmptyStore)
    BY <1>5 DEF SchemaHolds, EmptyStore, OverridesOfMembers
  <2> QED BY <1>1, <2>1, <2>2 DEF RepoInv
<1> QED BY <1>1, <1>2, <1>3, <1>4, <1>5 DEF Ports

LEMMA RepoStep == RepoInv /\ [RepoNext]_repoVars => RepoInv'
<1> SUFFICES ASSUME RepoInv, [RepoNext]_repoVars PROVE RepoInv'
  OBVIOUS
<1>1. CASE RepoNext
  <2>1. ~lenient
    BY <1>1 DEF RepoNext
  <2>2. ASSUME NEW i \in People, NEW row \in UserRows, CreateUser(i, row) PROVE RepoInv'
    BY <2>1, <2>2, CreateUserStep
  <2>3. ASSUME NEW i \in People, NEW login \in Subs, LinkCognitoSub(i, login) PROVE RepoInv'
    BY <2>1, <2>3, LinkCognitoSubStep
  <2>4. ASSUME NEW i \in People, NEW place \in {1, 2}, RecordMfaMethod(i, place) PROVE RepoInv'
    BY <2>1, <2>4, RecordMfaMethodStep
  <2>5. ASSUME NEW place \in Places, NEW i \in People,
               \/ UpsertServiceMembership(place, i)
               \/ RemoveServiceMembership(place, i)
               \/ Disable(place, i)
        PROVE  RepoInv'
    BY <2>1, <2>5, UpsertServiceMembershipStep, AssignmentEndsStep
  <2>6. ASSUME NEW environment, CreateSession(environment) \/ Touch(environment) PROVE RepoInv'
    BY <2>1, <2>6, SessionStep
  <2>7. ASSUME NEW place \in Places, RecordClient(place) PROVE RepoInv'
    BY <2>1, <2>7, RecordClientStep
  <2>8. ASSUME NEW reason, MarkRevoked(reason) PROVE RepoInv'
    BY <2>1, <2>8, MarkRevokedStep
  <2>9. ASSUME NEW i \in People, NEW row \in MemberRows, Upsert(i, row) PROVE RepoInv'
    BY <2>1, <2>9, UpsertMemberStep
  <2>10. ASSUME NEW i \in People, RemoveMember(i) PROVE RepoInv'
    BY <2>1, <2>10, RemoveMemberStep
  <2>11. ASSUME NEW i \in People, NEW list \in [Grants -> {"none", "allow", "deny"}],
                ReplaceOverrides(i, list)
         PROVE  RepoInv'
    BY <2>1, <2>11, ReplaceOverridesStep
  <2>12. CASE MomentPasses
    BY <2>12, MomentPassesStep
  <2> QED BY <1>1, <2>2, <2>3, <2>4, <2>5, <2>6, <2>7, <2>8, <2>9, <2>10, <2>11, <2>12
          DEF RepoNext
<1>2. CASE UNCHANGED repoVars
  BY <1>2 DEF repoVars, RepoInv, RepoTyped, SchemaHolds, UsersUnique, MfaOfUsers,
             AssignedUnderContract, ClientsOfSessions, OverridesOfMembers
<1> QED BY <1>1, <1>2

\* The queries of the two classes, on the same contents.
LEMMA MembersListed ==
    ASSUME catalog.users \subseteq People, NEW s, NEW place
    PROVE  ListServiceMembers(s, place) = PgListServiceMembers(s, place)
<1> DEFINE Assigned == {j \in People : s.assigned[place][j] # "none"}
           Found(i) == IF i \in catalog.users THEN {<<i, s.assigned[place][i]>>} ELSE {}
<1>1. ASSUME NEW x \in UNION {Found(i) : i \in Assigned}
      PROVE  x \in PgListServiceMembers(s, place)
  <2>1. PICK i \in Assigned : x \in Found(i)
    OBVIOUS
  <2>2. i \in catalog.users /\ x = <<i, s.assigned[place][i]>> /\ s.assigned[place][i] # "none"
    BY <2>1
  <2> QED BY <2>2 DEF PgListServiceMembers
<1>2. ASSUME NEW x \in PgListServiceMembers(s, place)
      PROVE  x \in UNION {Found(i) : i \in Assigned}
  <2>1. PICK i \in catalog.users : s.assigned[place][i] # "none" /\ x = <<i, s.assigned[place][i]>>
    BY DEF PgListServiceMembers
  <2>2. i \in Assigned /\ x \in Found(i)
    BY <2>1
  <2> HIDE DEF Found, Assigned
  <2> QED BY <2>2
<1> HIDE DEF Found, Assigned
<1>3. UNION {Found(i) : i \in Assigned} = PgListServiceMembers(s, place)
  BY <1>1, <1>2
<1> QED BY <1>3 DEF ListServiceMembers, Found, Assigned

LEMMA PortalListed ==
    ASSUME NEW s, NEW i
    PROVE  ListPortalEntries(s, i) = PgListPortalEntries(s, i)
<1> DEFINE OpenTo(t) == {c \in Services :
                         /\ s.assigned[<<t, c>>][i] = "active"
                         /\ catalog.contract[<<t, c>>] = "active"
                         /\ catalog.client[c] = "active"}
           Rows == PortalRows(s, i)
           WithEntries == {u \in Companies : catalog.tenant[u] = "active" /\ OpenTo(u) # {}}
<1>1. ASSUME NEW t \in Companies, NEW c \in Services
      PROVE  <<t, c>> \in Rows <=> catalog.tenant[t] = "active" /\ c \in OpenTo(t)
  BY DEF PortalRows, Places
<1>2. \A place \in Rows : \E t \in Companies, c \in Services : place = <<t, c>> /\ place[1] = t
  BY DEF PortalRows, Places
<1>3. ListPortalEntries(s, i) = {<<t, OpenTo(t)>> : t \in WithEntries}
  BY DEF ListPortalEntries
<1>4. PgListPortalEntries(s, i) =
         {<<place[1], {c \in Services : <<place[1], c>> \in Rows}>> : place \in Rows}
  BY DEF PgListPortalEntries
<1>o. \A t : OpenTo(t) \subseteq Services
  OBVIOUS
<1>s. \A t : t \in WithEntries <=> t \in Companies /\ catalog.tenant[t] = "active" /\ OpenTo(t) # {}
  OBVIOUS
<1> HIDE DEF OpenTo, Rows, WithEntries
<1>5. ASSUME NEW t \in Companies, catalog.tenant[t] = "active"
      PROVE  {c \in Services : <<t, c>> \in Rows} = OpenTo(t)
  BY <1>1, <1>5, <1>o
<1>6. ASSUME NEW x \in ListPortalEntries(s, i) PROVE x \in PgListPortalEntries(s, i)
  <2>1. PICK t \in WithEntries : x = <<t, OpenTo(t)>>
    BY <1>3
  <2>2. PICK c \in OpenTo(t) : TRUE
    BY <1>s
  <2>3. PICK place : place = <<t, c>>
    OBVIOUS
  <2>4. t \in Companies /\ catalog.tenant[t] = "active" /\ c \in Services
    BY <1>s, <1>o
  <2>5. place \in Rows /\ place[1] = t
    BY <1>1, <2>3, <2>4
  <2>6. x = <<place[1], {d \in Services : <<place[1], d>> \in Rows}>>
    BY <1>5, <2>1, <2>4, <2>5
  <2> QED BY <1>4, <2>5, <2>6
<1>7. ASSUME NEW x \in PgListPortalEntries(s, i) PROVE x \in ListPortalEntries(s, i)
  <2>1. PICK place \in Rows : x = <<place[1], {d \in Services : <<place[1], d>> \in Rows}>>
    BY <1>4
  <2>2. PICK t \in Companies, c \in Services : place = <<t, c>> /\ place[1] = t
    BY <1>2
  <2>3. catalog.tenant[t] = "active" /\ c \in OpenTo(t)
    BY <1>1, <2>2
  <2>4. t \in WithEntries
    BY <1>s, <2>3
  <2>5. x = <<t, OpenTo(t)>>
    BY <1>5, <2>1, <2>2, <2>3
  <2> QED BY <1>3, <2>4, <2>5
<1> QED BY <1>6, <1>7

LEMMA ActiveListed ==
    ASSUME RepoInv, port = "sessions"
    PROVE  ListedActive(database) <=> PgListedActive(database)
<1>1. moment \in Nat /\ IdleLimit \in Nat /\ AbsoluteLimit \in Nat
  BY DEF RepoInv
<1>2. \A n \in Int, limit \in Nat :
         n + limit > moment \div 2 <=> 2 * n > moment - 2 * limit
  BY <1>1
<1> QED BY <1>1, <1>2, SessionsStore DEF ListedActive, PgListedActive, WholeSeconds, SessionRow

\* The inductive invariant of the repositories: unless the in-memory class has been lenient,
\* both hold the same, and the tables keep the schema's constraints (the memory-*.ts and pg-*.ts
\* classes behind one port).
THEOREM RepositoriesInvariance == RepoSpec => []RepoInv
  BY RepoStarts, RepoStep, PTL DEF RepoSpec

\* For any people, tenants, services, catalogs and lifetimes: as long as nothing the schema
\* forbids was asked for, the in-memory repositories of the unit tests answer each call and
\* each query as the PostgreSQL ones do, and the constraints hold (memory-identity-repository.ts
\* against pg-identity-repository.ts, and the session and member repositories likewise).
THEOREM RepositoriesAlwaysAgree == RepoSpec => []RepositoriesAgree
<1>1. RepoInv => RepositoriesAgree
  <2> SUFFICES ASSUME RepoInv, ~lenient, standIn = database,
                      replies.memory = replies.postgres
               PROVE  MemoryView = PgView
    BY DEF RepoInv, RepositoriesAgree
  <2>1. CASE port = "users"
    BY <2>1 DEF MemoryView, PgView
  <2>2. CASE port = "assignments"
    <3>1. \A place \in Places :
             ListServiceMembers(standIn, place) = PgListServiceMembers(database, place)
      BY MembersListed DEF RepoInv
    <3>2. \A i \in People : ListPortalEntries(standIn, i) = PgListPortalEntries(database, i)
      BY PortalListed
    <3> QED BY <2>2, <3>1, <3>2 DEF MemoryView, PgView
  <2>3. CASE port = "sessions"
    <3>1. ListedActive(standIn) = PgListedActive(database)
      BY <2>3, ActiveListed DEF ListedActive, PgListedActive
    <3> QED BY <2>3, <3>1 DEF MemoryView, PgView
  <2>4. CASE port = "members"
    BY <2>4 DEF MemoryView, PgView
  <2> QED BY <2>1, <2>2, <2>3, <2>4 DEF RepoInv, Ports
<1> QED BY <1>1, RepositoriesInvariance, PTL


=============================================================================
