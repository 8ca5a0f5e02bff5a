----------------------------- MODULE JwksCache ------------------------------
(***************************************************************************)
(* Verification of a JWT against keys fetched from another server:         *)
(* RemoteJwksSource and verifyJwtWithSource of packages/shared/src/jwks.ts,*)
(* as the resource APIs, the BFFs (through the discovery document) and the *)
(* Cognito adapter use them.  Several verifications share one source, its  *)
(* cache and its one fetch; the publisher changes its key while they run,  *)
(* and a fetch may fail or be answered long after it was sent.             *)
(*                                                                         *)
(* auth-api signs with one key and publishes that one: keys are numbered,  *)
(* and `signing' is the one in use.                                        *)
(***************************************************************************)
EXTENDS Integers

CONSTANTS
    Verifiers,          \* verifications under way at once
    CacheTtl,           \* CACHE_TTL_SECONDS, in ticks
    RefreshMinInterval, \* REFRESH_MIN_INTERVAL_SECONDS, in ticks
    LastTick            \* bound: when the clock stops

ASSUME JwksAssumption ==
    /\ CacheTtl \in Nat \ {0} /\ RefreshMinInterval \in Nat /\ LastTick \in Nat
    /\ RefreshMinInterval <= CacheTtl

VARIABLES
    tick,
    signing,      \* the key auth-api signs with and publishes: 1, then 2
    rotatedAt,    \* when it changed, or NotYet
    cached,       \* the kids of the cached set, {} for none
    attemptedAt, forcedAt,
    discovered,   \* the discovery document, which names jwks_uri, is kept
    fetch,        \* the one fetch in flight: its stage and the kids it was answered
    at,           \* where each verification is
    kid,          \* the kid of the token it verifies
    held,         \* the keys it was given, or NoKeys when there are none to be had
    takenAt,      \* when it was given them
    overtook,     \* it was given the cached keys while a fetch was under way
    failed,       \* a fetch failed since the rotation
    late          \* a fetch answered before the rotation returned after it

jwksVars == <<tick, signing, rotatedAt, cached, attemptedAt, forcedAt, discovered, fetch,
              at, kid, held, takenAt, overtook, failed, late>>

sourceVars == <<cached, attemptedAt, forcedAt, discovered, fetch>>

NotYet == -1
LongAgo == -(CacheTtl + 1)     \* the epoch, which the fields start from
Unknown == 0                   \* a kid nobody signs with
NoFetch == [stage |-> "none", kids |-> {}]


JwksInit ==
    /\ tick = 0 /\ signing = 1 /\ rotatedAt = NotYet
    /\ cached = {} /\ attemptedAt = LongAgo /\ forcedAt = LongAgo
    /\ discovered = FALSE /\ fetch = NoFetch
    /\ at = [v \in Verifiers |-> "idle"] /\ kid = [v \in Verifiers |-> Unknown]
    /\ held = [v \in Verifiers |-> {}] /\ takenAt = [v \in Verifiers |-> 0]
    /\ overtook = [v \in Verifiers |-> FALSE]
    /\ failed = FALSE /\ late = FALSE

-----------------------------------------------------------------------------
(* RemoteJwksSource.get                                                     *)

Fresh == cached # {} /\ tick - attemptedAt < CacheTtl

\* After a failed fetch the retry waits; with RefreshMinInterval <= CacheTtl this never
\* adds to Fresh, because attemptedAt counts the attempts that failed as well.
Spaced == cached # {} /\ tick - attemptedAt < RefreshMinInterval

\* A forced refresh is made once per interval.
Throttled == cached # {} /\ tick - forcedAt < RefreshMinInterval

Given(v, keys, point) ==
    /\ held' = [held EXCEPT ![v] = keys]
    /\ takenAt' = [takenAt EXCEPT ![v] = tick]
    /\ overtook' = [overtook EXCEPT ![v] = (fetch # NoFetch)]
    /\ at' = [at EXCEPT ![v] = point]

\* inflight ??= refresh(): the request joins the fetch under way, or sends one.
Join(v, point) ==
    /\ at' = [at EXCEPT ![v] = point]
    /\ IF fetch = NoFetch
       THEN fetch' = [NoFetch EXCEPT !.stage = "sent"] /\ attemptedAt' = tick
       ELSE UNCHANGED <<fetch, attemptedAt>>
    /\ UNCHANGED <<held, takenAt, overtook>>

\* verifyJwtWithSource reads the kid and asks for the cached keys.
Verify(v, k) ==
    /\ at[v] = "idle"
    /\ kid' = [kid EXCEPT ![v] = k]
    /\ \/ /\ Fresh \/ Spaced
          /\ Given(v, cached, "given")
          /\ UNCHANGED <<fetch, attemptedAt>>
       \/ /\ ~(Fresh \/ Spaced)
          /\ Join(v, "awaiting")
    /\ UNCHANGED <<tick, signing, rotatedAt, cached, forcedAt, discovered, failed, late>>

\* The kid is not among them: once more, with forceRefresh.
ForceRefresh(v) ==
    /\ at[v] = "given" /\ held[v] # {} /\ kid[v] \notin held[v]
    /\ \/ /\ Throttled
          /\ Given(v, cached, "givenForced")
          /\ UNCHANGED <<fetch, attemptedAt, forcedAt>>
       \/ /\ ~Throttled
          /\ forcedAt' = tick
          /\ Join(v, "awaitingForced")
    /\ UNCHANGED <<tick, signing, rotatedAt, cached, discovered, kid, failed, late>>

\* hasKid and verifyJwt: accepted with the key held, refused without it (held[v] = {} is
\* jwks_unavailable).  The token's other claims are left out.
Conclude(v) ==
    /\ \/ at[v] = "given" /\ (held[v] = {} \/ kid[v] \in held[v])
       \/ at[v] = "givenForced"
    /\ at' = [at EXCEPT ![v] = "idle"]
    /\ kid' = [kid EXCEPT ![v] = Unknown]
    /\ held' = [held EXCEPT ![v] = {}]
    /\ takenAt' = [takenAt EXCEPT ![v] = 0]
    /\ overtook' = [overtook EXCEPT ![v] = FALSE]
    /\ UNCHANGED <<tick, signing, rotatedAt, sourceVars, failed, late>>

-----------------------------------------------------------------------------
(* RemoteJwksSource.refresh                                                 *)

\* Every request that joined the fetch goes on with its outcome.
Wake(keys) ==
    /\ at' = [v \in Verifiers |->
                 CASE at[v] = "awaiting" -> "given"
                   [] at[v] = "awaitingForced" -> "givenForced"
                   [] OTHER -> at[v]]
    /\ held' = [v \in Verifiers |->
                   IF at[v] \in {"awaiting", "awaitingForced"} THEN keys ELSE held[v]]
    /\ takenAt' = [v \in Verifiers |->
                      IF at[v] \in {"awaiting", "awaitingForced"} THEN tick ELSE takenAt[v]]
    /\ overtook' = [v \in Verifiers |->
                       overtook[v] /\ at[v] \notin {"awaiting", "awaitingForced"}]
    /\ fetch' = NoFetch

\* The publisher answers with the key it has at that moment.
ServerAnswers ==
    /\ fetch.stage = "sent"
    /\ fetch' = [stage |-> "answered", kids |-> {signing}]
    /\ discovered' = TRUE
    /\ UNCHANGED <<tick, signing, rotatedAt, cached, attemptedAt, forcedAt,
                   at, kid, held, takenAt, overtook, failed, late>>

\* Broken variant: the keys of every fetch are kept.
FetchAdds ==
    /\ fetch.stage = "answered"
    /\ cached' = cached \union fetch.kids
    /\ late' = (late \/ (rotatedAt # NotYet /\ signing \notin fetch.kids))
    /\ Wake(cached \union fetch.kids)
    /\ UNCHANGED <<tick, signing, rotatedAt, attemptedAt, forcedAt, discovered, kid, failed>>

FetchReturns ==
    /\ fetch.stage = "answered"
    /\ cached' = fetch.kids
    /\ late' = (late \/ (rotatedAt # NotYet /\ signing \notin fetch.kids))
    /\ Wake(fetch.kids)
    /\ UNCHANGED <<tick, signing, rotatedAt, attemptedAt, forcedAt, discovered, kid, failed>>

\* fallback: the discovery document or the fetch fails, or the body is malformed; the cached
\* keys serve on, and without any the verification is unavailable.
FetchFails ==
    /\ fetch # NoFetch
    /\ failed' = (failed \/ rotatedAt # NotYet)
    /\ Wake(cached)
    /\ discovered' \in (IF discovered THEN {TRUE} ELSE BOOLEAN)
    /\ UNCHANGED <<tick, signing, rotatedAt, cached, attemptedAt, forcedAt, kid, late>>

-----------------------------------------------------------------------------
\* auth-api comes back with another key: SIGNING_KEY_PEM was replaced, or there is none
\* and each start makes one.
Rotate ==
    /\ signing = 1
    /\ signing' = 2 /\ rotatedAt' = tick
    /\ UNCHANGED <<tick, sourceVars, at, kid, held, takenAt, overtook, failed, late>>

Tick ==
    /\ tick < LastTick
    /\ tick' = tick + 1
    /\ UNCHANGED <<signing, rotatedAt, sourceVars, at, kid, held, takenAt, overtook, failed, late>>

JwksNext ==
    \/ \E v \in Verifiers :
          \/ \E k \in {Unknown} \union 1 .. signing : Verify(v, k)
          \/ ForceRefresh(v)
          \/ Conclude(v)
    \/ ServerAnswers \/ FetchReturns \/ FetchFails
    \/ Rotate \/ Tick

JwksSpec == JwksInit /\ [][JwksNext]_jwksVars

-----------------------------------------------------------------------------
\* Verification follows a change of the signing key.  A token of the new key is refused
\* for want of the key only within RefreshMinInterval of the change (a forced refresh,
\* perhaps for a kid nobody has, came just before it), while a fetch was under way (the
\* throttle is asked before the fetch is joined, so only the first of several requests
\* with the new kid waits for the keys), or after a fetch failed or came back with keys
\* read before the change; and the withdrawn key is accepted from keys
\* taken after the change only within CacheTtl of it, or during or after such a fetch,
\* which restarts the lifetime of the cache when it is sent, whatever it brings.
KeysFollowRotation ==
    \A v \in Verifiers :
        /\ (at[v] = "givenForced" /\ held[v] # {} /\ kid[v] = signing /\ kid[v] \notin held[v]) =>
              \/ rotatedAt # NotYet /\ takenAt[v] < rotatedAt + RefreshMinInterval
              \/ overtook[v] \/ failed \/ late
        /\ (at[v] \in {"given", "givenForced"} /\ kid[v] = 1 /\ signing = 2 /\ 1 \in held[v]) =>
              \/ takenAt[v] < rotatedAt + CacheTtl
              \/ overtook[v] \/ failed \/ late

=============================================================================
