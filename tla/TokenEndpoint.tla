--------------------------- MODULE TokenEndpoint ---------------------------
(***************************************************************************)
(* The token endpoint of the authorization server: the authorization_code  *)
(* and refresh_token grants, the RFC 7009 revocation endpoint and the      *)
(* refresh-token families they share (application/usecases/token.ts and    *)
(* refresh-tokens.ts of apps/auth-api).                                    *)
(*                                                                         *)
(* Several Node processes serve requests against one Redis, so a request   *)
(* gives way to every other at each await.  One action is one awaited      *)
(* store or database operation together with the synchronous code up to    *)
(* the next await; the operations of a Promise.all are separate actions    *)
(* in either order.  A store operation is atomic (GETDEL, SET, SADD).      *)
(* What the SSO session store and the identity database answer is an input *)
(* here: both may change between any two steps.                            *)
(*                                                                         *)
(* Values.  A refresh-token value and a family id are fresh random         *)
(* strings.  The family id is drawn together with the family's first       *)
(* value, so that value stands for it.  A stored record carries, besides   *)
(* its status, only fields that never change; they are kept in familyOf    *)
(* and origin, and refreshTokens holds the status.                         *)
(***************************************************************************)
EXTENDS Naturals, FiniteSets

CONSTANTS
    Req,        \* slots for invocations running at the same time
    Client,     \* OIDC clients (the BFFs of the services)
    Sid,        \* SSO sessions
    Code,       \* authorization codes that may be issued
    Token,      \* refresh-token values that may be drawn: bounds the rotations
    ClientOf,   \* the client an authorization code is issued to
    SidOf,      \* the SSO session an authorization code is issued from
    Expiring,   \* the stores whose keys run out in this instance
    NoClient, NoCode, NoToken

ASSUME ConstantsAssumption ==
    /\ ClientOf \in [Code -> Client]
    /\ SidOf \in [Code -> Sid]
    /\ Expiring \subseteq {"code", "token", "family", "sid"}
    /\ NoClient \notin Client
    /\ NoCode \notin Code
    /\ NoToken \notin Token

VARIABLES
    authorizationCodes,   \* store: what is kept under a code
    codeFamily,           \* familyId in the used record of a code
    refreshTokens,        \* store: status kept under a refresh token
    familyOf,             \* familyId in a token's record
    origin,               \* the code whose exchange started a token's family
    parent,               \* history: the token whose rotation made this one
    refreshTokenFamilies, \* store: familyId -> tokens added to it
    sidRefreshFamilies,   \* store: sid -> families added to it
    holder,               \* history: the client a token was sent to
    pc,                   \* where each invocation is
    caller,               \* its locals: the authenticated client,
    code,                 \*   the code presented,
    token,                \*   the refresh token presented, then the one handed out,
    stored,               \*   the status that GETDEL returned,
    family,               \*   the family being revoked,
    keys,                 \*   its members still to get,
    found,                \*   the records got and still to set
    quiet                 \* history: revocations no rotation overlapped so far

storeVars == <<authorizationCodes, codeFamily, refreshTokens, familyOf, origin,
               parent, refreshTokenFamilies, sidRefreshFamilies>>
ghostVars == <<holder, quiet>>
callVars  == <<caller, code, token, stored, family>>
localVars == <<callVars, keys, found>>
vars == <<storeVars, ghostVars, pc, localVars>>

CodeStatus  == {"unissued", "fresh", "absent", "used"}
TokenStatus == {"absent", "active", "rotated", "revoked"}

\* Program points: the await each invocation is at.
RotatePoints == {"rotateWriteBack", "refreshSession", "refreshAccess", "rotateStore"}
IndexPoints  == {"indexBoth", "indexFamily", "indexSid", "remember", "rotateIndex"}
RevokePoints == {"revokeMembers", "revoking"}
Points == {"idle", "exchangeLoad", "createStore", "replayRemember", "reuseWriteBack"}
          \cup RotatePoints \cup IndexPoints \cup RevokePoints

TypeOK ==
    /\ authorizationCodes \in [Code -> CodeStatus]
    /\ codeFamily \in [Code -> Token \cup {NoToken}]
    /\ refreshTokens \in [Token -> TokenStatus]
    /\ familyOf \in [Token -> Token \cup {NoToken}]
    /\ origin \in [Token -> Code \cup {NoCode}]
    /\ parent \in [Token -> Token \cup {NoToken}]
    /\ refreshTokenFamilies \in [Token -> SUBSET Token]
    /\ sidRefreshFamilies \in [Sid -> SUBSET Token]
    /\ holder \in [Token -> Client \cup {NoClient}]
    /\ pc \in [Req -> Points]
    /\ caller \in [Req -> Client \cup {NoClient}]
    /\ code \in [Req -> Code \cup {NoCode}]
    /\ token \in [Req -> Token \cup {NoToken}]
    /\ stored \in [Req -> TokenStatus]
    /\ family \in [Req -> Token \cup {NoToken}]
    /\ keys \in [Req -> SUBSET Token]
    /\ found \in [Req -> SUBSET Token]
    /\ quiet \subseteq Req

Init ==
    /\ authorizationCodes = [k \in Code |-> "unissued"]
    /\ codeFamily = [k \in Code |-> NoToken]
    /\ refreshTokens = [v \in Token |-> "absent"]
    /\ familyOf = [v \in Token |-> NoToken]
    /\ origin = [v \in Token |-> NoCode]
    /\ parent = [v \in Token |-> NoToken]
    /\ refreshTokenFamilies = [f \in Token |-> {}]
    /\ sidRefreshFamilies = [s \in Sid |-> {}]
    /\ holder = [v \in Token |-> NoClient]
    /\ pc = [r \in Req |-> "idle"]
    /\ caller = [r \in Req |-> NoClient]
    /\ code = [r \in Req |-> NoCode]
    /\ token = [r \in Req |-> NoToken]
    /\ stored = [r \in Req |-> "absent"]
    /\ family = [r \in Req |-> NoToken]
    /\ keys = [r \in Req |-> {}]
    /\ found = [r \in Req |-> {}]
    /\ quiet = {}

Drawn(v)  == familyOf[v] # NoToken
Issued(v) == holder[v] # NoClient

ClientOfToken(v) == ClientOf[origin[v]]
SidOfToken(v)    == SidOf[origin[v]]

-----------------------------------------------------------------------------
(* Control flow of one invocation *)

Goto(r, point) == pc' = [pc EXCEPT ![r] = point]

\* r goes on at a point where it needs exactly these locals.
Continue(r, point, c, k, v, st, f) ==
    /\ Goto(r, point)
    /\ caller' = [caller EXCEPT ![r] = c]
    /\ code' = [code EXCEPT ![r] = k]
    /\ token' = [token EXCEPT ![r] = v]
    /\ stored' = [stored EXCEPT ![r] = st]
    /\ family' = [family EXCEPT ![r] = f]
    /\ keys' = [keys EXCEPT ![r] = {}]
    /\ found' = [found EXCEPT ![r] = {}]

\* The invocation returns, or dies with its process.
Return(r) == Continue(r, "idle", NoClient, NoCode, NoToken, "absent", NoToken)

\* revokeRefreshTokenFamily is called for family f; k is the replayed code, if
\* that is why.
StartRevocation(r, f, k) ==
    Continue(r, "revokeMembers", NoClient, k, NoToken, "absent", f)

\* r holds the right to put an exchangeable token into family f: it has taken the
\* active one out, or has stored the next one and not yet handed it out.
Rotating(r, f) ==
    pc[r] \in RotatePoints \cup IndexPoints /\ familyOf[token[r]] = f

-----------------------------------------------------------------------------
(* refresh-tokens.ts *)

\* storeRefreshToken: a fresh value, stored as active, in family f.
storeRefreshToken(r, v, f, k, p) ==
    /\ ~Drawn(v)
    /\ refreshTokens' = [refreshTokens EXCEPT ![v] = "active"]
    /\ familyOf' = [familyOf EXCEPT ![v] = f]
    /\ origin' = [origin EXCEPT ![v] = k]
    /\ parent' = [parent EXCEPT ![v] = p]
    /\ token' = [token EXCEPT ![r] = v]
    /\ UNCHANGED <<authorizationCodes, codeFamily, refreshTokenFamilies,
                   sidRefreshFamilies, ghostVars, caller, code, stored, family,
                   keys, found>>

\* createRefreshTokenFamily, first await.
CreateStore(r, v) ==
    /\ pc[r] = "createStore"
    /\ storeRefreshToken(r, v, v, code[r], NoToken)
    /\ Goto(r, "indexBoth")

\* createRefreshTokenFamily, the two adds of its Promise.all.
CreateIndexFamily(r) ==
    /\ \/ pc[r] = "indexBoth" /\ Goto(r, "indexSid")
       \/ pc[r] = "indexFamily" /\ Goto(r, "remember")
    /\ LET v == token[r] IN
         refreshTokenFamilies' =
           [refreshTokenFamilies EXCEPT ![familyOf[v]] = @ \cup {v}]
    /\ UNCHANGED <<authorizationCodes, codeFamily, refreshTokens, familyOf, origin,
                   parent, sidRefreshFamilies, ghostVars, localVars>>

CreateIndexSid(r) ==
    /\ \/ pc[r] = "indexBoth" /\ Goto(r, "indexFamily")
       \/ pc[r] = "indexSid" /\ Goto(r, "remember")
    /\ LET v == token[r] IN
         sidRefreshFamilies' =
           [sidRefreshFamilies EXCEPT ![SidOfToken(v)] = @ \cup {familyOf[v]}]
    /\ UNCHANGED <<authorizationCodes, codeFamily, refreshTokens, familyOf, origin,
                   parent, refreshTokenFamilies, ghostVars, localVars>>

\* revokeRefreshTokenFamily: read the members ...
RevokeMembers(r) ==
    /\ pc[r] = "revokeMembers"
    /\ Goto(r, "revoking")
    /\ LET f == family[r] IN
         /\ keys' = [keys EXCEPT ![r] = refreshTokenFamilies[f]]
         /\ quiet' = IF \E q \in Req : Rotating(q, f) THEN quiet ELSE quiet \cup {r}
    /\ UNCHANGED <<storeVars, holder, callVars, found>>

\* Broken variant: only records that are no longer active are revoked.
RevokeGetInactive(r, v) ==
    /\ pc[r] = "revoking"
    /\ v \in keys[r]
    /\ keys' = [keys EXCEPT ![r] = @ \ {v}]
    /\ found' = IF refreshTokens[v] \in {"absent", "active"} THEN found
                ELSE [found EXCEPT ![r] = @ \cup {v}]
    /\ UNCHANGED <<storeVars, ghostVars, pc, callVars>>

\* ... get each of their records, in parallel ...
RevokeGet(r, v) ==
    /\ pc[r] = "revoking"
    /\ v \in keys[r]
    /\ keys' = [keys EXCEPT ![r] = @ \ {v}]
    /\ found' = IF refreshTokens[v] = "absent" THEN found
                ELSE [found EXCEPT ![r] = @ \cup {v}]
    /\ UNCHANGED <<storeVars, ghostVars, pc, callVars>>

\* ... and once all are read, set each record found to revoked, in parallel,
\* whatever is stored under it by then.
RevokeSet(r, v) ==
    /\ pc[r] = "revoking"
    /\ keys[r] = {}
    /\ v \in found[r]
    /\ found' = [found EXCEPT ![r] = @ \ {v}]
    /\ refreshTokens' = [refreshTokens EXCEPT ![v] = "revoked"]
    /\ UNCHANGED <<authorizationCodes, codeFamily, familyOf, origin, parent,
                   refreshTokenFamilies, sidRefreshFamilies, ghostVars, pc,
                   callVars, keys>>

\* The caller goes on: a replayed code is remembered again, every other caller
\* answers.
RevokeDone(r) ==
    /\ pc[r] = "revoking"
    /\ keys[r] = {} /\ found[r] = {}
    /\ IF code[r] # NoCode THEN Goto(r, "replayRemember") /\ UNCHANGED localVars
                           ELSE Return(r)
    /\ quiet' = quiet \ {r}
    /\ UNCHANGED <<storeVars, holder>>

-----------------------------------------------------------------------------
(* token.ts: grant_type=authorization_code *)

\* Broken variant: the code is read with get and removed later.
ExchangeCodeByGet(r, c, k, bound) ==
    /\ pc[r] = "idle"
    /\ authorizationCodes[k] = "fresh" /\ bound /\ ClientOf[k] = c
    /\ Continue(r, "exchangeLoad", c, k, NoToken, "absent", NoToken)
    /\ UNCHANGED <<storeVars, ghostVars>>

\* exchangeAuthorizationCode takes the code out of the store.  An unknown code
\* is refused; a used one starts the revocation of its family; validateCodeBinding
\* refuses a wrong client, redirect_uri or code_verifier (bound: the last two
\* match), and the code is gone.
ExchangeCode(r, c, k, bound) ==
    /\ pc[r] = "idle"
    /\ authorizationCodes[k] # "unissued"
    /\ authorizationCodes' = [authorizationCodes EXCEPT ![k] = "absent"]
    /\ \/ /\ authorizationCodes[k] = "used"
          /\ StartRevocation(r, codeFamily[k], k)
       \/ /\ authorizationCodes[k] = "fresh"
          /\ bound /\ ClientOf[k] = c
          /\ Continue(r, "exchangeLoad", c, k, NoToken, "absent", NoToken)
       \/ /\ \/ authorizationCodes[k] = "absent"
             \/ authorizationCodes[k] = "fresh" /\ ~(bound /\ ClientOf[k] = c)
          /\ UNCHANGED <<pc, localVars>>
    /\ UNCHANGED <<codeFamily, refreshTokens, familyOf, origin, parent,
                   refreshTokenFamilies, sidRefreshFamilies, ghostVars>>

\* The SSO session, the user and the tenant are loaded; there: all three are
\* (whether the user is still assigned is not looked at).
ExchangeLoad(r, there) ==
    /\ pc[r] = "exchangeLoad"
    /\ IF there THEN Goto(r, "createStore") /\ UNCHANGED localVars
                ELSE Return(r)
    /\ UNCHANGED <<storeVars, ghostVars>>

\* rememberConsumedCode with the new family, then the response carries the token.
Remember(r) ==
    /\ pc[r] = "remember"
    /\ LET k == code[r] IN
         /\ authorizationCodes' = [authorizationCodes EXCEPT ![k] = "used"]
         /\ codeFamily' = [codeFamily EXCEPT ![k] = familyOf[token[r]]]
    /\ holder' = [holder EXCEPT ![token[r]] = caller[r]]
    /\ Return(r)
    /\ UNCHANGED <<refreshTokens, familyOf, origin, parent, refreshTokenFamilies,
                   sidRefreshFamilies, quiet>>

\* Broken variant: the used record is put back without its family.
ReplayRememberNoFamily(r) ==
    /\ pc[r] = "replayRemember"
    /\ authorizationCodes' = [authorizationCodes EXCEPT ![code[r]] = "used"]
    /\ codeFamily' = [codeFamily EXCEPT ![code[r]] = NoToken]
    /\ Return(r)
    /\ UNCHANGED <<refreshTokens, familyOf, origin, parent, refreshTokenFamilies,
                   sidRefreshFamilies, ghostVars>>

\* rememberConsumedCode after a replay: the used record is put back.
ReplayRemember(r) ==
    /\ pc[r] = "replayRemember"
    /\ authorizationCodes' = [authorizationCodes EXCEPT ![code[r]] = "used"]
    /\ codeFamily' = [codeFamily EXCEPT ![code[r]] = family[r]]
    /\ Return(r)
    /\ UNCHANGED <<refreshTokens, familyOf, origin, parent, refreshTokenFamilies,
                   sidRefreshFamilies, ghostVars>>

-----------------------------------------------------------------------------
(* token.ts: grant_type=refresh_token *)

\* Broken variants: the record is read with get; only a rotated record is reuse.
ConsumeByGet(r, c, v) ==
    /\ pc[r] = "idle"
    /\ Issued(v)
    /\ refreshTokens[v] = "active"
    /\ Continue(r, "rotateWriteBack", c, NoCode, v, "active", NoToken)
    /\ quiet' = {q \in quiet : family[q] # familyOf[v]}
    /\ UNCHANGED <<storeVars, holder>>

ConsumeRevoked(r, c, v) ==
    /\ pc[r] = "idle"
    /\ Issued(v)
    /\ refreshTokens[v] \in {"active", "revoked"}
    /\ refreshTokens' = [refreshTokens EXCEPT ![v] = "absent"]
    /\ Continue(r, "rotateWriteBack", c, NoCode, v, "active", NoToken)
    /\ quiet' = {q \in quiet : family[q] # familyOf[v]}
    /\ UNCHANGED <<authorizationCodes, codeFamily, familyOf, origin, parent,
                   refreshTokenFamilies, sidRefreshFamilies, holder>>

\* consumeRefreshToken, GETDEL: nothing there is unknown, and refused.  The value
\* may be presented by whoever holds it, any number of times.
Consume(r, c, v) ==
    /\ pc[r] = "idle"
    /\ Issued(v)
    /\ refreshTokens' = [refreshTokens EXCEPT ![v] = "absent"]
    /\ IF refreshTokens[v] = "absent" THEN UNCHANGED <<pc, localVars>>
       ELSE Continue(r, IF refreshTokens[v] = "active" THEN "rotateWriteBack"
                                                      ELSE "reuseWriteBack",
                     c, NoCode, v, refreshTokens[v], NoToken)
    /\ quiet' = IF refreshTokens[v] = "active"
                  THEN {q \in quiet : family[q] # familyOf[v]} ELSE quiet
    /\ UNCHANGED <<authorizationCodes, codeFamily, familyOf, origin, parent,
                   refreshTokenFamilies, sidRefreshFamilies, holder>>

\* Broken variants: the record is put back as active; the reuse is not refused.
ReuseWriteBackActive(r) ==
    /\ pc[r] = "reuseWriteBack"
    /\ refreshTokens' = [refreshTokens EXCEPT ![token[r]] = "active"]
    /\ StartRevocation(r, familyOf[token[r]], NoCode)
    /\ UNCHANGED <<authorizationCodes, codeFamily, familyOf, origin, parent,
                   refreshTokenFamilies, sidRefreshFamilies, ghostVars>>

ReuseWriteBackGoesOn(r) ==
    /\ pc[r] = "reuseWriteBack"
    /\ refreshTokens' = [refreshTokens EXCEPT ![token[r]] = stored[r]]
    /\ Goto(r, "refreshSession")
    /\ UNCHANGED <<authorizationCodes, codeFamily, familyOf, origin, parent,
                   refreshTokenFamilies, sidRefreshFamilies, ghostVars, localVars>>

\* consumeRefreshToken, a value that is not active: its record is put back as it
\* was, and the family is revoked.
ReuseWriteBack(r) ==
    /\ pc[r] = "reuseWriteBack"
    /\ LET v == token[r] IN
         /\ refreshTokens' = [refreshTokens EXCEPT ![v] = stored[r]]
         /\ StartRevocation(r, familyOf[v], NoCode)
    /\ UNCHANGED <<authorizationCodes, codeFamily, familyOf, origin, parent,
                   refreshTokenFamilies, sidRefreshFamilies, ghostVars>>

\* The refresh is refused and the family of the token it consumed is revoked.
RefuseRefresh(r) == StartRevocation(r, familyOf[token[r]], NoCode)

\* Broken variant: any client is served.
RotateWriteBackAnyClient(r) ==
    /\ pc[r] = "rotateWriteBack"
    /\ refreshTokens' = [refreshTokens EXCEPT ![token[r]] = "rotated"]
    /\ Goto(r, "refreshSession")
    /\ UNCHANGED <<authorizationCodes, codeFamily, familyOf, origin, parent,
                   refreshTokenFamilies, sidRefreshFamilies, ghostVars, localVars>>

\* consumeRefreshToken, an active value: it is put back as rotated; a client it
\* was not issued to is refused.
RotateWriteBack(r) ==
    /\ pc[r] = "rotateWriteBack"
    /\ LET v == token[r] IN
         /\ refreshTokens' = [refreshTokens EXCEPT ![v] = "rotated"]
         /\ IF ClientOfToken(v) = caller[r]
              THEN Goto(r, "refreshSession") /\ UNCHANGED localVars
              ELSE RefuseRefresh(r)
    /\ UNCHANGED <<authorizationCodes, codeFamily, familyOf, origin, parent,
                   refreshTokenFamilies, sidRefreshFamilies, ghostVars>>

\* validateRefreshContext, first await: the SSO session and the tenant are loaded.
RefreshSession(r, there) ==
    /\ pc[r] = "refreshSession"
    /\ IF there THEN Goto(r, "refreshAccess") /\ UNCHANGED localVars
                ELSE RefuseRefresh(r)
    /\ UNCHANGED <<storeVars, ghostVars>>

\* validateRefreshContext, second await: checkTenantAccess.
RefreshAccess(r, granted) ==
    /\ pc[r] = "refreshAccess"
    /\ IF granted THEN Goto(r, "rotateStore") /\ UNCHANGED localVars
                  ELSE RefuseRefresh(r)
    /\ UNCHANGED <<storeVars, ghostVars>>

\* rotateRefreshToken, first await: the next token of the same family.
RotateStore(r, v) ==
    /\ pc[r] = "rotateStore"
    /\ LET p == token[r] IN storeRefreshToken(r, v, familyOf[p], origin[p], p)
    /\ Goto(r, "rotateIndex")

\* Broken variant: the next token does not join the family.
RotateIndexNoAdd(r, signed) ==
    /\ pc[r] = "rotateIndex"
    /\ holder' = IF signed THEN [holder EXCEPT ![token[r]] = caller[r]] ELSE holder
    /\ Return(r)
    /\ UNCHANGED <<storeVars, quiet>>

\* rotateRefreshToken, second await: it joins the family, and is sent unless the
\* signing that runs beside it (issueTokens) has failed.
RotateIndex(r, signed) ==
    /\ pc[r] = "rotateIndex"
    /\ LET v == token[r] IN
         /\ refreshTokenFamilies' =
              [refreshTokenFamilies EXCEPT ![familyOf[v]] = @ \cup {v}]
         /\ holder' = IF signed THEN [holder EXCEPT ![v] = caller[r]] ELSE holder
    /\ Return(r)
    /\ UNCHANGED <<authorizationCodes, codeFamily, refreshTokens, familyOf, origin,
                   parent, sidRefreshFamilies, quiet>>

-----------------------------------------------------------------------------
(* token.ts: revocation *)

\* revokeRefreshToken: a token that is not stored or is another client's is
\* left alone.
RevokeToken(r, c, v) ==
    /\ pc[r] = "idle"
    /\ Issued(v)
    /\ refreshTokens[v] # "absent" /\ ClientOfToken(v) = c
    /\ StartRevocation(r, familyOf[v], NoCode)
    /\ UNCHANGED <<storeVars, ghostVars>>

\* Logout and the removal of a member revoke the families listed under a sid
\* (listRefreshFamilies); their own steps are not part of this module.
RevokeListed(r, s, f) ==
    /\ pc[r] = "idle"
    /\ f \in sidRefreshFamilies[s]
    /\ StartRevocation(r, f, NoCode)
    /\ UNCHANGED <<storeVars, ghostVars>>

-----------------------------------------------------------------------------
(* What happens around the endpoint *)

\* authorizeWithSession stores a code that nobody has seen before.
IssueCode(k) ==
    /\ authorizationCodes[k] = "unissued"
    /\ authorizationCodes' = [authorizationCodes EXCEPT ![k] = "fresh"]
    /\ UNCHANGED <<codeFamily, refreshTokens, familyOf, origin, parent,
                   refreshTokenFamilies, sidRefreshFamilies, ghostVars,
                   pc, localVars>>

\* revokeSessionBySid ends by deleting the list of the sid; its TTL does too.
ForgetSid(s) ==
    /\ "sid" \in Expiring
    /\ sidRefreshFamilies' = [sidRefreshFamilies EXCEPT ![s] = {}]
    /\ UNCHANGED <<authorizationCodes, refreshTokens, refreshTokenFamilies>>

\* TTLs.  A family's set is given the same TTL as its tokens by the add that
\* follows the write of the newest of them, so it outlives its active token.
ExpireCode(k) ==
    /\ "code" \in Expiring
    /\ authorizationCodes[k] \in {"fresh", "used"}
    /\ authorizationCodes' = [authorizationCodes EXCEPT ![k] = "absent"]
    /\ UNCHANGED <<refreshTokens, refreshTokenFamilies, sidRefreshFamilies>>

ExpireToken(v) ==
    /\ "token" \in Expiring
    /\ refreshTokens' = [refreshTokens EXCEPT ![v] = "absent"]
    /\ UNCHANGED <<authorizationCodes, refreshTokenFamilies, sidRefreshFamilies>>

ExpireFamily(f) ==
    /\ "family" \in Expiring
    /\ \A v \in refreshTokenFamilies[f] : refreshTokens[v] # "active"
    /\ refreshTokenFamilies' = [refreshTokenFamilies EXCEPT ![f] = {}]
    /\ UNCHANGED <<authorizationCodes, refreshTokens, sidRefreshFamilies>>

\* A key of one of the four stores is no longer there.
KeyGoes ==
    /\ \/ \E k \in Code : ExpireCode(k)
       \/ \E s \in Sid : ForgetSid(s)
       \/ \E v \in Token : ExpireToken(v) \/ ExpireFamily(v)
    /\ UNCHANGED <<codeFamily, familyOf, origin, parent, ghostVars, pc, localVars>>

\* A store error rejects the handler's promise, or the process is stopped.
Abort(r) ==
    /\ pc[r] # "idle"
    /\ Return(r)
    /\ quiet' = quiet \ {r}
    /\ UNCHANGED <<storeVars, holder>>

-----------------------------------------------------------------------------

\* A step the server takes by itself once a request has arrived.
Step(r) ==
    \/ CreateIndexFamily(r) \/ CreateIndexSid(r)
    \/ Remember(r) \/ ReplayRemember(r)
    \/ ReuseWriteBack(r) \/ RotateWriteBack(r)
    \/ RevokeMembers(r) \/ RevokeDone(r)
    \/ \E ok \in BOOLEAN : ExchangeLoad(r, ok) \/ RefreshSession(r, ok)
                           \/ RefreshAccess(r, ok) \/ RotateIndex(r, ok)
    \/ \E v \in Token : CreateStore(r, v) \/ RotateStore(r, v)
                        \/ RevokeGet(r, v) \/ RevokeSet(r, v)

Request(r) ==
    \/ \E c \in Client, k \in Code, bound \in BOOLEAN : ExchangeCode(r, c, k, bound)
    \/ \E c \in Client, v \in Token : Consume(r, c, v) \/ RevokeToken(r, c, v)
    \/ \E s \in Sid, f \in Token : RevokeListed(r, s, f)

Environment == KeyGoes \/ \E k \in Code : IssueCode(k)

Healthy == Environment \/ \E r \in Req : Request(r) \/ Step(r)

Next == Healthy \/ \E r \in Req : Abort(r)

Spec == Init /\ [][Next]_vars

\* No store error and no stopped process.
HealthySpec == Init /\ [][Healthy]_vars

-----------------------------------------------------------------------------
(* Properties *)

\* A family never has two tokens that could both be exchanged, however requests,
\* revocations, aborts and expiries interleave (rotateRefreshToken stores the next
\* token only for the request whose GETDEL returned the active record).
AtMostOneActive ==
    \A v, w \in Token :
        refreshTokens[v] = "active" /\ refreshTokens[w] = "active"
          /\ familyOf[v] = familyOf[w] => v = w

\* One grant per credential: a refresh token is rotated into at most one successor,
\* and an authorization code starts at most one family ("both never succeed" of
\* consumeRefreshToken, and the GETDEL of exchangeAuthorizationCode).
OneGrantPerCredential ==
    \A v, w \in Token :
        /\ Drawn(v) /\ Drawn(w)
        /\ parent[v] = parent[w] /\ origin[v] = origin[w]
        => v = w

\* A refresh token reaches only the client its code was issued to, even when another
\* client presents the code or a token of the family (validateCodeBinding, the
\* client check after consumeRefreshToken).
SentToItsClient ==
    \A v \in Token : Issued(v) => holder[v] = ClientOfToken(v)

\* A token that has left the active state, or whose record is gone, is never active
\* again: neither the write-backs of consumeRefreshToken nor the unconditional set of
\* revokeRefreshTokenFamily revives it.
NeverRevived ==
    [][\A v \in Token :
         Drawn(v) /\ refreshTokens[v] # "active" => refreshTokens'[v] # "active"]_vars

\* Every token a client could exchange is in the set that revokeRefreshTokenFamily
\* walks: the add of rotateRefreshToken and of createRefreshTokenFamily comes before
\* the response, and the set outlives the token.
HeldTokenIsListed ==
    \A v \in Token :
        Issued(v) /\ refreshTokens[v] = "active"
          => v \in refreshTokenFamilies[familyOf[v]]

\* No client holds a token of the family that can be exchanged, and no invocation
\* is on its way to store one.
DeadFamily(f) ==
    /\ \A v \in Token : Issued(v) /\ familyOf[v] = f => refreshTokens[v] # "active"
    /\ \A r \in Req : ~Rotating(r, f)

\* A family revocation that no rotation overlapped has killed the family when
\* revokeRefreshTokenFamily returns, although members, get and set are three awaits.
QuietRevocationKills ==
    \A r \in quiet :
        pc[r] = "revoking" /\ keys[r] = {} /\ found[r] = {}
          => DeadFamily(family[r])

\* A dead family stays dead: replayed codes, reused tokens and late writes of other
\* invocations never give it an exchangeable token again.
DeadFamilyStaysDead ==
    [][\A f \in Token : Drawn(f) /\ DeadFamily(f) => DeadFamily(f)']_vars

\* What the tests expect of two simultaneous presentations of one refresh token: the
\* one that loses finds it consumed and is not taken for a reuse, so that the family
\* survives (refreshAccessToken).
SimultaneousPresentationIsNotReuse ==
    \A q, r \in Req :
        pc[q] \in RotatePoints /\ pc[r] = "reuseWriteBack"
          => token[q] # token[r]

\* What the design expects of a revocation: once one has gone through a family, no
\* client is left with a token of it that works (revokeRefreshTokenFamily).
RevocationReachesEveryToken ==
    \A v, w \in Token :
        /\ refreshTokens[v] = "revoked"
        /\ \A r \in Req : family[r] # familyOf[v]
        /\ Issued(w) /\ familyOf[w] = familyOf[v]
        => refreshTokens[w] # "active"

-----------------------------------------------------------------------------
(* The inductive invariant behind the safety properties *)

\* The records of drawn tokens.  A family's first token names it; the others have a
\* predecessor in the same family, which is no longer active.
RecordsInv ==
    \A v \in Token :
        /\ ~Drawn(v) => /\ refreshTokens[v] = "absent"
                        /\ holder[v] = NoClient
                        /\ origin[v] = NoCode
                        /\ parent[v] = NoToken
        /\ Drawn(v) => /\ origin[v] \in Code
                       /\ familyOf[familyOf[v]] = familyOf[v]
                       /\ origin[familyOf[v]] = origin[v]
        /\ parent[v] # NoToken => /\ familyOf[parent[v]] = familyOf[v]
                                  /\ refreshTokens[parent[v]] # "active"
        /\ \A w \in refreshTokenFamilies[v] : familyOf[w] = v

\* A code that was not taken out of the store yet, or is being exchanged, has no
\* token; the record of a used one names its family.
CodesInv ==
    \A k \in Code :
        /\ authorizationCodes[k] \in {"unissued", "fresh"} =>
             \A v \in Token : origin[v] # k
        /\ authorizationCodes[k] = "used" =>
             /\ codeFamily[k] \in Token
             /\ familyOf[codeFamily[k]] = codeFamily[k]
             /\ origin[codeFamily[k]] = k

\* An exchange that has taken its code is the only one to have it.
ExchangeInv ==
    \A r \in Req :
        pc[r] \in {"exchangeLoad", "createStore"} =>
          LET k == code[r] IN
            /\ k \in Code /\ caller[r] = ClientOf[k]
            /\ authorizationCodes[k] \notin {"unissued", "fresh"}
            /\ \A v \in Token : origin[v] # k
            /\ \A q \in Req : pc[q] \in {"exchangeLoad", "createStore"}
                               /\ code[q] = k => q = r

\* A refresh that has taken an active token out is alone in its family, where
\* nothing is active and the token has no successor.
RotateInv ==
    \A r \in Req :
        pc[r] \in RotatePoints =>
          LET p == token[r] IN
            /\ p \in Token /\ Drawn(p)
            /\ pc[r] # "rotateWriteBack" => caller[r] = ClientOfToken(p)
            /\ \A v \in Token :
                 /\ parent[v] # p
                 /\ familyOf[v] = familyOf[p] => refreshTokens[v] # "active"
            /\ \A q \in Req : pc[q] \in RotatePoints
                               /\ familyOf[token[q]] = familyOf[p] => q = r

\* A token on its way to its client belongs to that client, and is listed before
\* it is sent.
IndexInv ==
    \A r \in Req :
        pc[r] \in IndexPoints =>
          LET v == token[r] IN
            /\ v \in Token /\ Drawn(v)
            /\ caller[r] = ClientOfToken(v)
            /\ pc[r] # "rotateIndex" => code[r] = origin[v]
            /\ pc[r] \in {"indexSid", "remember"} /\ refreshTokens[v] = "active"
                 => v \in refreshTokenFamilies[familyOf[v]]

\* The invocations that revoke a family, or are about to.
RevokeInv ==
    \A r \in Req :
        /\ pc[r] = "reuseWriteBack" =>
             /\ token[r] \in Token /\ Drawn(token[r])
             /\ stored[r] # "active"
             /\ refreshTokens[token[r]] # "active"
        /\ pc[r] \in RevokePoints \cup {"replayRemember"} =>
             LET f == family[r] IN
               /\ f \in Token /\ familyOf[f] = f
               /\ code[r] # NoCode => origin[f] = code[r]
               /\ \A v \in keys[r] \cup found[r] : familyOf[v] = f
        /\ pc[r] = "replayRemember" => code[r] # NoCode

\* A quiet revocation will still get to every token that a client could exchange.
QuietInv ==
    \A r \in quiet :
        /\ pc[r] = "revoking"
        /\ \A q \in Req : ~Rotating(q, family[r])
        /\ \A v \in Token :
             Issued(v) /\ familyOf[v] = family[r] /\ refreshTokens[v] = "active"
               => v \in keys[r] \cup found[r]

SidListInv ==
    \A s \in Sid : \A f \in sidRefreshFamilies[s] : familyOf[f] = f

\* The invariant that the proofs carry from step to step (TokenEndpointProofs).
IInv ==
    /\ TypeOK
    /\ RecordsInv /\ CodesInv /\ ExchangeInv /\ RotateInv /\ IndexInv
    /\ RevokeInv /\ QuietInv /\ SidListInv
    /\ AtMostOneActive /\ OneGrantPerCredential /\ SentToItsClient
    /\ HeldTokenIsListed

-----------------------------------------------------------------------------
(* The families implement TokenFamily *)

Live(f)  == \E v \in Token : familyOf[v] = f /\ refreshTokens[v] = "active"
Spent(f) == \E r \in Req : pc[r] \in RotatePoints /\ familyOf[token[r]] = f

FamilyPhase(f) ==
    IF familyOf[f] # f THEN "none"
    ELSE IF Live(f) THEN "live"
    ELSE IF Spent(f) THEN "spent" ELSE "dead"

\* The token of the family that was not rotated into another.
Newest(f, v) == familyOf[v] = f /\ \A w \in Token : parent[w] # v

FamilyHead(f) ==
    IF familyOf[f] # f THEN NoToken ELSE CHOOSE v \in Token : Newest(f, v)

Families == INSTANCE TokenFamily
              WITH phase <- [f \in Token |-> FamilyPhase(f)],
                   head  <- [f \in Token |-> FamilyHead(f)],
                   drawn <- {v \in Token : Drawn(v)}

\* Seen through its families, the token endpoint only ever opens a family, spends its
\* head, renews a spent one once, or closes it.
ImplementsTokenFamily == Families!Spec

=============================================================================
