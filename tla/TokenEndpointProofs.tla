------------------------ MODULE TokenEndpointProofs ------------------------
(***************************************************************************)
(* The safety properties of TokenEndpoint, for any number of requests,     *)
(* clients, sessions, codes and tokens.                                    *)
(***************************************************************************)
EXTENDS TokenEndpoint, TLAPS

USE ConstantsAssumption DEF CodeStatus, TokenStatus, RotatePoints, IndexPoints,
    RevokePoints, Points, storeVars, ghostVars, callVars, localVars, Goto

-----------------------------------------------------------------------------
(* Types *)

StoresTyped ==
    /\ authorizationCodes \in [Code -> CodeStatus]
    /\ codeFamily \in [Code -> Token \cup {NoToken}]
    /\ refreshTokens \in [Token -> TokenStatus]
    /\ familyOf \in [Token -> Token \cup {NoToken}]
    /\ origin \in [Token -> Code \cup {NoCode}]
    /\ parent \in [Token -> Token \cup {NoToken}]
    /\ refreshTokenFamilies \in [Token -> SUBSET Token]
    /\ sidRefreshFamilies \in [Sid -> SUBSET Token]
    /\ holder \in [Token -> Client \cup {NoClient}]
    /\ quiet \subseteq Req

CallsTyped ==
    /\ pc \in [Req -> Points]
    /\ caller \in [Req -> Client \cup {NoClient}]
    /\ code \in [Req -> Code \cup {NoCode}]
    /\ token \in [Req -> Token \cup {NoToken}]
    /\ stored \in [Req -> TokenStatus]
    /\ family \in [Req -> Token \cup {NoToken}]
    /\ keys \in [Req -> SUBSET Token]
    /\ found \in [Req -> SUBSET Token]

\* The type invariant, split into what the stores hold and where the invocations are.
LEMMA TypeParts ==
  /\ TypeOK => StoresTyped /\ CallsTyped
  /\ StoresTyped' /\ CallsTyped' => TypeOK'
  BY DEF TypeOK, StoresTyped, CallsTyped

\* What Continue does: the invocation gets the locals it is given, no other changes.
Moved(r, point, c, k, v, st, f) ==
    /\ pc'[r] = point /\ caller'[r] = c /\ code'[r] = k /\ token'[r] = v
    /\ stored'[r] = st /\ family'[r] = f /\ keys'[r] = {} /\ found'[r] = {}
    /\ \A q \in Req \ {r} :
         /\ pc'[q] = pc[q] /\ caller'[q] = caller[q] /\ code'[q] = code[q]
         /\ token'[q] = token[q] /\ stored'[q] = stored[q] /\ family'[q] = family[q]
         /\ keys'[q] = keys[q] /\ found'[q] = found[q]

\* Continue keeps the types, and moves one invocation.
LEMMA ContinueMoves ==
  ASSUME NEW r \in Req, NEW point \in Points, NEW c \in Client \cup {NoClient},
         NEW k \in Code \cup {NoCode}, NEW v \in Token \cup {NoToken},
         NEW st \in TokenStatus, NEW f \in Token \cup {NoToken},
         CallsTyped, Continue(r, point, c, k, v, st, f)
  PROVE  CallsTyped' /\ Moved(r, point, c, k, v, st, f)
  BY DEF CallsTyped, Continue, Moved

\* An invocation that returns gives up all its locals.
LEMMA ReturnMoves ==
  ASSUME NEW r \in Req, CallsTyped, Return(r)
  PROVE  CallsTyped' /\ Moved(r, "idle", NoClient, NoCode, NoToken, "absent", NoToken)
  BY ContinueMoves DEF Return

\* An invocation that starts a revocation keeps only the family and the replayed code.
LEMMA StartRevocationMoves ==
  ASSUME NEW r \in Req, NEW f \in Token, NEW k \in Code \cup {NoCode},
         CallsTyped, StartRevocation(r, f, k)
  PROVE  CallsTyped' /\ Moved(r, "revokeMembers", NoClient, k, NoToken, "absent", f)
  BY ContinueMoves DEF StartRevocation

\* An invocation that goes on with the same locals only changes its point.
LEMMA GotoMoves ==
  ASSUME NEW r \in Req, NEW point \in Points, CallsTyped, Goto(r, point),
         UNCHANGED localVars
  PROVE  /\ CallsTyped'
         /\ pc'[r] = point
         /\ \A q \in Req \ {r} : pc'[q] = pc[q]
  BY DEF CallsTyped

-----------------------------------------------------------------------------
(* Steps that activate nothing *)

\* Every step but the two that store a new token is tame: it draws no token, makes
\* none active, brings no code back and takes no active token off its family's list.
Tame ==
    /\ UNCHANGED <<familyOf, origin, parent>>
    /\ \A v \in Token : refreshTokens'[v] = "active" => refreshTokens[v] = "active"
    /\ \A v \in Token : ~Drawn(v) => refreshTokens'[v] = "absent"
                                     /\ holder'[v] = NoClient
    /\ \A k \in Code : authorizationCodes'[k] \in {"unissued", "fresh"}
                         => authorizationCodes[k] \in {"unissued", "fresh"}
    /\ \A f \in Token : \A w \in refreshTokenFamilies'[f] : familyOf[w] = f
    /\ \A v \in Token : refreshTokens'[v] = "active"
                         /\ v \in refreshTokenFamilies[familyOf[v]]
                         => v \in refreshTokenFamilies'[familyOf[v]]

Keeps(q) ==
    /\ pc'[q] = pc[q] /\ caller'[q] = caller[q] /\ code'[q] = code[q]
    /\ token'[q] = token[q] /\ stored'[q] = stored[q] /\ family'[q] = family[q]
    /\ keys'[q] = keys[q] /\ found'[q] = found[q]

\* A step that leaves the stores and the clients' tokens alone is tame.
LEMMA IdleStoresAreTame ==
  ASSUME IInv, UNCHANGED <<storeVars, holder>>
  PROVE  Tame
  BY DEF Tame, IInv, RecordsInv, Drawn

\* A tame step keeps what is said of the tokens: no second active token in a family,
\* no second successor.
LEMMA TameStores ==
  ASSUME IInv, TypeOK', Tame
  PROVE  RecordsInv' /\ AtMostOneActive' /\ OneGrantPerCredential'
<1> USE DEF IInv, TypeOK
<1>1. RecordsInv'
  BY DEF Tame, RecordsInv, Drawn
<1>2. AtMostOneActive'
  BY DEF Tame, AtMostOneActive
<1>3. OneGrantPerCredential'
  BY DEF Tame, OneGrantPerCredential, Drawn
<1> QED BY <1>1, <1>2, <1>3

\* A tame step that sends no token keeps what is said of the clients' tokens.
LEMMA TameHolder ==
  ASSUME IInv, TypeOK', Tame, holder' = holder
  PROVE  SentToItsClient' /\ HeldTokenIsListed'
<1> USE DEF IInv, TypeOK
<1>1. SentToItsClient'
  BY DEF Tame, SentToItsClient, Issued, ClientOfToken
<1>2. HeldTokenIsListed'
  BY DEF Tame, HeldTokenIsListed, Issued
<1> QED BY <1>1, <1>2

\* A tame step that marks no code as used keeps what is said of the codes.
LEMMA TameCodes ==
  ASSUME IInv, TypeOK', Tame, codeFamily' = codeFamily,
         \A k \in Code : authorizationCodes'[k] = "used"
                          => authorizationCodes[k] = "used"
  PROVE  CodesInv'
<1> SUFFICES ASSUME NEW k \in Code
             PROVE  /\ authorizationCodes'[k] \in {"unissued", "fresh"} =>
                         \A v \in Token : origin'[v] # k
                    /\ authorizationCodes'[k] = "used" =>
                         /\ codeFamily'[k] \in Token
                         /\ familyOf'[codeFamily'[k]] = codeFamily'[k]
                         /\ origin'[codeFamily'[k]] = k
  BY DEF CodesInv
<1> QED
  BY DEF IInv, Tame, CodesInv

\* Invocations that keep their place, or go where they hold no right to a token.
LEMMA TameCalls ==
  ASSUME IInv, TypeOK', Tame,
         \A q \in Req : Keeps(q) \/ pc'[q] \in RevokePoints \cup {"idle", "replayRemember"}
  PROVE  ExchangeInv' /\ RotateInv' /\ IndexInv'
<1> USE DEF IInv
<1>1. ExchangeInv'
  BY DEF Tame, ExchangeInv, Keeps
<1>2. RotateInv'
  BY DEF Tame, RotateInv, Keeps, Drawn, ClientOfToken
<1>3. IndexInv'
  BY DEF Tame, IndexInv, Keeps, Drawn, ClientOfToken
<1> QED BY <1>1, <1>2, <1>3

\* A tame step that moves no invocation into a revocation keeps what is said of them.
LEMMA TameRevoke ==
  ASSUME IInv, TypeOK', Tame,
         \A q \in Req : Keeps(q) \/ pc'[q] \notin RevokePoints
                                                \cup {"replayRemember", "reuseWriteBack"}
  PROVE  RevokeInv'
  BY DEF IInv, TypeOK, Tame, RevokeInv, Keeps, Drawn

\* A tame step that starts no rotation leaves a quiet revocation able to reach every
\* exchangeable token.
LEMMA TameQuiet ==
  ASSUME IInv, TypeOK', Tame, holder' = holder, quiet' \subseteq quiet,
         \A q \in Req : Keeps(q) \/ (/\ q \notin quiet'
                                     /\ pc'[q] \notin RotatePoints \cup IndexPoints)
  PROVE  QuietInv'
  BY DEF IInv, TypeOK, Tame, QuietInv, Keeps, Rotating, Issued

-----------------------------------------------------------------------------
(* Steps shared by several actions *)

StorePartsInv ==
    /\ RecordsInv /\ CodesInv /\ SidListInv /\ AtMostOneActive
    /\ OneGrantPerCredential /\ SentToItsClient /\ HeldTokenIsListed

\* A step that leaves the stores alone keeps what the invariant says of them.
LEMMA IdleStores ==
  ASSUME IInv, UNCHANGED <<storeVars, holder>>, CallsTyped', quiet' \subseteq Req
  PROVE  TypeOK' /\ Tame /\ StorePartsInv'
<1>1. StoresTyped'
  BY TypeParts DEF IInv, StoresTyped
<1>2. TypeOK' /\ Tame
  BY <1>1, TypeParts, IdleStoresAreTame
<1>3. CodesInv' /\ SidListInv'
  BY <1>2, TameCodes DEF IInv, SidListInv
<1> QED
  BY <1>2, <1>3, TameStores, TameHolder DEF StorePartsInv

\* An invocation returns, having changed no store.
LEMMA ReturnStep ==
  ASSUME IInv, NEW r \in Req, Return(r), UNCHANGED <<storeVars, holder>>,
         quiet' \subseteq quiet, r \notin quiet'
  PROVE  IInv'
<1>1. CallsTyped' /\ \A q \in Req : Keeps(q) \/ (q = r /\ pc'[q] = "idle")
  BY ReturnMoves, TypeParts DEF IInv, Moved, Keeps
<1>2. quiet' \subseteq Req
  BY TypeParts DEF IInv, StoresTyped
<1>3. TypeOK' /\ Tame /\ StorePartsInv'
  BY <1>1, <1>2, IdleStores
<1>4. ExchangeInv' /\ RotateInv' /\ IndexInv' /\ RevokeInv' /\ QuietInv'
  BY <1>1, <1>3, TameCalls, TameRevoke, TameQuiet
<1> QED
  BY <1>3, <1>4 DEF IInv, StorePartsInv

\* An invocation goes on to another await, having changed nothing else: what the
\* invariant asks of the new point is what the action still has to show.
LEMMA GotoStep ==
  ASSUME IInv, NEW r \in Req, NEW point \in Points, Goto(r, point),
         UNCHANGED localVars, UNCHANGED <<storeVars, holder>>,
         quiet' \subseteq quiet, r \notin quiet'
  PROVE  /\ TypeOK' /\ StorePartsInv'
         /\ pc'[r] = point /\ \A q \in Req \ {r} : pc'[q] = pc[q]
<1>1. CallsTyped' /\ pc'[r] = point /\ \A q \in Req \ {r} : pc'[q] = pc[q]
  BY GotoMoves, TypeParts DEF IInv
<1>2. quiet' \subseteq Req
  BY TypeParts DEF IInv, StoresTyped
<1> QED
  BY <1>1, <1>2, IdleStores

\* An invocation starts to revoke a family, in a tame step.
LEMMA StartRevocationStep ==
  ASSUME IInv, NEW r \in Req, NEW f \in Token, NEW k \in Code \cup {NoCode},
         StartRevocation(r, f, k), familyOf[f] = f,
         k # NoCode => origin[f] = k,
         pc[r] # "revoking",
         StoresTyped', Tame, CodesInv',
         UNCHANGED <<sidRefreshFamilies, holder, quiet>>
  PROVE  IInv'
<1>1. CallsTyped' /\ Moved(r, "revokeMembers", NoClient, k, NoToken, "absent", f)
  BY StartRevocationMoves, TypeParts DEF IInv
<1>2. /\ \A q \in Req : Keeps(q) \/ q = r
      /\ pc'[r] = "revokeMembers" /\ code'[r] = k /\ family'[r] = f
      /\ keys'[r] = {} /\ found'[r] = {}
  BY <1>1 DEF Moved, Keeps
<1>3. TypeOK'
  BY <1>1, TypeParts
<1>4. RecordsInv' /\ AtMostOneActive' /\ OneGrantPerCredential'
      /\ SentToItsClient' /\ HeldTokenIsListed'
  BY <1>3, TameStores, TameHolder
<1>5. SidListInv'
  BY DEF IInv, Tame, SidListInv
<1>6. ExchangeInv' /\ RotateInv' /\ IndexInv'
  BY <1>2, <1>3, TameCalls
<1>7. RevokeInv'
  BY <1>2 DEF IInv, Tame, RevokeInv, Keeps, Drawn
<1>8. r \notin quiet'
  BY DEF IInv, QuietInv
<1>9. QuietInv'
  BY <1>2, <1>3, <1>8, TameQuiet
<1> QED
  BY <1>3, <1>4, <1>5, <1>6, <1>7, <1>9 DEF IInv

\* A tame step that no invocation takes.
LEMMA TameStep ==
  ASSUME IInv, Tame, StoresTyped', CodesInv', SidListInv',
         UNCHANGED <<pc, localVars, holder, quiet>>
  PROVE  IInv'
<1>1. TypeOK' /\ \A q \in Req : Keeps(q)
  BY TypeParts DEF IInv, CallsTyped, Keeps
<1>2. RecordsInv' /\ AtMostOneActive' /\ OneGrantPerCredential'
      /\ SentToItsClient' /\ HeldTokenIsListed'
  BY <1>1, TameStores, TameHolder
<1>3. ExchangeInv' /\ RotateInv' /\ IndexInv' /\ RevokeInv' /\ QuietInv'
  BY <1>1, TameCalls, TameRevoke, TameQuiet
<1> QED
  BY <1>1, <1>2, <1>3 DEF IInv

-----------------------------------------------------------------------------
(* One lemma per action *)

\* An aborted invocation gives up what it held; the stores stay as they are.
LEMMA AbortStep == ASSUME IInv, NEW r \in Req, Abort(r) PROVE IInv'
  BY ReturnStep DEF Abort, storeVars

\* The exchange goes on with its code, or is refused.
LEMMA ExchangeLoadStep ==
  ASSUME IInv, NEW r \in Req, NEW b \in BOOLEAN, ExchangeLoad(r, b) PROVE IInv'
<1>1. CASE ~b
  <2>1. Return(r) /\ UNCHANGED <<storeVars, holder, quiet>> /\ pc[r] = "exchangeLoad"
    BY <1>1 DEF ExchangeLoad
  <2>2. r \notin quiet'
    BY <2>1 DEF IInv, QuietInv
  <2> QED BY <2>1, <2>2, ReturnStep
<1>2. CASE b
  <2>1. /\ pc[r] = "exchangeLoad" /\ Goto(r, "createStore")
        /\ UNCHANGED localVars /\ UNCHANGED <<storeVars, holder, quiet>>
    BY <1>2 DEF ExchangeLoad
  <2>2. r \notin quiet
    BY <2>1 DEF IInv, QuietInv
  <2>3. /\ TypeOK' /\ StorePartsInv'
        /\ pc'[r] = "createStore" /\ \A q \in Req \ {r} : pc'[q] = pc[q]
    BY <2>1, <2>2, GotoStep
  <2>4. ExchangeInv'
    BY <2>1, <2>3 DEF IInv, ExchangeInv
  <2>5. RotateInv' /\ IndexInv'
    BY <2>1, <2>3 DEF IInv, RotateInv, IndexInv, Drawn, ClientOfToken
  <2>6. RevokeInv'
    BY <2>1, <2>3 DEF IInv, RevokeInv, Drawn
  <2>7. QuietInv'
    BY <2>1, <2>3 DEF IInv, QuietInv, Rotating, Issued
  <2> QED
    BY <2>3, <2>4, <2>5, <2>6, <2>7 DEF IInv, StorePartsInv
<1> QED BY <1>1, <1>2

\* validateRefreshContext passes, or its refusal starts a revocation.
LEMMA RefreshChecksStep ==
  ASSUME IInv, NEW r \in Req, NEW b \in BOOLEAN,
         RefreshSession(r, b) \/ RefreshAccess(r, b)
  PROVE  IInv'
<1>1. /\ pc[r] \in {"refreshSession", "refreshAccess"}
      /\ UNCHANGED <<storeVars, holder, quiet>>
  BY DEF RefreshSession, RefreshAccess
<1>2. /\ token[r] \in Token /\ familyOf[token[r]] \in Token
      /\ familyOf[familyOf[token[r]]] = familyOf[token[r]]
  <2>1. token[r] \in Token /\ Drawn(token[r])
    BY <1>1 DEF IInv, RotateInv
  <2>2. familyOf[token[r]] \in Token
    BY <2>1 DEF IInv, TypeOK, Drawn
  <2> QED BY <2>1, <2>2 DEF IInv, RecordsInv
<1>3. r \notin quiet
  BY <1>1 DEF IInv, QuietInv
<1>4. CASE ~b
  <2>1. StartRevocation(r, familyOf[token[r]], NoCode)
    BY <1>4 DEF RefreshSession, RefreshAccess, RefuseRefresh
  <2>2. StoresTyped' /\ Tame
    BY <1>1, TypeParts, IdleStoresAreTame DEF IInv, StoresTyped
  <2>3. CodesInv'
    BY <1>1 DEF IInv, CodesInv
  <2> QED
    BY <1>1, <1>2, <2>1, <2>2, <2>3, StartRevocationStep
<1>5. CASE b
  <2>1. PICK point \in {"refreshAccess", "rotateStore"} :
          Goto(r, point) /\ UNCHANGED localVars
    BY <1>5 DEF RefreshSession, RefreshAccess
  <2>2. /\ TypeOK' /\ StorePartsInv'
        /\ pc'[r] = point /\ \A q \in Req \ {r} : pc'[q] = pc[q]
    BY <1>1, <1>3, <2>1, GotoStep
  <2>3. ExchangeInv' /\ IndexInv'
    BY <1>1, <2>1, <2>2 DEF IInv, ExchangeInv, IndexInv, Drawn, ClientOfToken
  <2>4. RotateInv'
    BY <1>1, <2>1, <2>2 DEF IInv, RotateInv, Drawn, ClientOfToken
  <2>5. RevokeInv'
    BY <1>1, <2>1, <2>2 DEF IInv, RevokeInv, Drawn
  <2>6. QuietInv'
    BY <1>1, <2>1, <2>2 DEF IInv, QuietInv, Rotating, Issued
  <2> QED
    BY <2>2, <2>3, <2>4, <2>5, <2>6 DEF IInv, StorePartsInv
<1> QED BY <1>4, <1>5

\* The revocation endpoint starts on the family of a stored token.
LEMMA RevokeTokenStep ==
  ASSUME IInv, NEW r \in Req, NEW c \in Client, NEW v \in Token, RevokeToken(r, c, v)
  PROVE  IInv'
<1>1. /\ pc[r] = "idle" /\ Issued(v) /\ UNCHANGED <<storeVars, holder, quiet>>
      /\ StartRevocation(r, familyOf[v], NoCode)
  BY DEF RevokeToken
<1>2. familyOf[v] \in Token /\ familyOf[familyOf[v]] = familyOf[v]
  <2>1. Drawn(v)
    BY <1>1 DEF IInv, RecordsInv, Issued
  <2> QED BY <2>1 DEF IInv, RecordsInv, Drawn, TypeOK
<1>3. StoresTyped' /\ Tame
  BY <1>1, TypeParts, IdleStoresAreTame DEF IInv, StoresTyped
<1>4. CodesInv'
  BY <1>1 DEF IInv, CodesInv
<1> QED
  BY <1>1, <1>2, <1>3, <1>4, StartRevocationStep

\* Logout starts on a family listed under a sid, which the list names correctly.
LEMMA RevokeListedStep ==
  ASSUME IInv, NEW r \in Req, NEW s \in Sid, NEW f \in Token, RevokeListed(r, s, f)
  PROVE  IInv'
<1>1. /\ pc[r] = "idle" /\ UNCHANGED <<storeVars, holder, quiet>>
      /\ StartRevocation(r, f, NoCode) /\ familyOf[f] = f
  BY DEF RevokeListed, IInv, SidListInv
<1>2. StoresTyped' /\ Tame
  BY <1>1, TypeParts, IdleStoresAreTame DEF IInv, StoresTyped
<1>3. CodesInv'
  BY <1>1 DEF IInv, CodesInv
<1> QED
  BY <1>1, <1>2, <1>3, StartRevocationStep

\* The members are read: a revocation that nobody overlaps has every exchangeable
\* token of the family on its list.
LEMMA RevokeMembersStep == ASSUME IInv, NEW r \in Req, RevokeMembers(r) PROVE IInv'
<1> DEFINE f == family[r]
<1>1. /\ pc[r] = "revokeMembers" /\ UNCHANGED <<storeVars, holder>>
      /\ UNCHANGED <<callVars, found>>
      /\ pc' = [pc EXCEPT ![r] = "revoking"]
      /\ keys' = [keys EXCEPT ![r] = refreshTokenFamilies[f]]
      /\ quiet' = IF \E q \in Req : Rotating(q, f) THEN quiet ELSE quiet \cup {r}
  BY DEF RevokeMembers
<1>2. f \in Token /\ familyOf[f] = f
  BY <1>1 DEF IInv, RevokeInv
<1>3. CallsTyped' /\ quiet' \subseteq Req
  <2>1. pc' \in [Req -> Points] /\ quiet' \subseteq Req
    BY <1>1 DEF IInv, TypeOK
  <2>2. keys' \in [Req -> SUBSET Token]
    BY <1>1, <1>2 DEF IInv, TypeOK
  <2> QED BY <1>1, <2>1, <2>2, TypeParts DEF IInv, CallsTyped
<1>4. TypeOK' /\ Tame /\ StorePartsInv'
  BY <1>1, <1>3, IdleStores
<1>5. /\ pc'[r] = "revoking" /\ keys'[r] = refreshTokenFamilies[f]
      /\ \A q \in Req \ {r} : Keeps(q)
  BY <1>1 DEF Keeps, IInv, TypeOK
<1>6. ExchangeInv' /\ RotateInv' /\ IndexInv'
  BY <1>4, <1>5, TameCalls
<1>7. RevokeInv'
  BY <1>1, <1>2, <1>5 DEF IInv, RevokeInv, RecordsInv, Keeps, Drawn
<1>8. QuietInv'
  <2>1. r \notin quiet
    BY <1>1 DEF IInv, QuietInv
  <2>2. \A q \in Req, g \in Token : Rotating(q, g)' => Rotating(q, g)
    BY <1>1, <1>5 DEF Rotating, Keeps
  <2>3. \A q \in quiet : family[q] \in Token
    BY DEF IInv, QuietInv, RevokeInv, TypeOK
  <2>4. ASSUME NEW q \in quiet', q # r
        PROVE  /\ q \in quiet /\ pc'[q] = "revoking" /\ family'[q] = family[q]
               /\ keys'[q] = keys[q] /\ found'[q] = found[q]
    BY <1>1, <1>5, <2>4 DEF IInv, QuietInv, TypeOK, Keeps
  <2>5. ASSUME NEW q \in quiet', q # r
        PROVE  /\ \A p \in Req : ~Rotating(p, family[q])'
               /\ \A v \in Token : Issued(v) /\ familyOf[v] = family[q]
                                   /\ refreshTokens[v] = "active"
                                   => v \in keys'[q] \cup found'[q]
    BY <2>2, <2>3, <2>4, <2>5 DEF IInv, QuietInv
  <2>6. ASSUME r \in quiet'
        PROVE  /\ \A p \in Req : ~Rotating(p, f)'
               /\ \A v \in Token : Issued(v) /\ familyOf[v] = f
                                   /\ refreshTokens[v] = "active" => v \in keys'[r]
    BY <1>1, <1>2, <1>5, <2>1, <2>2, <2>6 DEF IInv, HeldTokenIsListed
  <2> QED
    BY <1>1, <1>5, <2>4, <2>5, <2>6 DEF QuietInv, Issued, Rotating
<1> QED
  BY <1>4, <1>6, <1>7, <1>8 DEF IInv, StorePartsInv

\* A record read moves from the keys to read to the records to set; one that is absent
\* is not active, so nothing exchangeable is lost.
LEMMA RevokeGetStep ==
  ASSUME IInv, NEW r \in Req, NEW v \in Token, RevokeGet(r, v) PROVE IInv'
<1>1. /\ pc[r] = "revoking" /\ v \in keys[r] /\ UNCHANGED <<storeVars, holder, quiet, pc>>
      /\ UNCHANGED callVars
      /\ keys' = [keys EXCEPT ![r] = @ \ {v}]
      /\ found' = IF refreshTokens[v] = "absent" THEN found
                  ELSE [found EXCEPT ![r] = @ \cup {v}]
  BY DEF RevokeGet
<1>2. CallsTyped' /\ quiet' \subseteq Req
  BY <1>1 DEF IInv, TypeOK, CallsTyped
<1>3. TypeOK' /\ Tame /\ StorePartsInv'
  BY <1>1, <1>2, IdleStores
<1>4. /\ keys'[r] = keys[r] \ {v}
      /\ found'[r] = IF refreshTokens[v] = "absent" THEN found[r] ELSE found[r] \cup {v}
      /\ \A q \in Req \ {r} : Keeps(q)
  BY <1>1 DEF Keeps, IInv, TypeOK
<1>5. ExchangeInv' /\ RotateInv' /\ IndexInv'
  BY <1>1, <1>3, <1>4, TameCalls
<1>6. RevokeInv'
  BY <1>1, <1>4 DEF IInv, RevokeInv, Keeps, Drawn
<1>7. QuietInv'
  BY <1>1, <1>4 DEF IInv, QuietInv, Keeps, Rotating, Issued
<1> QED
  BY <1>3, <1>5, <1>6, <1>7 DEF IInv, StorePartsInv

\* The revocation is over: its caller answers, or remembers the replayed code.
LEMMA RevokeDoneStep == ASSUME IInv, NEW r \in Req, RevokeDone(r) PROVE IInv'
<1>1. /\ pc[r] = "revoking" /\ keys[r] = {} /\ found[r] = {}
      /\ UNCHANGED <<storeVars, holder>> /\ quiet' = quiet \ {r}
  BY DEF RevokeDone
<1>2. CASE code[r] = NoCode
  BY <1>1, <1>2, ReturnStep DEF RevokeDone
<1>3. CASE code[r] # NoCode
  <2>1. Goto(r, "replayRemember") /\ UNCHANGED localVars
    BY <1>3 DEF RevokeDone
  <2>2. /\ TypeOK' /\ StorePartsInv'
        /\ pc'[r] = "replayRemember" /\ \A q \in Req \ {r} : pc'[q] = pc[q]
    BY <1>1, <2>1, GotoStep
  <2>3. ExchangeInv' /\ IndexInv' /\ RotateInv'
    BY <1>1, <2>1, <2>2 DEF IInv, ExchangeInv, IndexInv, RotateInv, Drawn, ClientOfToken
  <2>4. RevokeInv'
    BY <1>1, <1>3, <2>1, <2>2 DEF IInv, RevokeInv, Drawn
  <2>5. QuietInv'
    BY <1>1, <2>1, <2>2 DEF IInv, QuietInv, Rotating, Issued
  <2> QED
    BY <2>2, <2>3, <2>4, <2>5 DEF IInv, StorePartsInv
<1> QED BY <1>2, <1>3

\* A record is set to revoked, whatever it was: no token becomes active.
LEMMA RevokeSetStep ==
  ASSUME IInv, NEW r \in Req, NEW v \in Token, RevokeSet(r, v) PROVE IInv'
<1>1. /\ pc[r] = "revoking" /\ v \in found[r] /\ keys[r] = {}
      /\ found' = [found EXCEPT ![r] = @ \ {v}]
      /\ refreshTokens' = [refreshTokens EXCEPT ![v] = "revoked"]
      /\ UNCHANGED <<authorizationCodes, codeFamily, familyOf, origin, parent,
                     refreshTokenFamilies, sidRefreshFamilies, holder, quiet, pc>>
      /\ UNCHANGED callVars /\ keys' = keys
  BY DEF RevokeSet
<1>2. Drawn(v)
  BY <1>1 DEF IInv, RevokeInv, Drawn
<1>3. TypeOK'
  BY <1>1 DEF IInv, TypeOK
<1>4. refreshTokens'[v] = "revoked" /\ \A w \in Token \ {v} : refreshTokens'[w] = refreshTokens[w]
  BY <1>1 DEF IInv, TypeOK
<1>5. found'[r] = found[r] \ {v} /\ \A q \in Req \ {r} : Keeps(q)
  BY <1>1 DEF Keeps, IInv, TypeOK
<1>6. Tame
  BY <1>1, <1>2, <1>4 DEF Tame, IInv, RecordsInv
<1>7. RecordsInv' /\ AtMostOneActive' /\ OneGrantPerCredential'
      /\ SentToItsClient' /\ HeldTokenIsListed'
  BY <1>1, <1>3, <1>6, TameStores, TameHolder
<1>8. CodesInv' /\ SidListInv'
  BY <1>1 DEF IInv, CodesInv, SidListInv
<1>9. ExchangeInv' /\ RotateInv' /\ IndexInv'
  BY <1>1, <1>3, <1>5, <1>6, TameCalls
<1>10. RevokeInv'
  BY <1>1, <1>4, <1>5 DEF IInv, RevokeInv, Keeps, Drawn
<1>11. QuietInv'
  BY <1>1, <1>4, <1>5 DEF IInv, QuietInv, Keeps, Rotating, Issued
<1> QED
  BY <1>3, <1>7, <1>8, <1>9, <1>10, <1>11 DEF IInv

\* A used code starts the revocation of its family, a fresh one that passes the
\* checks is in this exchange's hands alone, every other is refused.
LEMMA ExchangeCodeStep ==
  ASSUME IInv, NEW r \in Req, NEW c \in Client, NEW k \in Code, NEW b \in BOOLEAN,
         ExchangeCode(r, c, k, b)
  PROVE  IInv'
<1>1. /\ pc[r] = "idle" /\ authorizationCodes[k] # "unissued"
      /\ authorizationCodes' = [authorizationCodes EXCEPT ![k] = "absent"]
      /\ UNCHANGED <<codeFamily, refreshTokens, familyOf, origin, parent,
                     refreshTokenFamilies, sidRefreshFamilies, holder, quiet>>
  BY DEF ExchangeCode
<1>2. StoresTyped'
  BY <1>1 DEF IInv, TypeOK, StoresTyped
<1>3. /\ authorizationCodes'[k] = "absent"
      /\ \A j \in Code \ {k} : authorizationCodes'[j] = authorizationCodes[j]
  BY <1>1 DEF IInv, TypeOK
<1>4. Tame
  BY <1>1, <1>3 DEF Tame, IInv, RecordsInv
<1>5. CodesInv' /\ SidListInv'
  BY <1>1, <1>3 DEF IInv, CodesInv, SidListInv
<1>6. r \notin quiet
  BY <1>1 DEF IInv, QuietInv
<1>7. CASE authorizationCodes[k] = "used"
  <2>1. StartRevocation(r, codeFamily[k], k)
    BY <1>7 DEF ExchangeCode
  <2>2. /\ codeFamily[k] \in Token /\ familyOf[codeFamily[k]] = codeFamily[k]
        /\ origin[codeFamily[k]] = k
    BY <1>7 DEF IInv, CodesInv
  <2> QED
    BY <1>1, <1>2, <1>4, <1>5, <2>1, <2>2, StartRevocationStep
<1>8. CASE authorizationCodes[k] = "fresh" /\ b /\ ClientOf[k] = c
  <2>1. Continue(r, "exchangeLoad", c, k, NoToken, "absent", NoToken)
    BY <1>8 DEF ExchangeCode
  <2>2. CallsTyped' /\ Moved(r, "exchangeLoad", c, k, NoToken, "absent", NoToken)
    BY <2>1, ContinueMoves, TypeParts DEF IInv
  <2>3. /\ pc'[r] = "exchangeLoad" /\ caller'[r] = c /\ code'[r] = k
        /\ \A q \in Req \ {r} : Keeps(q)
    BY <2>2 DEF Moved, Keeps
  <2>4. TypeOK'
    BY <1>2, <2>2, TypeParts
  <2>5. RecordsInv' /\ AtMostOneActive' /\ OneGrantPerCredential'
        /\ SentToItsClient' /\ HeldTokenIsListed'
    BY <1>1, <1>4, <2>4, TameStores, TameHolder
  <2>6. \A v \in Token : origin[v] # k
    BY <1>8 DEF IInv, CodesInv
  <2>7. \A q \in Req : pc[q] \in {"exchangeLoad", "createStore"} => code[q] # k
    BY <1>8 DEF IInv, ExchangeInv
  <2>8. ExchangeInv'
    BY <1>1, <1>3, <1>8, <2>3, <2>6, <2>7 DEF IInv, ExchangeInv, Keeps
  <2>9. RotateInv' /\ IndexInv'
    BY <1>1, <2>3 DEF IInv, RotateInv, IndexInv, Keeps, Drawn, ClientOfToken
  <2>10. RevokeInv'
    BY <1>4, <2>3, <2>4, TameRevoke
  <2>11. QuietInv'
    BY <1>1, <1>4, <1>6, <2>3, <2>4, TameQuiet
  <2> QED
    BY <1>5, <2>4, <2>5, <2>8, <2>9, <2>10, <2>11 DEF IInv
<1>9. CASE UNCHANGED <<pc, localVars>>
  BY <1>1, <1>2, <1>4, <1>5, <1>9, TameStep
<1> QED
  BY <1>7, <1>8, <1>9 DEF ExchangeCode

\* Codes being issued and keys running out are tame.
LEMMA EnvironmentStep == ASSUME IInv, Environment PROVE IInv'
<1> DEFINE Rest == UNCHANGED <<codeFamily, familyOf, origin, parent, ghostVars, pc, localVars>>
<1>1. ASSUME NEW k \in Code, IssueCode(k) \/ (ExpireCode(k) /\ Rest) PROVE IInv'
  <2>1. /\ UNCHANGED <<codeFamily, refreshTokens, familyOf, origin, parent,
                       refreshTokenFamilies, sidRefreshFamilies, holder, quiet>>
        /\ UNCHANGED <<pc, localVars>>
        /\ \/ /\ authorizationCodes[k] = "unissued"
              /\ authorizationCodes' = [authorizationCodes EXCEPT ![k] = "fresh"]
           \/ authorizationCodes' = [authorizationCodes EXCEPT ![k] = "absent"]
    BY <1>1 DEF IssueCode, ExpireCode, ghostVars
  <2>2. StoresTyped'
    BY <2>1 DEF IInv, TypeOK, StoresTyped
  <2>3. /\ \/ authorizationCodes[k] = "unissued" /\ authorizationCodes'[k] = "fresh"
           \/ authorizationCodes'[k] = "absent"
        /\ \A j \in Code \ {k} : authorizationCodes'[j] = authorizationCodes[j]
    BY <2>1 DEF IInv, TypeOK
  <2>4. Tame
    BY <2>1, <2>3 DEF Tame, IInv, RecordsInv
  <2>5. CodesInv' /\ SidListInv'
    BY <2>1, <2>3 DEF IInv, CodesInv, SidListInv
  <2> QED BY <2>1, <2>2, <2>4, <2>5, TameStep
<1>2. ASSUME NEW s \in Sid, ForgetSid(s), Rest PROVE IInv'
  <2>1. /\ sidRefreshFamilies' = [sidRefreshFamilies EXCEPT ![s] = {}]
        /\ UNCHANGED <<authorizationCodes, codeFamily, refreshTokens, familyOf, origin,
                       parent, refreshTokenFamilies, holder, quiet>>
        /\ UNCHANGED <<pc, localVars>>
    BY <1>2 DEF ForgetSid, ghostVars
  <2>2. StoresTyped'
    BY <2>1 DEF IInv, TypeOK, StoresTyped
  <2>3. Tame /\ CodesInv'
    BY <2>1 DEF Tame, IInv, RecordsInv, CodesInv
  <2>4. SidListInv'
    BY <2>1 DEF IInv, SidListInv, TypeOK
  <2> QED BY <2>1, <2>2, <2>3, <2>4, TameStep
<1>3. ASSUME NEW v \in Token, ExpireToken(v), Rest PROVE IInv'
  <2>1. /\ refreshTokens' = [refreshTokens EXCEPT ![v] = "absent"]
        /\ UNCHANGED <<authorizationCodes, codeFamily, familyOf, origin, parent,
                       refreshTokenFamilies, sidRefreshFamilies, holder, quiet>>
        /\ UNCHANGED <<pc, localVars>>
    BY <1>3 DEF ExpireToken, ghostVars
  <2>2. StoresTyped'
    BY <2>1 DEF IInv, TypeOK, StoresTyped
  <2>3. Tame
    BY <2>1 DEF Tame, IInv, TypeOK, RecordsInv
  <2>4. CodesInv' /\ SidListInv'
    BY <2>1 DEF IInv, CodesInv, SidListInv
  <2> QED BY <2>1, <2>2, <2>3, <2>4, TameStep
<1>4. ASSUME NEW f \in Token, ExpireFamily(f), Rest PROVE IInv'
  <2>1. /\ \A v \in refreshTokenFamilies[f] : refreshTokens[v] # "active"
        /\ refreshTokenFamilies' = [refreshTokenFamilies EXCEPT ![f] = {}]
        /\ UNCHANGED <<authorizationCodes, codeFamily, refreshTokens, familyOf, origin,
                       parent, sidRefreshFamilies, holder, quiet>>
        /\ UNCHANGED <<pc, localVars>>
    BY <1>4 DEF ExpireFamily, ghostVars
  <2>2. StoresTyped'
    BY <2>1 DEF IInv, TypeOK, StoresTyped
  <2>3. /\ refreshTokenFamilies'[f] = {}
        /\ \A g \in Token \ {f} : refreshTokenFamilies'[g] = refreshTokenFamilies[g]
        /\ \A v \in Token : Drawn(v) => familyOf[v] \in Token
    BY <2>1 DEF IInv, TypeOK, Drawn
  <2>4. Tame
    BY <2>1, <2>3 DEF Tame, IInv, RecordsInv
  <2>5. CodesInv' /\ SidListInv'
    BY <2>1 DEF IInv, CodesInv, SidListInv
  <2> QED BY <2>1, <2>2, <2>4, <2>5, TameStep
<1> QED
  BY <1>1, <1>2, <1>3, <1>4 DEF Environment, KeyGoes

\* The new family's set, and the list of the sid, get their entry.
LEMMA CreateIndexFamilyStep ==
  ASSUME IInv, NEW r \in Req, CreateIndexFamily(r) PROVE IInv'
<1> DEFINE v == token[r]
<1>1. /\ \/ pc[r] = "indexBoth" /\ Goto(r, "indexSid")
         \/ pc[r] = "indexFamily" /\ Goto(r, "remember")
      /\ refreshTokenFamilies' =
           [refreshTokenFamilies EXCEPT ![familyOf[v]] = @ \cup {v}]
      /\ UNCHANGED <<authorizationCodes, codeFamily, refreshTokens, familyOf, origin,
                     parent, sidRefreshFamilies, holder, quiet>>
      /\ UNCHANGED localVars
  BY DEF CreateIndexFamily
<1>2. /\ v \in Token /\ Drawn(v) /\ familyOf[v] \in Token
      /\ caller[r] = ClientOfToken(v) /\ code[r] = origin[v]
  <2>1. v \in Token /\ Drawn(v) /\ caller[r] = ClientOfToken(v) /\ code[r] = origin[v]
    BY <1>1 DEF IInv, IndexInv
  <2> QED BY <2>1 DEF IInv, TypeOK, Drawn
<1>3. /\ CallsTyped' /\ pc'[r] \in {"indexSid", "remember"}
      /\ \A q \in Req \ {r} : pc'[q] = pc[q]
  BY <1>1, GotoMoves, TypeParts DEF IInv
<1>4. TypeOK'
  <2>1. refreshTokenFamilies' \in [Token -> SUBSET Token]
    BY <1>1, <1>2 DEF IInv, TypeOK
  <2> QED BY <1>1, <1>3, <2>1, TypeParts DEF IInv, StoresTyped
<1>5. /\ refreshTokenFamilies'[familyOf[v]] = refreshTokenFamilies[familyOf[v]] \cup {v}
      /\ \A g \in Token \ {familyOf[v]} : refreshTokenFamilies'[g] = refreshTokenFamilies[g]
  BY <1>1, <1>2 DEF IInv, TypeOK
<1>6. Tame
  BY <1>1, <1>2, <1>5 DEF Tame, IInv, RecordsInv
<1>7. RecordsInv' /\ AtMostOneActive' /\ OneGrantPerCredential'
      /\ SentToItsClient' /\ HeldTokenIsListed'
  BY <1>1, <1>4, <1>6, TameStores, TameHolder
<1>8. CodesInv' /\ SidListInv'
  BY <1>1 DEF IInv, CodesInv, SidListInv
<1>9. ExchangeInv' /\ RotateInv' /\ RevokeInv'
  BY <1>1, <1>3 DEF IInv, ExchangeInv, RotateInv, RevokeInv, Drawn, ClientOfToken
<1>10. IndexInv'
  BY <1>1, <1>2, <1>3, <1>5, <1>6 DEF IInv, IndexInv, Tame, Drawn, ClientOfToken
<1>11. QuietInv'
  <2>1. \A q \in Req, g \in Token : Rotating(q, g)' => Rotating(q, g)
    BY <1>1, <1>3 DEF Rotating
  <2>2. r \notin quiet /\ \A q \in quiet : q \in Req /\ family[q] \in Token
    BY <1>1 DEF IInv, QuietInv, RevokeInv, TypeOK
  <2>3. ASSUME NEW q \in quiet'
        PROVE  /\ pc'[q] = "revoking" /\ \A z \in Req : ~Rotating(z, family[q])'
               /\ \A w \in Token : Issued(w)' /\ familyOf[w] = family[q]
                                   /\ refreshTokens[w] = "active"
                                   => w \in keys[q] \cup found[q]
    BY <1>1, <1>3, <2>1, <2>2 DEF IInv, QuietInv, Issued
  <2> QED BY <1>1, <2>3 DEF QuietInv, Rotating, Issued
<1> QED
  BY <1>4, <1>7, <1>8, <1>9, <1>10, <1>11 DEF IInv

\* The list of the sid gets the new family, under its right name.
LEMMA CreateIndexSidStep ==
  ASSUME IInv, NEW r \in Req, CreateIndexSid(r) PROVE IInv'
<1> DEFINE v == token[r]
           s == SidOfToken(v)
<1>1. /\ \/ pc[r] = "indexBoth" /\ Goto(r, "indexFamily")
         \/ pc[r] = "indexSid" /\ Goto(r, "remember")
      /\ sidRefreshFamilies' = [sidRefreshFamilies EXCEPT ![s] = @ \cup {familyOf[v]}]
      /\ UNCHANGED <<authorizationCodes, codeFamily, refreshTokens, familyOf, origin,
                     parent, refreshTokenFamilies, holder, quiet>>
      /\ UNCHANGED localVars
  BY DEF CreateIndexSid
<1>2. /\ v \in Token /\ Drawn(v) /\ familyOf[v] \in Token /\ s \in Sid
      /\ familyOf[familyOf[v]] = familyOf[v]
      /\ caller[r] = ClientOfToken(v) /\ code[r] = origin[v]
  <2>1. v \in Token /\ Drawn(v) /\ caller[r] = ClientOfToken(v) /\ code[r] = origin[v]
    BY <1>1 DEF IInv, IndexInv
  <2>2. familyOf[familyOf[v]] = familyOf[v] /\ origin[v] \in Code
    BY <2>1 DEF IInv, RecordsInv
  <2> QED BY <2>1, <2>2 DEF IInv, TypeOK, Drawn, SidOfToken
<1>3. /\ CallsTyped' /\ pc'[r] \in {"indexFamily", "remember"}
      /\ pc'[r] = "remember" => pc[r] = "indexSid"
      /\ \A q \in Req \ {r} : pc'[q] = pc[q]
  BY <1>1, GotoMoves, TypeParts DEF IInv
<1>4. TypeOK'
  <2>1. sidRefreshFamilies' \in [Sid -> SUBSET Token]
    BY <1>1, <1>2 DEF IInv, TypeOK
  <2> QED BY <1>1, <1>3, <2>1, TypeParts DEF IInv, StoresTyped
<1>5. /\ sidRefreshFamilies'[s] = sidRefreshFamilies[s] \cup {familyOf[v]}
      /\ \A z \in Sid \ {s} : sidRefreshFamilies'[z] = sidRefreshFamilies[z]
  BY <1>1, <1>2 DEF IInv, TypeOK
<1>6. Tame
  BY <1>1 DEF Tame, IInv, RecordsInv
<1>7. RecordsInv' /\ AtMostOneActive' /\ OneGrantPerCredential'
      /\ SentToItsClient' /\ HeldTokenIsListed'
  BY <1>1, <1>4, <1>6, TameStores, TameHolder
<1>8. CodesInv' /\ SidListInv'
  BY <1>1, <1>2, <1>5 DEF IInv, CodesInv, SidListInv
<1>9. ExchangeInv' /\ RotateInv' /\ RevokeInv'
  BY <1>1, <1>3 DEF IInv, ExchangeInv, RotateInv, RevokeInv, Drawn, ClientOfToken
<1>10. IndexInv'
  BY <1>1, <1>2, <1>3 DEF IInv, IndexInv, Drawn, ClientOfToken
<1>11. QuietInv'
  <2>1. \A q \in Req, g \in Token : Rotating(q, g)' => Rotating(q, g)
    BY <1>1, <1>3 DEF Rotating
  <2>2. r \notin quiet /\ \A q \in quiet : q \in Req /\ family[q] \in Token
    BY <1>1 DEF IInv, QuietInv, RevokeInv, TypeOK
  <2>3. ASSUME NEW q \in quiet'
        PROVE  /\ pc'[q] = "revoking" /\ \A z \in Req : ~Rotating(z, family[q])'
               /\ \A w \in Token : Issued(w)' /\ familyOf[w] = family[q]
                                   /\ refreshTokens[w] = "active"
                                   => w \in keys[q] \cup found[q]
    BY <1>1, <1>3, <2>1, <2>2 DEF IInv, QuietInv, Issued
  <2> QED BY <1>1, <2>3 DEF QuietInv, Rotating, Issued
<1> QED
  BY <1>4, <1>7, <1>8, <1>9, <1>10, <1>11 DEF IInv

\* The response carries the token to its client, and the invocation is over.
LEMMA HandOutStep ==
  ASSUME IInv, NEW r \in Req, pc[r] \in {"remember", "rotateIndex"},
         holder' = [holder EXCEPT ![token[r]] = caller[r]], Return(r),
         Tame, StoresTyped', CodesInv', SidListInv', quiet' = quiet,
         refreshTokens'[token[r]] = "active"
           => token[r] \in refreshTokenFamilies'[familyOf[token[r]]]
  PROVE  IInv'
<1> DEFINE v == token[r]
<1>1. /\ v \in Token /\ Drawn(v) /\ caller[r] = ClientOfToken(v)
      /\ Rotating(r, familyOf[v])
  BY DEF IInv, IndexInv, Rotating
<1>2. /\ holder'[v] = ClientOfToken(v)
      /\ \A w \in Token \ {v} : holder'[w] = holder[w]
  BY <1>1 DEF IInv, TypeOK
<1>3. CallsTyped' /\ \A q \in Req : Keeps(q) \/ (q = r /\ pc'[q] = "idle")
  BY ReturnMoves, TypeParts DEF IInv, Moved, Keeps
<1>4. TypeOK'
  BY <1>3, TypeParts
<1>5. RecordsInv' /\ AtMostOneActive' /\ OneGrantPerCredential'
  BY <1>4, TameStores
<1>6. SentToItsClient'
  BY <1>1, <1>2 DEF IInv, SentToItsClient, Tame, Issued, ClientOfToken
<1>7. HeldTokenIsListed'
  BY <1>1, <1>2 DEF IInv, HeldTokenIsListed, Tame, Issued
<1>8. ExchangeInv' /\ RotateInv' /\ IndexInv' /\ RevokeInv'
  BY <1>3, <1>4, TameCalls, TameRevoke
<1>9. QuietInv'
  <2>1. /\ r \notin quiet
        /\ \A q \in quiet : q \in Req /\ family[q] # familyOf[v]
    BY <1>1 DEF IInv, QuietInv, TypeOK
  <2>2. \A q \in Req, g \in Token \cup {NoToken} : Rotating(q, g)' => Rotating(q, g)
    BY <1>3 DEF Rotating, Tame, Keeps
  <2>3. \A q \in quiet : pc[q] = "revoking" /\ Keeps(q) /\ family[q] \in Token \cup {NoToken}
    BY <1>3, <2>1 DEF IInv, QuietInv, TypeOK
  <2>4. ASSUME NEW q \in quiet, NEW w \in Token, Issued(w)', familyOf[w] = family[q],
               refreshTokens'[w] = "active"
        PROVE  w \in keys[q] \cup found[q]
    BY <1>2, <2>1, <2>4 DEF IInv, QuietInv, Tame, Issued
  <2>5. \A q \in quiet, z \in Req : pc'[z] \in RotatePoints \cup IndexPoints
                                    => familyOf'[token'[z]] # family[q]
    BY <2>2, <2>3 DEF IInv, QuietInv, Rotating
  <2>6. \A q \in quiet : family'[q] = family[q] /\ keys'[q] = keys[q]
                          /\ found'[q] = found[q] /\ pc'[q] = "revoking"
    BY <2>3 DEF Keeps
  <2> QED
    BY <2>4, <2>5, <2>6 DEF QuietInv, Tame, Rotating
<1> QED
  BY <1>4, <1>5, <1>6, <1>7, <1>8, <1>9 DEF IInv

\* The exchange ends: its code is remembered with the family it started.
LEMMA RememberStep == ASSUME IInv, NEW r \in Req, Remember(r) PROVE IInv'
<1> DEFINE v == token[r]
           k == code[r]
<1>1. /\ pc[r] = "remember" /\ Return(r)
      /\ authorizationCodes' = [authorizationCodes EXCEPT ![k] = "used"]
      /\ codeFamily' = [codeFamily EXCEPT ![k] = familyOf[v]]
      /\ holder' = [holder EXCEPT ![v] = caller[r]]
      /\ UNCHANGED <<refreshTokens, familyOf, origin, parent, refreshTokenFamilies,
                     sidRefreshFamilies, quiet>>
  BY DEF Remember
<1>2. /\ v \in Token /\ Drawn(v) /\ k = origin[v] /\ caller[r] = ClientOfToken(v)
      /\ refreshTokens[v] = "active" => v \in refreshTokenFamilies[familyOf[v]]
  BY <1>1 DEF IInv, IndexInv
<1>3. /\ k \in Code /\ familyOf[familyOf[v]] = familyOf[v]
      /\ origin[familyOf[v]] = k
  BY <1>2 DEF IInv, RecordsInv
<1>4. familyOf[v] \in Token
  BY <1>2 DEF IInv, TypeOK, Drawn
<1>5. StoresTyped'
  <2>1. caller[r] \in Client
    BY <1>2, <1>3 DEF ClientOfToken
  <2>2. /\ authorizationCodes' \in [Code -> CodeStatus]
        /\ codeFamily' \in [Code -> Token \cup {NoToken}]
    BY <1>1, <1>3, <1>4 DEF IInv, TypeOK
  <2>3. holder' \in [Token -> Client \cup {NoClient}]
    BY <1>1, <1>2, <2>1 DEF IInv, TypeOK
  <2> QED BY <1>1, <2>2, <2>3, TypeParts DEF IInv, StoresTyped
<1>6. /\ authorizationCodes'[k] = "used" /\ codeFamily'[k] = familyOf[v]
      /\ \A j \in Code \ {k} : /\ authorizationCodes'[j] = authorizationCodes[j]
                                /\ codeFamily'[j] = codeFamily[j]
      /\ \A w \in Token \ {v} : holder'[w] = holder[w]
  BY <1>1, <1>2, <1>3 DEF IInv, TypeOK
<1>7. Tame
  BY <1>1, <1>2, <1>6 DEF Tame, IInv, RecordsInv
<1>8. CodesInv' /\ SidListInv'
  BY <1>1, <1>3, <1>4, <1>6 DEF IInv, CodesInv, SidListInv
<1> QED
  BY <1>1, <1>2, <1>5, <1>7, <1>8, HandOutStep

\* A replay ends: the code is remembered with the family it had.
LEMMA ReplayRememberStep == ASSUME IInv, NEW r \in Req, ReplayRemember(r) PROVE IInv'
<1> DEFINE f == family[r]
           k == code[r]
<1>1. /\ pc[r] = "replayRemember" /\ Return(r)
      /\ authorizationCodes' = [authorizationCodes EXCEPT ![k] = "used"]
      /\ codeFamily' = [codeFamily EXCEPT ![k] = f]
      /\ UNCHANGED <<refreshTokens, familyOf, origin, parent, refreshTokenFamilies,
                     sidRefreshFamilies, holder, quiet>>
  BY DEF ReplayRemember
<1>2. k # NoCode /\ f \in Token /\ familyOf[f] = f /\ origin[f] = k
  BY <1>1 DEF IInv, RevokeInv
<1>3. k \in Code
  BY <1>2 DEF IInv, TypeOK
<1>4. StoresTyped'
  BY <1>1, <1>2, <1>3 DEF IInv, TypeOK, StoresTyped
<1>5. /\ authorizationCodes'[k] = "used" /\ codeFamily'[k] = f
      /\ \A j \in Code \ {k} : /\ authorizationCodes'[j] = authorizationCodes[j]
                                /\ codeFamily'[j] = codeFamily[j]
  BY <1>1, <1>2, <1>3 DEF IInv, TypeOK
<1>6. Tame
  BY <1>1, <1>5 DEF Tame, IInv, RecordsInv
<1>7. CodesInv' /\ SidListInv'
  BY <1>1, <1>2, <1>3, <1>5 DEF IInv, CodesInv, SidListInv
<1>8. CallsTyped' /\ \A q \in Req : Keeps(q) \/ (q = r /\ pc'[q] = "idle")
  BY <1>1, ReturnMoves, TypeParts DEF IInv, Moved, Keeps
<1>9. TypeOK'
  BY <1>4, <1>8, TypeParts
<1>10. r \notin quiet
  BY <1>1 DEF IInv, QuietInv
<1>11. RecordsInv' /\ AtMostOneActive' /\ OneGrantPerCredential'
       /\ SentToItsClient' /\ HeldTokenIsListed'
  BY <1>1, <1>6, <1>9, TameStores, TameHolder
<1>12. ExchangeInv' /\ RotateInv' /\ IndexInv' /\ RevokeInv' /\ QuietInv'
  BY <1>1, <1>6, <1>8, <1>9, <1>10, TameCalls, TameRevoke, TameQuiet
<1> QED
  BY <1>7, <1>9, <1>11, <1>12 DEF IInv

\* The refresh ends: the new token is listed, and sent if it was signed for.
LEMMA RotateIndexStep ==
  ASSUME IInv, NEW r \in Req, NEW b \in BOOLEAN, RotateIndex(r, b) PROVE IInv'
<1> DEFINE v == token[r]
<1>1. /\ pc[r] = "rotateIndex" /\ Return(r)
      /\ refreshTokenFamilies' =
           [refreshTokenFamilies EXCEPT ![familyOf[v]] = @ \cup {v}]
      /\ holder' = [holder EXCEPT ![v] = caller[r]] \/ holder' = holder
      /\ UNCHANGED <<authorizationCodes, codeFamily, refreshTokens, familyOf, origin,
                     parent, sidRefreshFamilies, quiet>>
  BY DEF RotateIndex
<1>2. /\ v \in Token /\ Drawn(v) /\ familyOf[v] \in Token
      /\ caller[r] = ClientOfToken(v) /\ caller[r] \in Client
  <2>1. v \in Token /\ Drawn(v) /\ caller[r] = ClientOfToken(v)
    BY <1>1 DEF IInv, IndexInv
  <2>2. origin[v] \in Code
    BY <2>1 DEF IInv, RecordsInv
  <2> QED BY <2>1, <2>2 DEF IInv, TypeOK, Drawn, ClientOfToken
<1>3. StoresTyped'
  <2>1. refreshTokenFamilies' \in [Token -> SUBSET Token]
    BY <1>1, <1>2 DEF IInv, TypeOK
  <2>2. holder' \in [Token -> Client \cup {NoClient}]
    BY <1>1, <1>2 DEF IInv, TypeOK
  <2> QED BY <1>1, <2>1, <2>2, TypeParts DEF IInv, StoresTyped
<1>4. /\ refreshTokenFamilies'[familyOf[v]] = refreshTokenFamilies[familyOf[v]] \cup {v}
      /\ \A g \in Token \ {familyOf[v]} : refreshTokenFamilies'[g] = refreshTokenFamilies[g]
      /\ \A w \in Token \ {v} : holder'[w] = holder[w]
  BY <1>1, <1>2 DEF IInv, TypeOK
<1>5. Tame
  BY <1>1, <1>2, <1>4 DEF Tame, IInv, RecordsInv
<1>6. CodesInv' /\ SidListInv'
  BY <1>1 DEF IInv, CodesInv, SidListInv
<1>7. CASE holder' = [holder EXCEPT ![v] = caller[r]]
  BY <1>1, <1>3, <1>4, <1>5, <1>6, <1>7, HandOutStep
<1>8. CASE holder' = holder
  <2>1. CallsTyped' /\ \A q \in Req : Keeps(q) \/ (q = r /\ pc'[q] = "idle")
    BY <1>1, ReturnMoves, TypeParts DEF IInv, Moved, Keeps
  <2>2. TypeOK' /\ r \notin quiet
    BY <1>1, <1>3, <2>1, TypeParts DEF IInv, QuietInv
  <2>3. RecordsInv' /\ AtMostOneActive' /\ OneGrantPerCredential'
        /\ SentToItsClient' /\ HeldTokenIsListed'
    BY <1>5, <1>8, <2>2, TameStores, TameHolder
  <2>4. ExchangeInv' /\ RotateInv' /\ IndexInv' /\ RevokeInv' /\ QuietInv'
    BY <1>1, <1>5, <1>8, <2>1, <2>2, TameCalls, TameRevoke, TameQuiet
  <2> QED
    BY <1>6, <2>2, <2>3, <2>4 DEF IInv
<1> QED BY <1>1, <1>7, <1>8

\* What a record taken out of the store allows: an active one makes its invocation
\* the only one to rotate the family; any other is put back by its invocation.
LEMMA ConsumeStep ==
  ASSUME IInv, NEW r \in Req, NEW c \in Client, NEW v \in Token, Consume(r, c, v)
  PROVE  IInv'
<1> DEFINE f == familyOf[v]
           point == IF refreshTokens[v] = "active" THEN "rotateWriteBack"
                                                  ELSE "reuseWriteBack"
<1>1. /\ pc[r] = "idle" /\ Issued(v)
      /\ refreshTokens' = [refreshTokens EXCEPT ![v] = "absent"]
      /\ quiet' = IF refreshTokens[v] = "active"
                    THEN {q \in quiet : family[q] # f} ELSE quiet
      /\ UNCHANGED <<authorizationCodes, codeFamily, familyOf, origin, parent,
                     refreshTokenFamilies, sidRefreshFamilies, holder>>
  BY DEF Consume
<1>2. Drawn(v)
  BY <1>1 DEF IInv, RecordsInv, Issued
<1>3. StoresTyped'
  BY <1>1 DEF IInv, TypeOK, StoresTyped
<1>4. /\ refreshTokens'[v] = "absent"
      /\ \A w \in Token \ {v} : refreshTokens'[w] = refreshTokens[w]
      /\ refreshTokens[v] \in TokenStatus
  BY <1>1 DEF IInv, TypeOK
<1>5. Tame
  BY <1>1, <1>4 DEF Tame, IInv, RecordsInv
<1>6. CodesInv' /\ SidListInv'
  BY <1>1 DEF IInv, CodesInv, SidListInv
<1>7. CASE refreshTokens[v] = "absent"
  <2>1. UNCHANGED <<pc, localVars>> /\ quiet' = quiet
    BY <1>1, <1>7 DEF Consume
  <2> QED BY <1>1, <1>3, <1>5, <1>6, <2>1, TameStep
<1>8. CASE refreshTokens[v] # "absent"
  <2>1. Continue(r, point, c, NoCode, v, refreshTokens[v], NoToken)
    BY <1>8 DEF Consume
  <2>2. CallsTyped' /\ Moved(r, point, c, NoCode, v, refreshTokens[v], NoToken)
    BY <1>4, <2>1, ContinueMoves, TypeParts DEF IInv
  <2>3. /\ pc'[r] = point /\ token'[r] = v /\ stored'[r] = refreshTokens[v]
        /\ \A q \in Req \ {r} : Keeps(q)
    BY <2>2 DEF Moved, Keeps
  <2>4. TypeOK'
    BY <1>3, <2>2, TypeParts
  <2>5. RecordsInv' /\ AtMostOneActive' /\ OneGrantPerCredential'
        /\ SentToItsClient' /\ HeldTokenIsListed'
    BY <1>1, <1>5, <2>4, TameStores, TameHolder
  <2>6. ExchangeInv' /\ IndexInv'
    BY <1>1, <1>4, <2>3 DEF IInv, ExchangeInv, IndexInv, Keeps, Drawn, ClientOfToken
  <2>7. RotateInv'
    <3>1. ASSUME refreshTokens[v] = "active"
          PROVE  /\ \A w \in Token : parent[w] # v
                 /\ \A w \in Token : familyOf[w] = f => refreshTokens'[w] # "active"
                 /\ \A q \in Req : pc[q] \in RotatePoints => familyOf[token[q]] # f
      BY <1>4, <3>1 DEF IInv, RecordsInv, AtMostOneActive, RotateInv
    <3> QED
      BY <1>1, <1>2, <1>4, <2>3, <3>1 DEF IInv, RotateInv, Keeps, Drawn, ClientOfToken
  <2>8. RevokeInv'
    BY <1>1, <1>2, <1>4, <2>3 DEF IInv, RevokeInv, Keeps, Drawn
  <2>9. QuietInv'
    <3>1. r \notin quiet /\ quiet' \subseteq quiet /\ quiet \subseteq Req
      BY <1>1 DEF IInv, QuietInv, TypeOK
    <3>2. \A q \in quiet', z \in Req : pc'[z] \in RotatePoints \cup IndexPoints
                                       => familyOf'[token'[z]] # family[q]
      <4>1. \A z \in Req \ {r}, g \in Token \cup {NoToken} : Rotating(z, g)' => Rotating(z, g)
        BY <1>1, <2>3 DEF Rotating, Keeps
      <4>2. \A q \in quiet' : pc'[r] \in RotatePoints => familyOf'[token'[r]] # family[q]
        BY <1>1, <2>3
      <4>3. \A q \in quiet : family[q] \in Token \cup {NoToken}
        BY <3>1 DEF IInv, TypeOK
      <4> QED BY <2>3, <3>1, <4>1, <4>2, <4>3 DEF IInv, QuietInv, Rotating
    <3>3. \A q \in quiet' : Keeps(q)
      BY <2>3, <3>1
    <3>4. \A q \in quiet' : family'[q] = family[q] /\ keys'[q] = keys[q]
                             /\ found'[q] = found[q] /\ pc'[q] = pc[q]
      BY <3>3 DEF Keeps
    <3>5. \A q \in quiet', w \in Token :
             Issued(w) /\ familyOf[w] = family[q] /\ refreshTokens'[w] = "active"
               => w \in keys[q] \cup found[q]
      BY <1>5, <3>1 DEF IInv, QuietInv, Tame
    <3>6. \A q \in quiet' : pc[q] = "revoking"
      BY <3>1 DEF IInv, QuietInv
    <3> QED
      BY <1>1, <3>2, <3>4, <3>5, <3>6 DEF QuietInv, Issued, Rotating
  <2> QED
    BY <1>6, <2>4, <2>5, <2>6, <2>7, <2>8, <2>9 DEF IInv
<1> QED BY <1>7, <1>8

\* The write-back of a record that was not active does not make it active.
LEMMA ReuseWriteBackStep == ASSUME IInv, NEW r \in Req, ReuseWriteBack(r) PROVE IInv'
<1> DEFINE v == token[r]
<1>1. /\ pc[r] = "reuseWriteBack"
      /\ refreshTokens' = [refreshTokens EXCEPT ![v] = stored[r]]
      /\ StartRevocation(r, familyOf[v], NoCode)
      /\ UNCHANGED <<authorizationCodes, codeFamily, familyOf, origin, parent,
                     refreshTokenFamilies, sidRefreshFamilies, holder, quiet>>
  BY DEF ReuseWriteBack
<1>2. /\ v \in Token /\ Drawn(v) /\ stored[r] # "active"
  BY <1>1 DEF IInv, RevokeInv
<1>3. familyOf[v] \in Token /\ familyOf[familyOf[v]] = familyOf[v]
  BY <1>2 DEF IInv, RecordsInv, Drawn, TypeOK
<1>4. StoresTyped'
  BY <1>1, <1>2 DEF IInv, TypeOK, StoresTyped
<1>5. /\ refreshTokens'[v] = stored[r]
      /\ \A w \in Token \ {v} : refreshTokens'[w] = refreshTokens[w]
  BY <1>1, <1>2 DEF IInv, TypeOK
<1>6. Tame
  BY <1>1, <1>2, <1>5 DEF Tame, IInv, RecordsInv
<1>7. CodesInv'
  BY <1>1 DEF IInv, CodesInv
<1> QED
  BY <1>1, <1>3, <1>4, <1>6, <1>7, StartRevocationStep

\* The write-back of a consumed token makes it rotated; only its client goes on.
LEMMA RotateWriteBackStep == ASSUME IInv, NEW r \in Req, RotateWriteBack(r) PROVE IInv'
<1> DEFINE v == token[r]
<1>1. /\ pc[r] = "rotateWriteBack"
      /\ refreshTokens' = [refreshTokens EXCEPT ![v] = "rotated"]
      /\ UNCHANGED <<authorizationCodes, codeFamily, familyOf, origin, parent,
                     refreshTokenFamilies, sidRefreshFamilies, holder, quiet>>
  BY DEF RotateWriteBack
<1>2. v \in Token /\ Drawn(v)
  BY <1>1 DEF IInv, RotateInv
<1>3. familyOf[v] \in Token /\ familyOf[familyOf[v]] = familyOf[v]
  BY <1>2 DEF IInv, RecordsInv, Drawn, TypeOK
<1>4. StoresTyped'
  BY <1>1, <1>2 DEF IInv, TypeOK, StoresTyped
<1>5. /\ refreshTokens'[v] = "rotated"
      /\ \A w \in Token \ {v} : refreshTokens'[w] = refreshTokens[w]
  BY <1>1, <1>2 DEF IInv, TypeOK
<1>6. Tame
  BY <1>1, <1>2, <1>5 DEF Tame, IInv, RecordsInv
<1>7. CodesInv' /\ SidListInv'
  BY <1>1 DEF IInv, CodesInv, SidListInv
<1>8. CASE ClientOfToken(v) # caller[r]
  <2>1. StartRevocation(r, familyOf[v], NoCode)
    BY <1>8 DEF RotateWriteBack, RefuseRefresh
  <2> QED
    BY <1>1, <1>3, <1>4, <1>6, <1>7, <2>1, StartRevocationStep
<1>9. CASE ClientOfToken(v) = caller[r]
  <2>1. Goto(r, "refreshSession") /\ UNCHANGED localVars
    BY <1>9 DEF RotateWriteBack
  <2>2. CallsTyped' /\ pc'[r] = "refreshSession" /\ \A q \in Req \ {r} : pc'[q] = pc[q]
    BY <2>1, GotoMoves, TypeParts DEF IInv
  <2>3. TypeOK'
    BY <1>4, <2>2, TypeParts
  <2>4. RecordsInv' /\ AtMostOneActive' /\ OneGrantPerCredential'
        /\ SentToItsClient' /\ HeldTokenIsListed'
    BY <1>1, <1>6, <2>3, TameStores, TameHolder
  <2>5. ExchangeInv' /\ IndexInv'
    BY <1>1, <1>5, <2>1, <2>2 DEF IInv, ExchangeInv, IndexInv, Drawn, ClientOfToken
  <2>6. RotateInv'
    BY <1>1, <1>5, <1>9, <2>1, <2>2 DEF IInv, RotateInv, Drawn, ClientOfToken
  <2>7. RevokeInv'
    BY <1>1, <1>5, <2>1, <2>2 DEF IInv, RevokeInv, Drawn
  <2>8. QuietInv'
    BY <1>1, <1>5, <2>1, <2>2 DEF IInv, QuietInv, Rotating, Issued
  <2> QED
    BY <1>7, <2>3, <2>4, <2>5, <2>6, <2>7, <2>8 DEF IInv
<1> QED BY <1>8, <1>9

\* When r may store v: nothing in family f can be exchanged, nobody else has the
\* right to add to it, and its predecessor p and code k have not led to a token.
MayStore(r, v, f, k, p) ==
    /\ pc[r] # "revoking"
    /\ caller[r] = ClientOf[k]
    /\ f = v \/ (familyOf[f] = f /\ origin[f] = k)
    /\ p # NoToken => familyOf[p] = f
    /\ authorizationCodes[k] \notin {"unissued", "fresh"}
    /\ \A w \in Token : familyOf[w] = f => refreshTokens[w] # "active"
    /\ \A w \in Token : ~(Drawn(w) /\ parent[w] = p /\ origin[w] = k)
    /\ \A q \in Req \ {r} :
         /\ pc[q] \in RotatePoints => familyOf[token[q]] # f
         /\ pc[q] \in {"exchangeLoad", "createStore"} => code[q] # k
    /\ \A q \in quiet : family[q] # f

\* storeRefreshToken keeps the invariant under MayStore.
LEMMA StoreStep ==
  ASSUME IInv, NEW r \in Req, NEW v \in Token, NEW f \in Token, NEW k \in Code,
         NEW p \in Token \cup {NoToken}, NEW point \in {"indexBoth", "rotateIndex"},
         MayStore(r, v, f, k, p), storeRefreshToken(r, v, f, k, p),
         pc' = [pc EXCEPT ![r] = point],
         point = "indexBoth" => code[r] = k
  PROVE  IInv'
<1> USE DEF MayStore
<1>1. /\ ~Drawn(v)
      /\ refreshTokens' = [refreshTokens EXCEPT ![v] = "active"]
      /\ familyOf' = [familyOf EXCEPT ![v] = f]
      /\ origin' = [origin EXCEPT ![v] = k]
      /\ parent' = [parent EXCEPT ![v] = p]
      /\ token' = [token EXCEPT ![r] = v]
      /\ UNCHANGED <<authorizationCodes, codeFamily, refreshTokenFamilies,
                     sidRefreshFamilies, holder, quiet, caller, code, stored, family,
                     keys, found>>
  BY DEF storeRefreshToken
<1>2. TypeOK'
  <2>1. StoresTyped'
    BY <1>1 DEF IInv, TypeOK, StoresTyped
  <2>2. CallsTyped'
    BY <1>1 DEF IInv, TypeOK, CallsTyped
  <2> QED BY <2>1, <2>2, TypeParts
<1>3. /\ refreshTokens'[v] = "active" /\ familyOf'[v] = f /\ origin'[v] = k /\ parent'[v] = p
      /\ \A w \in Token \ {v} : /\ refreshTokens'[w] = refreshTokens[w]
                                /\ familyOf'[w] = familyOf[w]
                                /\ origin'[w] = origin[w] /\ parent'[w] = parent[w]
  BY <1>1 DEF IInv, TypeOK
<1>4. /\ pc'[r] = point /\ token'[r] = v
      /\ \A q \in Req \ {r} : pc'[q] = pc[q] /\ token'[q] = token[q]
  BY <1>1 DEF IInv, TypeOK
<1>5. /\ refreshTokens[v] = "absent" /\ holder[v] = NoClient /\ familyOf[v] = NoToken
  BY <1>1 DEF IInv, RecordsInv, Drawn
<1>6. /\ \A w \in Token : familyOf[w] # v /\ parent[w] # v
      /\ \A g \in Token : v \notin refreshTokenFamilies[g]
  <2>1. \A w \in Token : Drawn(w) => familyOf[familyOf[w]] = familyOf[w] /\ familyOf[w] # NoToken
    BY DEF IInv, RecordsInv, Drawn
  <2>2. \A w \in Token : parent[w] # NoToken => Drawn(w) /\ familyOf[parent[w]] = familyOf[w]
    BY DEF IInv, RecordsInv
  <2>3. \A g \in Token : \A w \in refreshTokenFamilies[g] : familyOf[w] = g
    BY DEF IInv, RecordsInv
  <2> QED BY <1>5, <2>1, <2>2, <2>3 DEF Drawn
<1>7. familyOf'[f] = f /\ origin'[f] = k /\ (p # NoToken => p # v)
  BY <1>3, <1>5
<1>8. RecordsInv'
  <2>1. ASSUME NEW w \in Token \ {v}, familyOf[w] # NoToken
        PROVE  /\ origin'[w] \in Code /\ familyOf'[familyOf'[w]] = familyOf'[w]
               /\ origin'[familyOf'[w]] = origin'[w]
    <3>1. familyOf[w] \in Token \ {v}
      BY <1>6, <2>1 DEF IInv, TypeOK
    <3> QED BY <1>3, <2>1, <3>1 DEF IInv, RecordsInv, Drawn
  <2>2. ASSUME NEW w \in Token \ {v}, parent[w] # NoToken
        PROVE  /\ familyOf'[parent'[w]] = familyOf'[w]
               /\ refreshTokens'[parent'[w]] # "active"
    <3>1. parent[w] \in Token \ {v}
      BY <1>6, <2>2 DEF IInv, TypeOK
    <3> QED BY <1>3, <2>2, <3>1 DEF IInv, RecordsInv
  <2>3. p # NoToken => familyOf'[p] = f /\ refreshTokens'[p] # "active"
    BY <1>3, <1>7
  <2>4. \A w \in Token \ {v} : ~Drawn(w) => /\ refreshTokens'[w] = "absent"
                                           /\ holder'[w] = NoClient
                                           /\ origin'[w] = NoCode
                                           /\ parent'[w] = NoToken
    BY <1>1, <1>3 DEF IInv, RecordsInv
  <2>5. \A g \in Token : \A w \in refreshTokenFamilies'[g] : familyOf'[w] = g
    BY <1>1, <1>3, <1>6 DEF IInv, RecordsInv, TypeOK
  <2> QED
    BY <1>3, <1>7, <2>1, <2>2, <2>3, <2>4, <2>5 DEF RecordsInv, Drawn
<1>9. CodesInv'
  <2>1. ASSUME NEW j \in Code, authorizationCodes[j] = "used"
        PROVE  codeFamily[j] \in Token \ {v}
    BY <1>5, <2>1 DEF IInv, CodesInv
  <2> QED
    BY <1>1, <1>3, <2>1 DEF IInv, CodesInv
<1>10. ExchangeInv'
  BY <1>1, <1>3, <1>4 DEF IInv, ExchangeInv
<1>11. RotateInv'
  <2>1. ASSUME NEW q \in Req \ {r}, pc[q] \in RotatePoints
        PROVE  token[q] \in Token \ {v} /\ token[q] # p
    BY <1>1, <2>1 DEF IInv, RotateInv
  <2> QED
    BY <1>1, <1>3, <1>4, <1>6, <2>1 DEF IInv, RotateInv, Drawn, ClientOfToken
<1>12. IndexInv'
  <2>1. ASSUME NEW q \in Req \ {r}, pc[q] \in IndexPoints
        PROVE  token[q] \in Token \ {v}
    BY <1>1, <2>1 DEF IInv, IndexInv
  <2> QED
    BY <1>1, <1>3, <1>4, <2>1 DEF IInv, IndexInv, Drawn, ClientOfToken
<1>13. RevokeInv'
  <2>1. ASSUME NEW q \in Req
        PROVE  /\ pc[q] = "reuseWriteBack" => token[q] # v
               /\ pc[q] \in RevokePoints \cup {"replayRemember"}
                    => family[q] # v /\ v \notin keys[q] \cup found[q]
    BY <1>1, <1>5 DEF IInv, RevokeInv
  <2>2. \A q \in Req : keys[q] \subseteq Token /\ found[q] \subseteq Token
    BY DEF IInv, TypeOK
  <2> QED
    BY <1>1, <1>3, <1>4, <2>1, <2>2 DEF IInv, RevokeInv, Drawn
<1>14. QuietInv'
  <2>1. \A q \in quiet : pc[q] = "revoking" /\ q # r /\ q \in Req
    BY DEF IInv, QuietInv, TypeOK
  <2>2. ASSUME NEW z \in Req \ {r}, pc[z] \in RotatePoints \cup IndexPoints
        PROVE  familyOf'[token[z]] = familyOf[token[z]]
    BY <1>1, <1>3, <2>2 DEF IInv, RotateInv, IndexInv
  <2>3. ASSUME NEW q \in quiet, NEW z \in Req, pc'[z] \in RotatePoints \cup IndexPoints
        PROVE  familyOf'[token'[z]] # family[q]
    BY <1>3, <1>4, <2>2, <2>3 DEF IInv, QuietInv, Rotating
  <2>4. ASSUME NEW q \in quiet, NEW w \in Token, Issued(w), familyOf'[w] = family[q],
               refreshTokens'[w] = "active"
        PROVE  w \in keys[q] \cup found[q]
    BY <1>3, <1>5, <2>4 DEF IInv, QuietInv, Issued
  <2> QED
    BY <1>1, <1>4, <2>1, <2>3, <2>4 DEF QuietInv, Rotating, Issued
<1>15. SidListInv'
  BY <1>1, <1>3, <1>5 DEF IInv, SidListInv, TypeOK
<1>16. AtMostOneActive' /\ OneGrantPerCredential'
  BY <1>1, <1>3, <1>5 DEF IInv, AtMostOneActive, OneGrantPerCredential, Drawn
<1>17. SentToItsClient' /\ HeldTokenIsListed'
  BY <1>1, <1>3, <1>5 DEF IInv, SentToItsClient, HeldTokenIsListed, Issued, ClientOfToken
<1> QED
  BY <1>2, <1>8, <1>9, <1>10, <1>11, <1>12, <1>13, <1>14, <1>15, <1>16, <1>17 DEF IInv

\* An exchange may store: its code is in its hands alone, the family is new.
LEMMA CreateStoreStep ==
  ASSUME IInv, NEW r \in Req, NEW v \in Token, CreateStore(r, v) PROVE IInv'
<1> DEFINE k == code[r]
<1>1. /\ pc[r] = "createStore" /\ Goto(r, "indexBoth")
      /\ storeRefreshToken(r, v, v, k, NoToken) /\ ~Drawn(v)
  BY DEF CreateStore, storeRefreshToken
<1>2. /\ k \in Code /\ caller[r] = ClientOf[k]
      /\ authorizationCodes[k] \notin {"unissued", "fresh"}
      /\ \A w \in Token : origin[w] # k
      /\ \A q \in Req \ {r} : pc[q] \in {"exchangeLoad", "createStore"} => code[q] # k
  BY <1>1 DEF IInv, ExchangeInv
<1>3. \A w \in Token : familyOf[w] # v
  BY <1>1 DEF IInv, RecordsInv, Drawn
<1>4. \A q \in quiet : family[q] # v
  <2>1. \A q \in quiet : q \in Req /\ pc[q] = "revoking"
    BY DEF IInv, QuietInv, TypeOK
  <2> QED BY <1>1, <2>1 DEF IInv, RevokeInv, Drawn
<1>5. \A q \in Req : pc[q] \in RotatePoints => familyOf[token[q]] # v
  BY <1>3 DEF IInv, RotateInv
<1>6. MayStore(r, v, v, k, NoToken)
  BY <1>1, <1>2, <1>3, <1>4, <1>5 DEF MayStore
<1> HIDE DEF k
<1> QED
  BY <1>1, <1>2, <1>6, StoreStep DEF k

\* A refresh may store: it took the only active token of the family out.
LEMMA RotateStoreStep ==
  ASSUME IInv, NEW r \in Req, NEW v \in Token, RotateStore(r, v) PROVE IInv'
<1> DEFINE p == token[r]
           f == familyOf[p]
           k == origin[p]
<1>1. /\ pc[r] = "rotateStore" /\ Goto(r, "rotateIndex")
      /\ storeRefreshToken(r, v, f, k, p)
  BY DEF RotateStore
<1>2. /\ p \in Token /\ Drawn(p) /\ caller[r] = ClientOf[k]
      /\ \A w \in Token : parent[w] # p
      /\ \A w \in Token : familyOf[w] = f => refreshTokens[w] # "active"
      /\ \A q \in Req \ {r} : pc[q] \in RotatePoints => familyOf[token[q]] # f
  BY <1>1 DEF IInv, RotateInv, ClientOfToken
<1>3. f \in Token /\ familyOf[f] = f /\ origin[f] = k /\ k \in Code
  BY <1>2 DEF IInv, RecordsInv, Drawn, TypeOK
<1>4. /\ authorizationCodes[k] \notin {"unissued", "fresh"}
      /\ \A q \in Req : pc[q] \in {"exchangeLoad", "createStore"} => code[q] # k
  BY <1>2, <1>3 DEF IInv, CodesInv, ExchangeInv
<1>5. \A q \in quiet : family[q] # f
  BY <1>1 DEF IInv, QuietInv, Rotating
<1>6. MayStore(r, v, f, k, p)
  BY <1>1, <1>2, <1>3, <1>4, <1>5 DEF MayStore
<1> HIDE DEF p, f, k
<1> QED
  BY <1>1, <1>2, <1>3, <1>6, StoreStep

-----------------------------------------------------------------------------
(* The invariant *)

\* The invariant holds of empty stores.
LEMMA InitIInv == Init => IInv
  BY DEF Init, IInv, TypeOK, RecordsInv, CodesInv, ExchangeInv, RotateInv, IndexInv,
         RevokeInv, QuietInv, SidListInv, AtMostOneActive, OneGrantPerCredential,
         SentToItsClient, HeldTokenIsListed, Drawn, Issued

\* Every step keeps the invariant.
LEMMA StepIInv == IInv /\ [Next]_vars => IInv'
<1> SUFFICES ASSUME IInv, [Next]_vars PROVE IInv'
  OBVIOUS
<1>1. CASE UNCHANGED vars
  <2>1. StoresTyped' /\ Tame /\ CodesInv' /\ SidListInv'
    BY <1>1, TypeParts, IdleStoresAreTame
       DEF vars, IInv, StoresTyped, CodesInv, SidListInv
  <2> QED BY <1>1, <2>1, TameStep DEF vars
<1>2. ASSUME NEW r \in Req, Step(r) PROVE IInv'
  BY <1>2, CreateIndexFamilyStep, CreateIndexSidStep, RememberStep, ReplayRememberStep,
     ReuseWriteBackStep, RotateWriteBackStep, RotateIndexStep, RevokeMembersStep,
     RevokeDoneStep, ExchangeLoadStep, RefreshChecksStep, CreateStoreStep,
     RotateStoreStep, RevokeGetStep, RevokeSetStep DEF Step
<1>3. ASSUME NEW r \in Req, Request(r) PROVE IInv'
  BY <1>3, ExchangeCodeStep, ConsumeStep, RevokeTokenStep, RevokeListedStep DEF Request
<1>4. ASSUME NEW r \in Req, Abort(r) PROVE IInv'
  BY <1>4, AbortStep
<1> QED
  BY <1>1, <1>2, <1>3, <1>4, EnvironmentStep DEF Next, Healthy

\* The inductive invariant holds in every reachable state.
THEOREM Invariance == Spec => []IInv
  BY InitIInv, StepIInv, PTL DEF Spec

\* Every store and every local of a request keeps to its values.
THEOREM TypeCorrect == Spec => []TypeOK
<1>1. IInv => TypeOK
  BY DEF IInv
<1> QED BY <1>1, Invariance, PTL

\* However many requests, revocations, aborts and expiries interleave, a family never
\* has two exchangeable tokens (consumeRefreshToken, rotateRefreshToken).
THEOREM AtMostOneActiveHolds == Spec => []AtMostOneActive
<1>1. IInv => AtMostOneActive
  BY DEF IInv
<1> QED BY <1>1, Invariance, PTL

\* A refresh token has at most one successor and a code starts at most one family
\* (the GETDEL of consumeRefreshToken and of exchangeAuthorizationCode).
THEOREM OneGrantPerCredentialHolds == Spec => []OneGrantPerCredential
<1>1. IInv => OneGrantPerCredential
  BY DEF IInv
<1> QED BY <1>1, Invariance, PTL

\* A token is sent only to the client its code was issued to (validateCodeBinding, the
\* client check of refreshAccessToken).
THEOREM SentToItsClientHolds == Spec => []SentToItsClient
<1>1. IInv => SentToItsClient
  BY DEF IInv
<1> QED BY <1>1, Invariance, PTL

\* A token that a client could exchange is in the set that revokeRefreshTokenFamily
\* walks.
THEOREM HeldTokenIsListedHolds == Spec => []HeldTokenIsListed
<1>1. IInv => HeldTokenIsListed
  BY DEF IInv
<1> QED BY <1>1, Invariance, PTL

\* A run of revokeRefreshTokenFamily that no rotation overlaps leaves no exchangeable
\* token in the family.
THEOREM QuietRevocationKillsHolds == Spec => []QuietRevocationKills
<1>1. IInv => QuietRevocationKills
  BY DEF IInv, QuietInv, QuietRevocationKills, DeadFamily
<1> QED BY <1>1, Invariance, PTL

-----------------------------------------------------------------------------
(* What no step does *)

\* The right to give a family an exchangeable token has to be taken from one: a token
\* becomes active only when it is drawn, reaches a client only from an invocation
\* that rotates its family, and an invocation starts to rotate only what is active.
Lawful ==
    /\ \A v \in Token : Drawn(v) => familyOf'[v] = familyOf[v]
    /\ \A v \in Token : Drawn(v) /\ refreshTokens[v] # "active"
                         => refreshTokens'[v] # "active"
    /\ \A v \in Token : Issued(v)' =>
         Drawn(v) /\ (Issued(v) \/ \E r \in Req : Rotating(r, familyOf[v]))
    /\ \A r \in Req, f \in Token : Drawn(f) /\ Rotating(r, f)' =>
         \/ Rotating(r, f)
         \/ \E v \in Token : /\ Issued(v) /\ familyOf[v] = f
                             /\ refreshTokens[v] = "active"

\* An invocation that is not at a rotating point afterwards, or was there before.
LEMMA LawfulMove ==
  ASSUME IInv, UNCHANGED <<familyOf, holder>>,
         \A v \in Token : Drawn(v) /\ refreshTokens[v] # "active"
                         => refreshTokens'[v] # "active",
         \A q \in Req : \/ pc'[q] \notin RotatePoints \cup IndexPoints
                        \/ /\ pc[q] \in RotatePoints \cup IndexPoints
                           /\ token'[q] = token[q]
  PROVE  Lawful
<1>1. \A v \in Token : Issued(v) => Drawn(v)
  BY DEF IInv, RecordsInv, Issued
<1> QED BY <1>1 DEF Lawful, Drawn, Issued, Rotating

\* A token is sent by an invocation that holds the right to its family.
LEMMA HandOutIsLawful ==
  ASSUME IInv, NEW r \in Req, Remember(r) \/ \E b \in BOOLEAN : RotateIndex(r, b)
  PROVE  Lawful
<1>1. /\ pc[r] \in IndexPoints /\ Return(r)
      /\ holder' = [holder EXCEPT ![token[r]] = caller[r]] \/ holder' = holder
      /\ UNCHANGED <<familyOf, refreshTokens>>
  BY DEF Remember, RotateIndex
<1>2. /\ token[r] \in Token /\ Drawn(token[r]) /\ Rotating(r, familyOf[token[r]])
  BY <1>1 DEF IInv, IndexInv, Rotating
<1>3. \A v \in Token \ {token[r]} : holder'[v] = holder[v]
  BY <1>1, <1>2 DEF IInv, TypeOK
<1>4. \A q \in Req : pc'[q] = "idle" \/ (pc'[q] = pc[q] /\ token'[q] = token[q])
  BY <1>1, ReturnMoves, TypeParts DEF IInv, Moved
<1>5. \A v \in Token : Issued(v) => Drawn(v)
  BY DEF IInv, RecordsInv, Issued
<1>6. \A v \in Token : Issued(v)' =>
         Drawn(v) /\ (Issued(v) \/ \E q \in Req : Rotating(q, familyOf[v]))
  BY <1>2, <1>3, <1>5 DEF Issued
<1>7. \A q \in Req, f \in Token : Rotating(q, f)' => Rotating(q, f)
  BY <1>1, <1>4 DEF Rotating
<1> QED BY <1>1, <1>6, <1>7 DEF Lawful

\* A new token joins the family its invocation was rotating, or a new one.
LEMMA StoreIsLawful ==
  ASSUME IInv, NEW r \in Req, NEW v \in Token, CreateStore(r, v) \/ RotateStore(r, v)
  PROVE  Lawful
<1>1. PICK f : \E k, p, point : /\ storeRefreshToken(r, v, f, k, p)
                                /\ pc' = [pc EXCEPT ![r] = point]
                                /\ \/ f = v
                                   \/ /\ pc[r] = "rotateStore"
                                      /\ f = familyOf[token[r]]
  BY DEF CreateStore, RotateStore
<1>2. PICK k, p, point : /\ storeRefreshToken(r, v, f, k, p)
                         /\ pc' = [pc EXCEPT ![r] = point]
  BY <1>1
<1>3. /\ ~Drawn(v) /\ holder' = holder
      /\ refreshTokens' = [refreshTokens EXCEPT ![v] = "active"]
      /\ familyOf' = [familyOf EXCEPT ![v] = f]
      /\ token' = [token EXCEPT ![r] = v]
  BY <1>2 DEF storeRefreshToken
<1>4. /\ familyOf'[v] = f
      /\ \A w \in Token \ {v} : /\ refreshTokens'[w] = refreshTokens[w]
                                /\ familyOf'[w] = familyOf[w]
  BY <1>3 DEF IInv, TypeOK
<1>5. /\ token'[r] = v /\ \A q \in Req \ {r} : pc'[q] = pc[q] /\ token'[q] = token[q]
  BY <1>2, <1>3 DEF IInv, TypeOK
<1>6. \A w \in Token : Issued(w) => Drawn(w)
  BY DEF IInv, RecordsInv, Issued
<1>7. \A q \in Req \ {r}, g \in Token : Rotating(q, g)' => Rotating(q, g)
  <2>1. \A q \in Req : pc[q] \in RotatePoints \cup IndexPoints
                        => token[q] \in Token /\ Drawn(token[q])
    BY DEF IInv, RotateInv, IndexInv
  <2> QED BY <1>3, <1>4, <1>5, <2>1 DEF Rotating
<1>8. \A g \in Token : Drawn(g) /\ Rotating(r, g)' => Rotating(r, g)
  BY <1>1, <1>3, <1>4, <1>5 DEF Rotating
<1>9. /\ \A w \in Token : Drawn(w) => familyOf'[w] = familyOf[w]
      /\ \A w \in Token : Drawn(w) /\ refreshTokens[w] # "active"
                          => refreshTokens'[w] # "active"
  BY <1>3, <1>4
<1>10. \A w \in Token : Issued(w)' => Issued(w)
  BY <1>3 DEF Issued
<1> QED BY <1>6, <1>7, <1>8, <1>9, <1>10 DEF Lawful

\* An invocation that starts to rotate a family takes its active token.
LEMMA ConsumeIsLawful ==
  ASSUME IInv, NEW r \in Req, NEW c \in Client, NEW v \in Token, Consume(r, c, v)
  PROVE  Lawful
<1>1. /\ pc[r] = "idle" /\ Issued(v) /\ UNCHANGED <<familyOf, holder>>
      /\ refreshTokens' = [refreshTokens EXCEPT ![v] = "absent"]
  BY DEF Consume
<1>2. \A w \in Token : refreshTokens'[w] = "active" => refreshTokens[w] = "active"
  BY <1>1 DEF IInv, TypeOK
<1>3. CASE refreshTokens[v] # "active"
  <2>1. \A q \in Req : pc'[q] \in {"idle", "reuseWriteBack"}
                        \/ (pc'[q] = pc[q] /\ token'[q] = token[q])
    BY <1>1, <1>3 DEF Consume, Continue, IInv, TypeOK
  <2> QED BY <1>1, <1>2, <2>1, LawfulMove
<1>4. CASE refreshTokens[v] = "active"
  <2>1. Continue(r, "rotateWriteBack", c, NoCode, v, "active", NoToken)
    BY <1>4 DEF Consume
  <2>2. Moved(r, "rotateWriteBack", c, NoCode, v, "active", NoToken)
    BY <2>1, ContinueMoves, TypeParts DEF IInv
  <2>3. \A q \in Req \ {r}, f \in Token : Rotating(q, f)' => Rotating(q, f)
    BY <1>1, <2>2 DEF Moved, Rotating
  <2>4. \A f \in Token : Rotating(r, f)' => familyOf[v] = f
    BY <1>1, <2>2 DEF Moved, Rotating
  <2>5. \A w \in Token : Issued(w) => Drawn(w)
    BY DEF IInv, RecordsInv, Issued
  <2> QED BY <1>1, <1>2, <1>4, <2>3, <2>4, <2>5 DEF Lawful, Issued
<1> QED BY <1>3, <1>4

\* The other actions only move their own invocation, and activate nothing.
LEMMA StepIsLawful == ASSUME IInv, [Next]_vars PROVE Lawful
<1>1. CASE UNCHANGED vars
  BY <1>1, LawfulMove DEF vars
<1>2. CASE Environment
  <2>1. UNCHANGED <<familyOf, holder, pc, token>>
    BY <1>2 DEF Environment, KeyGoes, IssueCode, ghostVars, localVars, callVars
  <2>2. \A v \in Token : refreshTokens'[v] = "active" => refreshTokens[v] = "active"
    BY <1>2 DEF Environment, KeyGoes, IssueCode, ExpireCode, ForgetSid, ExpireToken,
                ExpireFamily, IInv, TypeOK
  <2> QED BY <2>1, <2>2, LawfulMove
<1>3. ASSUME NEW r \in Req, Abort(r) \/ RevokeDone(r) \/ ReplayRemember(r)
      PROVE  Lawful
  <2>1. /\ UNCHANGED <<familyOf, holder, refreshTokens>>
        /\ Return(r) \/ (Goto(r, "replayRemember") /\ UNCHANGED localVars)
    BY <1>3 DEF Abort, RevokeDone, ReplayRemember
  <2>2. \A q \in Req : pc'[q] \in {"idle", "replayRemember"}
                       \/ (pc'[q] = pc[q] /\ token'[q] = token[q])
    BY <2>1, ReturnMoves, GotoMoves, TypeParts DEF IInv, Moved
  <2> QED BY <2>1, <2>2, LawfulMove
<1>4. ASSUME NEW r \in Req,
             RevokeMembers(r) \/ \E v \in Token : RevokeGet(r, v) \/ RevokeSet(r, v)
      PROVE  Lawful
  <2>1. UNCHANGED <<familyOf, holder, token>>
    BY <1>4 DEF RevokeMembers, RevokeGet, RevokeSet
  <2>2. \A q \in Req : pc'[q] = "revoking" \/ pc'[q] = pc[q]
    BY <1>4 DEF RevokeMembers, RevokeGet, RevokeSet, IInv, TypeOK
  <2>3. \A w \in Token : refreshTokens'[w] = "active" => refreshTokens[w] = "active"
    BY <1>4 DEF RevokeMembers, RevokeGet, RevokeSet, IInv, TypeOK
  <2> QED BY <2>1, <2>2, <2>3, LawfulMove
<1>5. ASSUME NEW r \in Req, CreateIndexFamily(r) \/ CreateIndexSid(r) PROVE Lawful
  <2>1. /\ UNCHANGED <<familyOf, holder, refreshTokens, token>>
        /\ pc[r] \in IndexPoints
    BY <1>5 DEF CreateIndexFamily, CreateIndexSid
  <2>2. \A q \in Req \ {r} : pc'[q] = pc[q]
    BY <1>5 DEF CreateIndexFamily, CreateIndexSid, IInv, TypeOK
  <2> QED BY <2>1, <2>2, LawfulMove
<1>6. ASSUME NEW r \in Req, NEW b \in BOOLEAN,
             \/ ExchangeLoad(r, b) \/ RefreshSession(r, b) \/ RefreshAccess(r, b)
             \/ ReuseWriteBack(r) \/ RotateWriteBack(r)
      PROVE  Lawful
  <2>1. UNCHANGED <<familyOf, holder>>
    BY <1>6 DEF ExchangeLoad, RefreshSession, RefreshAccess, ReuseWriteBack, RotateWriteBack
  <2>2. \A w \in Token : refreshTokens'[w] = "active" => refreshTokens[w] = "active"
    <3>1. CASE ReuseWriteBack(r)
      <4>1. stored[r] # "active" /\ refreshTokens' = [refreshTokens EXCEPT ![token[r]] = stored[r]]
        BY <3>1 DEF ReuseWriteBack, IInv, RevokeInv
      <4> QED BY <4>1 DEF IInv, TypeOK
    <3>2. CASE RotateWriteBack(r)
      BY <3>2 DEF RotateWriteBack, IInv, TypeOK
    <3> QED BY <1>6, <3>1, <3>2 DEF ExchangeLoad, RefreshSession, RefreshAccess
  <2>3. \/ /\ pc[r] \in RotatePoints \/ pc'[r] = "createStore"
           /\ \A q \in Req \ {r} : pc'[q] = pc[q]
           /\ UNCHANGED localVars
        \/ Return(r)
        \/ \E f \in Token : StartRevocation(r, f, NoCode)
    <3>1. pc[r] \in RotatePoints \cup {"reuseWriteBack"} => familyOf[token[r]] \in Token
      <4>1. pc[r] \in RotatePoints \cup {"reuseWriteBack"}
              => token[r] \in Token /\ Drawn(token[r])
        BY DEF IInv, RotateInv, RevokeInv
      <4> QED BY <4>1 DEF IInv, TypeOK, Drawn
    <3>2. \/ \E point \in {"refreshSession", "refreshAccess", "rotateStore"} :
               pc[r] \in RotatePoints /\ Goto(r, point) /\ UNCHANGED localVars
          \/ Goto(r, "createStore") /\ UNCHANGED localVars
          \/ Return(r)
          \/ /\ pc[r] \in RotatePoints \cup {"reuseWriteBack"}
             /\ StartRevocation(r, familyOf[token[r]], NoCode)
      BY <1>6 DEF ExchangeLoad, RefreshSession, RefreshAccess, RefuseRefresh,
                  ReuseWriteBack, RotateWriteBack
    <3> QED BY <3>1, <3>2, GotoMoves, TypeParts DEF IInv
  <2>4. \A q \in Req : pc'[q] \in {"idle", "revokeMembers", "createStore"}
                       \/ (pc'[q] = pc[q] /\ token'[q] = token[q])
                       \/ (q = r /\ pc[r] \in RotatePoints /\ token' = token)
    BY <2>3, ReturnMoves, StartRevocationMoves, TypeParts DEF IInv, Moved
  <2> QED BY <2>1, <2>2, <2>4, LawfulMove
<1>7. ASSUME NEW r \in Req, Request(r) PROVE Lawful
  <2>1. ASSUME NEW c \in Client, NEW k \in Code, NEW b \in BOOLEAN, ExchangeCode(r, c, k, b)
        PROVE  Lawful
    <3>1. UNCHANGED <<familyOf, holder, refreshTokens>>
      BY <2>1 DEF ExchangeCode
    <3>2. \A q \in Req : pc'[q] \in {"revokeMembers", "exchangeLoad"}
                         \/ (pc'[q] = pc[q] /\ token'[q] = token[q])
      BY <2>1 DEF ExchangeCode, StartRevocation, Continue, IInv, TypeOK
    <3> QED BY <3>1, <3>2, LawfulMove
  <2>2. ASSUME NEW f \in Token \cup {NoToken}, StartRevocation(r, f, NoCode),
               UNCHANGED <<familyOf, holder, refreshTokens>>
        PROVE  Lawful
    <3>1. \A q \in Req : pc'[q] = "revokeMembers"
                         \/ (pc'[q] = pc[q] /\ token'[q] = token[q])
      BY <2>2 DEF StartRevocation, Continue, IInv, TypeOK
    <3> QED BY <2>2, <3>1, LawfulMove
  <2>3. ASSUME NEW c \in Client, NEW v \in Token, RevokeToken(r, c, v) PROVE Lawful
    BY <2>2, <2>3 DEF RevokeToken, IInv, TypeOK
  <2>4. ASSUME NEW s \in Sid, NEW f \in Token, RevokeListed(r, s, f) PROVE Lawful
    BY <2>2, <2>4 DEF RevokeListed
  <2> QED BY <1>7, <2>1, <2>3, <2>4, ConsumeIsLawful DEF Request
<1>8. ASSUME NEW r \in Req, Step(r) PROVE Lawful
  <2>1. CASE \E v \in Token : CreateStore(r, v) \/ RotateStore(r, v)
    BY <2>1, StoreIsLawful
  <2>2. CASE Remember(r) \/ \E b \in BOOLEAN : RotateIndex(r, b)
    BY <2>2, HandOutIsLawful
  <2>3. CASE RevokeDone(r) \/ ReplayRemember(r)
    BY <1>3, <2>3
  <2>4. CASE RevokeMembers(r) \/ \E v \in Token : RevokeGet(r, v) \/ RevokeSet(r, v)
    BY <1>4, <2>4
  <2>5. CASE CreateIndexFamily(r) \/ CreateIndexSid(r)
    BY <1>5, <2>5
  <2>6. CASE \/ ReuseWriteBack(r) \/ RotateWriteBack(r)
             \/ \E b \in BOOLEAN : ExchangeLoad(r, b) \/ RefreshSession(r, b)
                                   \/ RefreshAccess(r, b)
    BY <1>6, <2>6
  <2> QED BY <1>8, <2>1, <2>2, <2>3, <2>4, <2>5, <2>6 DEF Step
<1> QED BY <1>1, <1>2, <1>3, <1>7, <1>8 DEF Next, Healthy

\* No write of consumeRefreshToken or revokeRefreshTokenFamily makes a token active
\* again.
THEOREM NeverRevivedHolds == Spec => NeverRevived
<1>1. IInv /\ [Next]_vars =>
        [\A v \in Token :
           Drawn(v) /\ refreshTokens[v] # "active" => refreshTokens'[v] # "active"]_vars
  BY StepIsLawful DEF Lawful
<1> QED BY <1>1, Invariance, PTL DEF Spec, NeverRevived

\* No request, replay or late write gives a dead family an exchangeable token again.
THEOREM DeadFamilyStaysDeadHolds == Spec => DeadFamilyStaysDead
<1>1. IInv /\ [Next]_vars =>
        [\A f \in Token : Drawn(f) /\ DeadFamily(f) => DeadFamily(f)']_vars
  <2> SUFFICES ASSUME IInv, [Next]_vars, NEW f \in Token, Drawn(f), DeadFamily(f)
               PROVE  DeadFamily(f)'
    OBVIOUS
  <2>1. Lawful
    BY StepIsLawful
  <2>2. \A r \in Req : ~Rotating(r, f)'
    BY <2>1 DEF Lawful, DeadFamily
  <2>3. ASSUME NEW v \in Token, Issued(v)', familyOf'[v] = f
        PROVE  refreshTokens'[v] # "active"
    <3>1. Drawn(v) /\ familyOf[v] = f /\ Issued(v)
      BY <2>1, <2>3 DEF Lawful, DeadFamily
    <3> QED BY <2>1, <3>1 DEF Lawful, DeadFamily
  <2> QED BY <2>2, <2>3 DEF DeadFamily
<1> QED BY <1>1, Invariance, PTL DEF Spec, DeadFamilyStaysDead


-----------------------------------------------------------------------------
(* The families implement TokenFamily                                       *)

\* A family has exactly one token that was not rotated into another.
HeadsInv ==
    \A f \in Token : familyOf[f] = f =>
        \E h \in Token : Newest(f, h) /\ \A v \in Token : Newest(f, v) => v = h

\* What an action of TokenFamily does, or its stutter.
FamilyStep == [Families!Next]_(Families!abstractVars)

\* A step that draws no token leaves every family its head.
LEMMA HeadsKept ==
  ASSUME HeadsInv, UNCHANGED <<familyOf, parent>>
  PROVE  /\ HeadsInv'
         /\ \A f \in Token : FamilyHead(f)' = FamilyHead(f)
         /\ {v \in Token : Drawn(v)}' = {v \in Token : Drawn(v)}
<1>1. \A f, v \in Token : Newest(f, v)' <=> Newest(f, v)
  BY DEF Newest
<1>2. HeadsInv'
  BY <1>1 DEF HeadsInv
<1>3. ASSUME NEW f \in Token PROVE FamilyHead(f)' = FamilyHead(f)
  <2>1. CASE familyOf[f] # f
    BY <2>1 DEF FamilyHead
  <2>2. CASE familyOf[f] = f
    <3>1. PICK h \in Token : Newest(f, h) /\ \A v \in Token : Newest(f, v) => v = h
      BY <2>2 DEF HeadsInv
    <3>2. FamilyHead(f) = h
      BY <2>2, <3>1 DEF FamilyHead
    <3>3. FamilyHead(f)' = h
      BY <1>1, <2>2, <3>1 DEF FamilyHead
    <3> QED BY <3>2, <3>3
  <2> QED BY <2>1, <2>2
<1> QED BY <1>2, <1>3 DEF Drawn

\* A step that touches at most family f: it may take the active token out, as the request
\* that goes on to rotate it or not, or give up the right to renew the family.
LEMMA FadeRefines ==
  ASSUME IInv, HeadsInv, UNCHANGED <<familyOf, parent>>, NEW f,
         \A g \in Token \ {f} : (Live(g)' <=> Live(g)) /\ (Spent(g)' <=> Spent(g)),
         f \in Token => (Live(f)' => Live(f)),
         f \in Token /\ ~Live(f) /\ Spent(f)' => Spent(f)
  PROVE  HeadsInv' /\ FamilyStep
<1> DEFINE ph == [g \in Token |-> FamilyPhase(g)]
           hd == [g \in Token |-> FamilyHead(g)]
           dr == {v \in Token : Drawn(v)}
<1>1. HeadsInv' /\ hd' = hd /\ dr' = dr
  BY HeadsKept
<1>2. \A g \in Token \ {f} : FamilyPhase(g)' = FamilyPhase(g)
  BY DEF FamilyPhase
<1>3. CASE f \notin Token \/ FamilyPhase(f)' = FamilyPhase(f)
  <2>1. ph' = ph
    BY <1>2, <1>3
  <2> QED BY <1>1, <2>1 DEF FamilyStep, Families!abstractVars
<1>4. CASE f \in Token /\ FamilyPhase(f)' # FamilyPhase(f)
  <2>1. \/ FamilyPhase(f) = "live" /\ FamilyPhase(f)' = "spent"
        \/ FamilyPhase(f) \in {"live", "spent"} /\ FamilyPhase(f)' = "dead"
    BY <1>4 DEF FamilyPhase
  <2>2. ph' = [ph EXCEPT ![f] = FamilyPhase(f)']
    BY <1>2, <1>4
  <2>3. ph[f] = FamilyPhase(f)
    BY <1>4
  <2> HIDE DEF ph, hd, dr
  <2>4. Families!Spend(f) \/ Families!Close(f)
    BY <1>1, <2>1, <2>2, <2>3 DEF Families!Spend, Families!Close, ph, hd, dr
  <2> QED BY <1>1, <1>4, <2>4 DEF FamilyStep, Families!Next
<1> QED BY <1>3, <1>4


\* A step that draws and activates nothing, in which only family f can lose its active
\* token or the request that rotates it.
LEMMA TameRefines ==
  ASSUME IInv, HeadsInv, UNCHANGED <<familyOf, parent>>, NEW f,
         \A v \in Token : refreshTokens'[v] = "active" => refreshTokens[v] = "active",
         \A v \in Token : refreshTokens[v] = "active" /\ familyOf[v] # f
                           => refreshTokens'[v] = "active",
         \A q \in Req : pc'[q] \in RotatePoints
                           => pc[q] \in RotatePoints /\ token'[q] = token[q],
         \A q \in Req : pc[q] \in RotatePoints /\ familyOf[token[q]] # f
                           => pc'[q] \in RotatePoints /\ token'[q] = token[q]
  PROVE  HeadsInv' /\ FamilyStep
<1>1. \A g \in Token \ {f} : Live(g)' <=> Live(g)
  BY DEF Live
<1>2. \A g \in Token \ {f} : Spent(g)' <=> Spent(g)
  BY DEF Spent
<1>3. (Live(f)' => Live(f)) /\ (Spent(f)' => Spent(f))
  BY DEF Live, Spent
<1> QED BY <1>1, <1>2, <1>3, FadeRefines

\* Whoever takes the active token of a family out spends its head.
LEMMA ConsumeRefines ==
  ASSUME IInv, HeadsInv, NEW r \in Req, NEW c \in Client, NEW v \in Token, Consume(r, c, v)
  PROVE  HeadsInv' /\ FamilyStep
<1> DEFINE f == familyOf[v]
<1>1. /\ pc[r] = "idle" /\ UNCHANGED <<familyOf, parent>>
      /\ refreshTokens' = [refreshTokens EXCEPT ![v] = "absent"]
  BY DEF Consume
<1>2. /\ \A w \in Token : refreshTokens'[w] = "active" => refreshTokens[w] = "active"
      /\ \A w \in Token : refreshTokens[w] = "active" /\ familyOf[w] # f
                           => refreshTokens'[w] = "active"
  BY <1>1 DEF IInv, TypeOK
<1>3. CASE refreshTokens[v] # "active"
  <2>1. \A q \in Req : \/ pc'[q] = pc[q] /\ token'[q] = token[q]
                       \/ pc[q] = "idle" /\ pc'[q] = "reuseWriteBack"
    BY <1>1, <1>3 DEF Consume, Continue, IInv, TypeOK
  <2> QED BY <1>1, <1>2, <2>1, TameRefines
<1>4. CASE refreshTokens[v] = "active"
  <2>1. Continue(r, "rotateWriteBack", c, NoCode, v, "active", NoToken)
    BY <1>4 DEF Consume
  <2>2. Moved(r, "rotateWriteBack", c, NoCode, v, "active", NoToken)
    BY <2>1, ContinueMoves, TypeParts DEF IInv
  <2>3. \A g \in Token \ {f} : Live(g)' <=> Live(g)
    BY <1>1, <1>2 DEF Live
  <2>4. \A g \in Token \ {f} : Spent(g)' <=> Spent(g)
    BY <1>1, <2>2 DEF Spent, Moved
  <2>5. Live(f)
    BY <1>4 DEF Live
  <2> QED BY <1>1, <2>3, <2>4, <2>5, FadeRefines
<1> QED BY <1>3, <1>4

\* A stored token opens its family or renews it.
LEMMA StoreRefines ==
  ASSUME IInv, HeadsInv, NEW r \in Req, NEW v \in Token, CreateStore(r, v) \/ RotateStore(r, v)
  PROVE  HeadsInv' /\ FamilyStep
<1>1. PICK f, p : /\ \E k, point : /\ storeRefreshToken(r, v, f, k, p)
                                   /\ pc' = [pc EXCEPT ![r] = point]
                                   /\ point \notin RotatePoints
                  /\ \/ pc[r] = "createStore" /\ f = v /\ p = NoToken
                     \/ pc[r] = "rotateStore" /\ f = familyOf[token[r]] /\ p = token[r]
  BY DEF CreateStore, RotateStore
<1>2. /\ ~Drawn(v)
      /\ refreshTokens' = [refreshTokens EXCEPT ![v] = "active"]
      /\ familyOf' = [familyOf EXCEPT ![v] = f]
      /\ parent' = [parent EXCEPT ![v] = p]
      /\ token' = [token EXCEPT ![r] = v]
      /\ \E point : pc' = [pc EXCEPT ![r] = point] /\ point \notin RotatePoints
  BY <1>1 DEF storeRefreshToken
<1>3. /\ refreshTokens'[v] = "active" /\ familyOf'[v] = f /\ parent'[v] = p
      /\ \A w \in Token \ {v} : /\ refreshTokens'[w] = refreshTokens[w]
                                /\ familyOf'[w] = familyOf[w] /\ parent'[w] = parent[w]
  BY <1>2 DEF IInv, TypeOK
<1>4. /\ pc'[r] \notin RotatePoints
      /\ \A q \in Req \ {r} : pc'[q] = pc[q] /\ token'[q] = token[q]
  BY <1>2 DEF IInv, TypeOK
<1>5. /\ refreshTokens[v] = "absent" /\ familyOf[v] = NoToken /\ parent[v] = NoToken
      /\ \A w \in Token : familyOf[w] # v /\ parent[w] # v
  <2>1. familyOf[v] = NoToken /\ refreshTokens[v] = "absent" /\ parent[v] = NoToken
    BY <1>2 DEF IInv, RecordsInv, Drawn
  <2>2. \A w \in Token : familyOf[w] # v
    BY <2>1 DEF IInv, RecordsInv, Drawn
  <2>3. ASSUME NEW w \in Token, parent[w] = v PROVE FALSE
    <3>1. familyOf[w] = NoToken /\ parent[w] # NoToken
      BY <2>1, <2>3 DEF IInv, RecordsInv
    <3> QED BY <3>1 DEF IInv, RecordsInv, Drawn
  <2> QED BY <2>1, <2>2, <2>3
<1>6. \A q \in Req : pc[q] \in RotatePoints => token[q] \in Token \ {v}
  BY <1>2 DEF IInv, RotateInv
<1>7. /\ f \in Token /\ p # v
      /\ p # NoToken => p \in Token /\ familyOf[p] = f /\ familyOf[f] = f /\ f # v
      /\ p = NoToken => f = v
      /\ p # NoToken => Spent(f) /\ ~Live(f)
  <2>1. CASE p = NoToken
    <3>1. pc[r] = "createStore"
      <4>1. pc[r] = "rotateStore" => token[r] \in Token
        BY <1>6
      <4> QED BY <1>1, <2>1, <4>1
    <3> QED BY <1>1, <2>1, <3>1
  <2>2. CASE p # NoToken
    <3>1. pc[r] = "rotateStore" /\ p = token[r] /\ f = familyOf[p]
      BY <1>1, <2>2
    <3>2. p \in Token \ {v} /\ Drawn(p) /\ \A w \in Token : familyOf[w] = f => refreshTokens[w] # "active"
      BY <1>6, <3>1 DEF IInv, RotateInv
    <3>3. f \in Token /\ familyOf[f] = f
      BY <3>1, <3>2 DEF IInv, RecordsInv, Drawn, TypeOK
    <3> QED BY <1>5, <2>2, <3>1, <3>2, <3>3 DEF Spent, Live
  <2> QED BY <2>1, <2>2
\* The heads: v is the only one of f, the others are as they were.
<1>8. ASSUME NEW g \in Token \ {f}, NEW w \in Token PROVE Newest(g, w)' <=> Newest(g, w)
  <2>1. familyOf'[w] = g <=> familyOf[w] = g
    BY <1>3, <1>5
  <2>2. familyOf[w] = g => ((\A x \in Token : parent'[x] # w) <=> \A x \in Token : parent[x] # w)
    BY <1>3, <1>5, <1>7
  <2> QED BY <2>1, <2>2 DEF Newest
<1>9. Newest(f, v)' /\ \A w \in Token : Newest(f, w)' => w = v
  <2>1. Newest(f, v)'
    BY <1>3, <1>5, <1>7 DEF Newest
  <2>2. ASSUME NEW w \in Token \ {v}, Newest(f, w)' PROVE FALSE
    <3>1. familyOf[w] = f /\ (\A x \in Token : parent[x] # w) /\ w # p
      BY <1>3, <1>5, <2>2 DEF Newest
    <3>2. p # NoToken
      BY <1>5, <1>7, <3>1
    <3>3. Newest(f, w) /\ Newest(f, p)
      <4>1. \A x \in Token : parent[x] # p
        BY <1>1, <3>2 DEF IInv, RotateInv
      <4> QED BY <1>7, <3>1, <3>2, <4>1 DEF Newest
    <3> QED BY <1>7, <3>1, <3>2, <3>3 DEF HeadsInv
  <2> QED BY <2>1, <2>2

<1>10. \A g \in Token \ {f} : familyOf'[g] = g <=> familyOf[g] = g
  BY <1>3, <1>5, <1>7
<1>11. HeadsInv'
  <2>1. ASSUME NEW g \in Token, familyOf'[g] = g
        PROVE  \E h \in Token : Newest(g, h)' /\ \A w \in Token : Newest(g, w)' => w = h
    BY <1>8, <1>9, <1>10, <2>1 DEF HeadsInv
  <2> QED BY <2>1 DEF HeadsInv
<1>12. \A g \in Token \ {f} : FamilyHead(g)' = FamilyHead(g)
  <2>1. ASSUME NEW g \in Token \ {f} PROVE FamilyHead(g)' = FamilyHead(g)
    <3>1. CASE familyOf[g] # g
      BY <1>10, <3>1 DEF FamilyHead
    <3>2. CASE familyOf[g] = g
      <4>1. PICK h \in Token : Newest(g, h) /\ \A w \in Token : Newest(g, w) => w = h
        BY <3>2 DEF HeadsInv
      <4>2. FamilyHead(g) = h
        BY <3>2, <4>1 DEF FamilyHead
      <4>3. FamilyHead(g)' = h
        BY <1>8, <1>10, <3>2, <4>1 DEF FamilyHead
      <4> QED BY <4>2, <4>3
    <3> QED BY <3>1, <3>2
  <2> QED BY <2>1
<1>13. FamilyHead(f)' = v
  <2>1. familyOf'[f] = f
    BY <1>3, <1>7
  <2> QED BY <1>9, <2>1 DEF FamilyHead
<1>14. \A g \in Token \ {f} : FamilyPhase(g)' = FamilyPhase(g)
  <2>1. \A g \in Token \ {f} : Live(g)' <=> Live(g)
    BY <1>3, <1>5 DEF Live
  <2>2. \A g \in Token \ {f} : Spent(g)' <=> Spent(g)
    <3>1. \A q \in Req : pc[q] \in RotatePoints => familyOf'[token[q]] = familyOf[token[q]]
      BY <1>3, <1>6
    <3>2. pc[r] \in RotatePoints => familyOf[token[r]] = f
      BY <1>1
    <3> QED BY <1>4, <3>1, <3>2 DEF Spent
  <2> QED BY <1>10, <2>1, <2>2 DEF FamilyPhase
<1>15. /\ FamilyPhase(f)' = "live"
       /\ FamilyPhase(f) = IF p = NoToken THEN "none" ELSE "spent"
  <2>1. Live(f)' /\ familyOf'[f] = f
    BY <1>3, <1>7 DEF Live
  <2> QED BY <1>5, <1>7, <2>1 DEF FamilyPhase
<1> DEFINE ph == [g \in Token |-> FamilyPhase(g)]
           hd == [g \in Token |-> FamilyHead(g)]
           dr == {w \in Token : Drawn(w)}
<1>16. ph' = [ph EXCEPT ![f] = "live"] /\ hd' = [hd EXCEPT ![f] = v]
  BY <1>7, <1>12, <1>13, <1>14, <1>15
<1>17. dr' = dr \cup {v} /\ v \notin dr
  BY <1>2, <1>3, <1>7 DEF Drawn
<1>18. ph[f] = IF p = NoToken THEN "none" ELSE "spent"
  BY <1>7, <1>15
<1> HIDE DEF ph, hd, dr
<1>19. Families!Open(f) \/ Families!Renew(f, v)
  BY <1>7, <1>16, <1>17, <1>18 DEF Families!Open, Families!Renew, ph, hd, dr
<1> QED BY <1>7, <1>11, <1>19 DEF FamilyStep, Families!Next


\* The other actions draw no token, and change the record of one token at most and the
\* point of one request, both of the family the request is about.
LEMMA StepRefines == ASSUME IInv, HeadsInv, [Next]_vars PROVE HeadsInv' /\ FamilyStep
<1>1. ASSUME NEW r \in Req, NEW v,
             UNCHANGED <<familyOf, parent>>,
             \/ refreshTokens' = refreshTokens
             \/ \E st \in TokenStatus \ {"active"} :
                   refreshTokens' = [refreshTokens EXCEPT ![v] = st],
             pc[r] \in RotatePoints => token[r] = v,
             pc'[r] \in RotatePoints => pc[r] \in RotatePoints /\ token'[r] = v,
             \A q \in Req \ {r} : pc'[q] = pc[q] /\ token'[q] = token[q]
      PROVE  HeadsInv' /\ FamilyStep
  <2>1. \A w \in Token : /\ refreshTokens'[w] = "active" => refreshTokens[w] = "active"
                         /\ refreshTokens[w] = "active" /\ w # v
                               => refreshTokens'[w] = "active"
    BY <1>1 DEF IInv, TypeOK
  <2>2. \A q \in Req : /\ pc'[q] \in RotatePoints
                             => pc[q] \in RotatePoints /\ token'[q] = token[q]
                       /\ pc[q] \in RotatePoints /\ familyOf[token[q]] # familyOf[v]
                             => pc'[q] \in RotatePoints /\ token'[q] = token[q]
    BY <1>1
  <2> QED BY <1>1, <2>1, <2>2, TameRefines
<1>2. CASE UNCHANGED vars
  BY <1>2, TameRefines DEF vars
<1>3. CASE Environment
  <2>1. UNCHANGED <<familyOf, parent, pc, token>>
    BY <1>3 DEF Environment, KeyGoes, IssueCode, ghostVars, localVars, callVars
  <2>2. CASE refreshTokens' = refreshTokens
    BY <2>1, <2>2, TameRefines
  <2>3. CASE \E v \in Token : refreshTokens' = [refreshTokens EXCEPT ![v] = "absent"]
    <3>1. PICK v \in Token : refreshTokens' = [refreshTokens EXCEPT ![v] = "absent"]
      BY <2>3
    <3>2. \A w \in Token : refreshTokens'[w] = IF w = v THEN "absent" ELSE refreshTokens[w]
      BY <3>1 DEF IInv, TypeOK
    <3>3. \A w \in Token : /\ refreshTokens'[w] = "active" => refreshTokens[w] = "active"
                           /\ refreshTokens[w] = "active" /\ familyOf[w] # familyOf[v]
                                 => refreshTokens'[w] = "active"
      BY <3>2
    <3> QED BY <2>1, <3>3, TameRefines
  <2> QED
    BY <1>3, <2>2, <2>3 DEF Environment, KeyGoes, IssueCode, ExpireCode, ForgetSid,
                            ExpireToken, ExpireFamily
<1>4. ASSUME NEW r \in Req,
             \/ Abort(r) \/ RevokeDone(r) \/ ReplayRemember(r) \/ Remember(r)
             \/ \E b \in BOOLEAN : RotateIndex(r, b)
      PROVE  HeadsInv' /\ FamilyStep
  <2>1. /\ UNCHANGED <<familyOf, parent, refreshTokens>>
        /\ Return(r) \/ (Goto(r, "replayRemember") /\ UNCHANGED localVars)
    BY <1>4 DEF Abort, RevokeDone, ReplayRemember, Remember, RotateIndex
  <2>2. /\ pc'[r] \in {"idle", "replayRemember"}
        /\ \A q \in Req \ {r} : pc'[q] = pc[q] /\ token'[q] = token[q]
    BY <2>1, ReturnMoves, GotoMoves, TypeParts DEF IInv, Moved
  <2> QED BY <1>1, <2>1, <2>2
<1>5. ASSUME NEW r \in Req,
             \/ RevokeMembers(r) \/ CreateIndexFamily(r) \/ CreateIndexSid(r)
             \/ \E v \in Token : RevokeGet(r, v)
      PROVE  HeadsInv' /\ FamilyStep
  <2>1. /\ UNCHANGED <<familyOf, parent, refreshTokens, token>>
        /\ pc[r] \notin RotatePoints /\ pc'[r] \notin RotatePoints
        /\ \A q \in Req \ {r} : pc'[q] = pc[q]
    BY <1>5 DEF RevokeMembers, CreateIndexFamily, CreateIndexSid, RevokeGet, IInv, TypeOK
  <2> QED BY <1>1, <2>1
<1>6. ASSUME NEW r \in Req, NEW v \in Token, RevokeSet(r, v) PROVE HeadsInv' /\ FamilyStep
  <2>1. /\ UNCHANGED <<familyOf, parent, pc, token>> /\ pc[r] = "revoking"
        /\ refreshTokens' = [refreshTokens EXCEPT ![v] = "revoked"]
    BY <1>6 DEF RevokeSet
  <2> QED BY <1>1, <2>1
<1>7. ASSUME NEW r \in Req, NEW b \in BOOLEAN,
             \/ ExchangeLoad(r, b) \/ RefreshSession(r, b) \/ RefreshAccess(r, b)
             \/ ReuseWriteBack(r) \/ RotateWriteBack(r)
      PROVE  HeadsInv' /\ FamilyStep
  <2>1. UNCHANGED <<familyOf, parent>>
    BY <1>7 DEF ExchangeLoad, RefreshSession, RefreshAccess, ReuseWriteBack, RotateWriteBack
  <2>2. \/ refreshTokens' = refreshTokens
        \/ \E st \in TokenStatus \ {"active"} :
              refreshTokens' = [refreshTokens EXCEPT ![token[r]] = st]
    <3>1. CASE ReuseWriteBack(r)
      BY <3>1 DEF ReuseWriteBack, IInv, RevokeInv, TypeOK
    <3>2. CASE RotateWriteBack(r)
      BY <3>2 DEF RotateWriteBack
    <3> QED BY <1>7, <3>1, <3>2 DEF ExchangeLoad, RefreshSession, RefreshAccess
  <2>3. \/ /\ pc[r] \in RotatePoints \/ pc'[r] = "createStore"
           /\ \A q \in Req \ {r} : pc'[q] = pc[q]
           /\ UNCHANGED localVars
        \/ Return(r)
        \/ \E f \in Token : StartRevocation(r, f, NoCode)
    <3>1. pc[r] \in RotatePoints \cup {"reuseWriteBack"} => familyOf[token[r]] \in Token
      <4>1. pc[r] \in RotatePoints \cup {"reuseWriteBack"}
              => token[r] \in Token /\ Drawn(token[r])
        BY DEF IInv, RotateInv, RevokeInv
      <4> QED BY <4>1 DEF IInv, TypeOK, Drawn
    <3>2. \/ \E point \in {"refreshSession", "refreshAccess", "rotateStore"} :
               pc[r] \in RotatePoints /\ Goto(r, point) /\ UNCHANGED localVars
          \/ Goto(r, "createStore") /\ UNCHANGED localVars
          \/ Return(r)
          \/ /\ pc[r] \in RotatePoints \cup {"reuseWriteBack"}
             /\ StartRevocation(r, familyOf[token[r]], NoCode)
      BY <1>7 DEF ExchangeLoad, RefreshSession, RefreshAccess, RefuseRefresh,
                  ReuseWriteBack, RotateWriteBack
    <3> QED BY <3>1, <3>2, GotoMoves, TypeParts DEF IInv
  <2>4. /\ \/ pc'[r] \in {"idle", "revokeMembers", "createStore"}
           \/ pc[r] \in RotatePoints /\ token'[r] = token[r]
        /\ \A q \in Req \ {r} : pc'[q] = pc[q] /\ token'[q] = token[q]
    BY <2>3, ReturnMoves, StartRevocationMoves, TypeParts DEF IInv, Moved
  <2> QED BY <1>1, <2>1, <2>2, <2>4
<1>8. ASSUME NEW r \in Req, Request(r) PROVE HeadsInv' /\ FamilyStep
  <2>1. ASSUME UNCHANGED <<familyOf, parent, refreshTokens>>, pc[r] = "idle",
               \A q \in Req : \/ pc'[q] = pc[q] /\ token'[q] = token[q]
                              \/ q = r /\ pc'[q] \in {"revokeMembers", "exchangeLoad"}
        PROVE  HeadsInv' /\ FamilyStep
    BY <1>1, <2>1
  <2>2. ASSUME NEW c \in Client, NEW k \in Code, NEW b \in BOOLEAN, ExchangeCode(r, c, k, b)
        PROVE  HeadsInv' /\ FamilyStep
    <3>1. UNCHANGED <<familyOf, parent, refreshTokens>> /\ pc[r] = "idle"
      BY <2>2 DEF ExchangeCode
    <3>2. \A q \in Req : \/ pc'[q] = pc[q] /\ token'[q] = token[q]
                         \/ q = r /\ pc'[q] \in {"revokeMembers", "exchangeLoad"}
      BY <2>2 DEF ExchangeCode, StartRevocation, Continue, IInv, TypeOK
    <3> QED BY <2>1, <3>1, <3>2
  <2>3. ASSUME NEW f, StartRevocation(r, f, NoCode), pc[r] = "idle",
               UNCHANGED <<familyOf, parent, refreshTokens>>
        PROVE  HeadsInv' /\ FamilyStep
    <3>1. \A q \in Req : \/ pc'[q] = pc[q] /\ token'[q] = token[q]
                         \/ q = r /\ pc'[q] \in {"revokeMembers", "exchangeLoad"}
      BY <2>3 DEF StartRevocation, Continue, IInv, TypeOK
    <3> QED BY <2>1, <2>3, <3>1
  <2>4. ASSUME NEW c \in Client, NEW v \in Token, RevokeToken(r, c, v)
        PROVE  HeadsInv' /\ FamilyStep
    BY <2>3, <2>4 DEF RevokeToken
  <2>5. ASSUME NEW s \in Sid, NEW f \in Token, RevokeListed(r, s, f)
        PROVE  HeadsInv' /\ FamilyStep
    BY <2>3, <2>5 DEF RevokeListed
  <2> QED BY <1>8, <2>2, <2>4, <2>5, ConsumeRefines DEF Request
<1>9. ASSUME NEW r \in Req, Step(r) PROVE HeadsInv' /\ FamilyStep
  <2>1. CASE \E v \in Token : CreateStore(r, v) \/ RotateStore(r, v)
    BY <2>1, StoreRefines
  <2>2. CASE \/ RevokeDone(r) \/ ReplayRemember(r) \/ Remember(r)
             \/ \E b \in BOOLEAN : RotateIndex(r, b)
    BY <1>4, <2>2
  <2>3. CASE \/ RevokeMembers(r) \/ CreateIndexFamily(r) \/ CreateIndexSid(r)
             \/ \E v \in Token : RevokeGet(r, v)
    BY <1>5, <2>3
  <2>4. CASE \E v \in Token : RevokeSet(r, v)
    BY <1>6, <2>4
  <2>5. CASE \/ ReuseWriteBack(r) \/ RotateWriteBack(r)
             \/ \E b \in BOOLEAN : ExchangeLoad(r, b) \/ RefreshSession(r, b)
                                   \/ RefreshAccess(r, b)
    BY <1>7, <2>5
  <2> QED BY <1>9, <2>1, <2>2, <2>3, <2>4, <2>5 DEF Step
<1> QED BY <1>2, <1>3, <1>4, <1>8, <1>9 DEF Next, Healthy

\* The token endpoint implements TokenFamily for any number of requests, clients, codes and
\* tokens: seen through the families, its stores start with none, and each command opens a
\* family, spends its head, renews it once, closes it, or changes nothing of it (the GETDEL
\* and write-backs of refresh-tokens.ts).
THEOREM EndpointImplementsTokenFamily == Spec => ImplementsTokenFamily
<1>1. Init => HeadsInv /\ Families!Init
  <2> SUFFICES ASSUME Init PROVE HeadsInv /\ Families!Init
    OBVIOUS
  <2>1. \A f \in Token : familyOf[f] # f
    BY DEF Init
  <2>2. \A f \in Token : FamilyPhase(f) = "none" /\ FamilyHead(f) = NoToken /\ ~Drawn(f)
    BY <2>1 DEF Init, FamilyPhase, FamilyHead, Drawn
  <2> QED BY <2>1, <2>2 DEF HeadsInv, Families!Init
<1>2. IInv /\ HeadsInv /\ [Next]_vars => HeadsInv' /\ [Families!Next]_(Families!abstractVars)
  BY StepRefines DEF FamilyStep
<1> QED BY <1>1, <1>2, Invariance, PTL DEF Spec, ImplementsTokenFamily, Families!Spec

=============================================================================
