------------------------- MODULE SsoSessionsProofs -------------------------
(***************************************************************************)
(* The safety properties of SsoSessions, for any number of requests,       *)
(* sessions, users, services and codes, and any scopes.                    *)
(***************************************************************************)
EXTENDS SsoSessions, TLAPS

-----------------------------------------------------------------------------
(* The inductive invariant *)

\* What a request serves at each point.
KindsAt(point) ==
    CASE point = "idle" -> {"none"}
      [] point \in {"create", "dropPrevious", "access"} -> {"login"}
      [] point \in {"codeSet", "touch"} -> {"login", "authorize"}
      [] point = "load" -> {"authorize", "exchange", "refresh", "logout", "portal"}
      [] point = "store" -> {"refresh"}
      [] point = "index" -> {"exchange", "refresh"}
      [] point \in {"find", "kill", "notify"} -> {"logout", "portal"}
      [] point \in {"affected", "cutAccess"} -> {"remove"}

\* The commands that may be outstanding at each point.
CommandsAt(point) ==
    CASE point = "create" -> {"setSession", "setIndex", "createRow"}
      [] point \in {"dropPrevious", "kill"} -> {"delSession", "delIndex"}
      [] point = "touch" -> {"touchRow", "setSession", "recordClient"}
      [] point = "load" -> {"getSession", "delSession", "delIndex"}
      [] point = "index" -> {"addFamily", "addSid"}
      [] point = "find" -> {"getIndex", "getClients", "getSession", "delSession", "delIndex"}
      [] point = "notify" -> {"markRevoked"}
      [] OTHER -> {}

Grants == {"authorize", "exchange", "refresh"}

\* The kind and the commands of a request fit its point.
AtPoint(r) ==
    /\ kind[r] \in KindsAt(pc[r])
    /\ ops[r] \subseteq CommandsAt(pc[r])
    /\ "addSid" \in ops[r] => kind[r] = "exchange"

\* The locals of a request fit its kind.
Locals(r) ==
    /\ sid[r] = NoSid <=> kind[r] \in {"none", "remove"}
    /\ member[r] # NoMember <=> kind[r] = "remove"
    /\ kind[r] \in Grants \/ pc[r] \in {"access", "codeSet", "touch"} => code[r] \in Code
    /\ kind[r] \in {"none", "logout", "portal", "remove"} => code[r] = NoCode
    /\ code[r] \in Code => sid[r] = SidOf[code[r]]
    /\ kind[r] = "portal" => other[r] \in Sid
    /\ kind[r] \notin {"login", "portal"} => other[r] = NoSid
    /\ pc[r] = "dropPrevious" /\ ops[r] # {} => other[r] \in Sid

\* What a request knows of the session it loads, and what it still has to read.
Loads(r) ==
    /\ kind[r] \in Grants /\ pc[r] # "load" => found[r]
    /\ kind[r] \in {"none", "login", "remove"} => ~found[r]
    /\ pc[r] = "kill" => found[r]
    /\ "getSession" \in ops[r] => ~found[r] /\ ops[r] \cap {"delSession", "delIndex"} = {}
    /\ "getIndex" \in ops[r] => ~found[r] /\ ops[r] \cap {"getSession", "delSession", "delIndex"} = {}
    /\ pc[r] \in {"load", "find"} /\ ops[r] \cap {"delSession", "delIndex"} # {} => ~found[r]

\* The families and the logout tokens a request works on.
Work(r) ==
    /\ pc[r] # "cutAccess" => listing[r] = {}
    /\ pc[r] \notin {"kill", "cutAccess"} => families[r] = {} /\ seen[r] = {}
    /\ pc[r] \notin {"find", "kill", "notify", "cutAccess"} => notices[r] = {}

CallOK(r) == AtPoint(r) /\ Locals(r) /\ Loads(r) /\ Work(r)
CallsInv == \A r \in Req : CallOK(r)

\* What the identity database and the browser know of the session r works on.
RowOf(r) ==
    /\ pc[r] = "load" \/ kind[r] \in Grants => sid[r] \in handed
    /\ kind[r] = "portal" => authSessions[other[r]] # "none"
    /\ pc[r] \in {"find", "kill", "notify"} => authSessions[sid[r]] # "none"
    /\ kind[r] = "login" => sid[r] \notin handed /\ other[r] \in handed \cup {NoSid}
    /\ kind[r] = "login" /\ (pc[r] # "create" \/ "createRow" \notin ops[r])
         => authSessions[sid[r]] # "none"

RowsInv ==
    /\ \A s \in handed : authSessions[s] # "none"
    /\ \A s \in Sid : outcome[s] # "open" => authSessions[s] # "none"
    /\ \A r \in Req : RowOf(r)
    /\ \A r, q \in Req : kind[r] = "login" /\ kind[q] = "login" /\ sid[q] = sid[r] => q = r

\* The service has seen k: as a code, as tokens, or as a session of its own.
Seen(k) == codes[k] \in {"delivered", "used"} \/ family[k] # "none" \/ k \in tenantSessions

Recorded(k) == SidOf[k] \in handed /\ PlaceOf[k] \in sessionClients[SidOf[k]]

RecordedOf(r) ==
    /\ \/ kind[r] \in {"exchange", "refresh"}
       \/ pc[r] = "touch" /\ "recordClient" \notin ops[r]
       => PlaceOf[code[r]] \in sessionClients[sid[r]]
    /\ \A k \in seen[r] : Recorded(k)

\* What a service has seen comes from a session whose cookie reached the browser, and
\* the database knows that the session entered that place.
RecordedInv ==
    /\ \A k \in Code : Seen(k) => Recorded(k)
    /\ \A r \in Req : RecordedOf(r)
    /\ \A s \in Sid : \A k \in sidRefreshFamilies[s] : SidOf[k] = s

\* A deletion of the record of s that already took its index.
Completing(q, s) == "delSession" \in ops[q] /\ "delIndex" \notin ops[q] /\ Victim(q) = s

\* s is gone, or beyond the reach of every lookup and about to go.
Ended(s) == ssoSessions[s] = "absent" \/ \E q \in Req : Completing(q, s)

\* Nobody both ends a session and relies on it, unless it is disturbed.
ExclusionInv ==
    \A s \in Sid \ disturbed :
        /\ \A r, q \in Req : Ending(r, s) => ~Relying(q, s)
        /\ s \in handed /\ ssoSessions[s] = "absent" => \A q \in Req : ~Relying(q, s)

\* A login that has not handed its session over is alone with it.
FreshOf(r) ==
    kind[r] = "login" /\ sid[r] \notin disturbed =>
        /\ authSessions[sid[r]] # "revoked" /\ outcome[sid[r]] = "open"
        /\ pc[r] # "create" \/ "setIndex" \notin ops[r] => sid[r] \in sidIndex

\* What the deletions of a request have achieved.
Deletes(r) ==
    /\ pc[r] \in {"dropPrevious", "kill"} \/ "delIndex" \in ops[r]
    /\ "delSession" \notin ops[r]
Missed(r) ==
    \/ pc[r] = "notify"
    \/ pc[r] = "find" /\ "getIndex" \notin ops[r] /\ "getSession" \notin ops[r] /\ ~found[r]
DeletionOf(r) ==
    Victim(r) \in handed \ disturbed =>
        /\ Deletes(r) => ssoSessions[Victim(r)] = "absent"
        /\ Missed(r) => Ended(Victim(r)) \/ "delSession" \in ops[r]

\* How far the sessions are whose end was told.
EndedOf(s) ==
    s \notin disturbed =>
        /\ s \in handed /\ s \notin sidIndex => Ended(s)
        /\ s \in handed /\ authSessions[s] = "revoked" => Ended(s)
        /\ outcome[s] = "replaced" => s \in handed /\ ssoSessions[s] = "absent"
        /\ outcome[s] = "ended" /\ s \in handed => Ended(s)
        /\ outcome[s] = "revoked" /\ s \in handed => ssoSessions[s] = "absent"

SessionsInv ==
    /\ ExclusionInv
    /\ \A r \in Req : FreshOf(r) /\ DeletionOf(r)
    /\ \A s \in Sid : EndedOf(s)

AllDead(s) == \A k \in Code : SidOf[k] = s => family[k] # "live"

\* Every live family is listed under its session, or in the hands of who ends it.
ListedOf(r) ==
    sid[r] \notin disturbed =>
        /\ \/ kind[r] = "refresh" /\ found[r]
           \/ pc[r] = "index" /\ "addSid" \notin ops[r]
           => code[r] \in sidRefreshFamilies[sid[r]]
        /\ kind[r] = "refresh" /\ "getSession" \in ops[r] =>
               code[r] \in sidRefreshFamilies[sid[r]] \/ ssoSessions[sid[r]] = "absent"
        /\ pc[r] = "kill" =>
               \A k \in Code : SidOf[k] = sid[r] /\ family[k] = "live" =>
                   k \in families[r] \/ k \in seen[r]
        /\ pc[r] = "notify" /\ found[r] =>
               AllDead(sid[r]) /\ (sid[r] \in handed => ssoSessions[sid[r]] = "absent")

ListedInv ==
    /\ \A k \in Code : SidOf[k] \notin disturbed /\ family[k] = "live" =>
                           k \in sidRefreshFamilies[SidOf[k]]
    /\ \A r \in Req : ListedOf(r)
    /\ \A s \in Sid \ disturbed : outcome[s] = "revoked" => AllDead(s)

\* Every service session of a session being ended is, or was, to be told.
ToldOf(r) ==
    /\ pc[r] \in {"find", "kill", "notify"} /\ "getClients" \notin ops[r]
    /\ sid[r] \notin disturbed
    => \A k \in tenantSessions : SidOf[k] = sid[r] =>
           <<ServiceOf(k), sid[r]>> \in notices[r] \cup failed

ToldInv ==
    /\ \A r \in Req : ToldOf(r)
    /\ \A s \in Sid \ disturbed : \A k \in tenantSessions :
         SidOf[k] = s /\ outcome[s] \in {"ended", "revoked"} => <<ServiceOf(k), s>> \in failed

\* A removal works on what the member has in that place, and nothing else.
SelectOf(r) ==
    kind[r] = "remove" =>
        /\ \A k \in families[r] \cup seen[r] : MemberOf(k) = member[r]
        /\ \A s \in listing[r] : UserOf[s] = member[r][1]

SelectInv == \A r \in Req : SelectOf(r)

\* A quiet removal has met no grant, and holds everything the member still has there.
QuietOf(r) ==
    r \in quiet =>
        /\ kind[r] = "remove"
        /\ member[r] \notin serviceMembers /\ ~Granting(member[r])
        /\ pc[r] = "cutAccess" =>
             \A k \in Code : MemberOf(k) = member[r] /\ SidOf[k] \notin disturbed =>
                 /\ family[k] = "live" =>
                        SidOf[k] \in listing[r] \/ k \in families[r] \cup seen[r]
                 /\ k \in tenantSessions =>
                        <<ServiceOf(k), SidOf[k]>> \in notices[r] \cup failed

QuietInv ==
    /\ \A m \in cut : m \notin serviceMembers /\ ~Granting(m)
    /\ \A r \in Req : QuietOf(r)

IInv ==
    /\ TypeOK /\ CallsInv /\ RowsInv /\ RecordedInv
    /\ SessionsInv /\ ListedInv /\ ToldInv
    /\ SelectInv /\ QuietInv /\ QuietRemovalCuts

-----------------------------------------------------------------------------
(* Types *)

\* The tables that relate sessions, codes, places and services are total.
LEMMA Tables ==
  /\ UserOf \in [Sid -> User] /\ ClientOf \in [Place -> Client]
  /\ PlaceOf \in [Code -> Place] /\ SidOf \in [Code -> Sid]
  /\ NoSid \notin Sid /\ NoCode \notin Code /\ NoMember \notin User \X Place
  BY ConstantsAssumption

USE Tables DEF redisVars, dbVars, outVars, callVars, workVars, ghostVars, Kinds, Points,
    Commands, Goto

StoresTyped ==
    /\ ssoSessions \in [Sid -> {"absent", "live", "idle"}]
    /\ sidIndex \subseteq Sid
    /\ sidRefreshFamilies \in [Sid -> SUBSET Code]
    /\ codes \in [Code -> {"unissued", "reserved", "stored", "delivered", "used"}]
    /\ family \in [Code -> {"none", "stored", "listed", "live", "spent", "dead"}]
    /\ authSessions \in [Sid -> {"none", "active", "stale", "revoked"}]
    /\ sessionClients \in [Sid -> SUBSET Place]
    /\ serviceMembers \subseteq User \X Place
    /\ tenantSessions \subseteq Code /\ handed \subseteq Sid /\ scope \in Scopes

CallsTyped ==
    /\ pc \in [Req -> Points] /\ kind \in [Req -> Kinds]
    /\ sid \in [Req -> Sid \cup {NoSid}] /\ other \in [Req -> Sid \cup {NoSid}]
    /\ code \in [Req -> Code \cup {NoCode}]
    /\ member \in [Req -> (User \X Place) \cup {NoMember}]
    /\ found \in [Req -> BOOLEAN] /\ ops \in [Req -> SUBSET Commands]
    /\ listing \in [Req -> SUBSET Sid]
    /\ families \in [Req -> SUBSET Code] /\ seen \in [Req -> SUBSET Code]
    /\ notices \in [Req -> SUBSET (Client \X Sid)]

HistoryTyped ==
    /\ disturbed \subseteq Sid
    /\ outcome \in [Sid -> {"open", "replaced", "ended", "revoked"}]
    /\ quiet \subseteq Req /\ cut \subseteq removed
    /\ removed \subseteq User \X Place
    /\ failed \subseteq Client \X Sid

\* The type invariant, split into the stores, the requests and the history.
LEMMA TypeParts ==
  /\ TypeOK => StoresTyped /\ CallsTyped /\ HistoryTyped
  /\ StoresTyped' /\ CallsTyped' /\ HistoryTyped' => TypeOK'
  BY DEF TypeOK, StoresTyped, CallsTyped, HistoryTyped

-----------------------------------------------------------------------------
(* Moving one request *)

\* The request is where it was, with the locals it had; of the families it read, one may
\* have been consumed meanwhile.
KeepsCall(q) ==
    /\ kind'[q] = kind[q] /\ sid'[q] = sid[q] /\ other'[q] = other[q]
    /\ code'[q] = code[q] /\ member'[q] = member[q]
KeepsWork(q) ==
    /\ listing'[q] = listing[q] /\ families'[q] = families[q] /\ notices'[q] = notices[q]
    /\ seen'[q] \subseteq seen[q]
    /\ \A k \in seen[q] \ seen'[q] : family'[k] = "spent"
Keeps(q) ==
    /\ pc'[q] = pc[q] /\ ops'[q] = ops[q] /\ found'[q] = found[q]
    /\ KeepsCall(q) /\ KeepsWork(q)

\* Only r moves.
Others(r) == \A q \in Req \ {r} : Keeps(q)

NoWork(r) == listing[r] = {} /\ families[r] = {} /\ seen[r] = {} /\ notices[r] = {}

\* A request that returns gives up its locals, and no other moves.
Returned(r) ==
    /\ Others(r)
    /\ pc'[r] = "idle" /\ ops'[r] = {} /\ kind'[r] = "none" /\ sid'[r] = NoSid
    /\ other'[r] = NoSid /\ code'[r] = NoCode /\ member'[r] = NoMember /\ found'[r] = FALSE
    /\ NoWork(r)'

\* What Return does.
LEMMA ReturnMoves ==
  ASSUME NEW r \in Req, CallsTyped, Return(r)
  PROVE  CallsTyped' /\ Returned(r) /\ quiet' = quiet \ {r}
  BY DEF CallsTyped, Return, Returned, NoWork, Others, Keeps, KeepsCall, KeepsWork

\* What Await does: the request goes on with the locals it has.
LEMMA AwaitMoves ==
  ASSUME NEW r \in Req, NEW point \in Points, NEW cmds \in SUBSET Commands,
         CallsTyped, Await(r, point, cmds)
  PROVE  /\ CallsTyped' /\ Others(r)
         /\ pc'[r] = point /\ ops'[r] = cmds /\ found'[r] = found[r]
         /\ KeepsCall(r) /\ KeepsWork(r)
  BY DEF CallsTyped, Await, Others, Keeps, KeepsCall, KeepsWork

\* What Call does.
LEMMA CallMoves ==
  ASSUME NEW r \in Req, NEW knd \in Kinds, NEW point \in Points,
         NEW cmds \in SUBSET Commands, NEW s \in Sid, NEW o \in Sid \cup {NoSid},
         NEW k \in Code \cup {NoCode},
         CallsTyped, Call(r, knd, point, cmds, s, o, k)
  PROVE  /\ CallsTyped' /\ Others(r)
         /\ pc[r] = "idle" /\ pc'[r] = point /\ ops'[r] = cmds /\ kind'[r] = knd
         /\ sid'[r] = s /\ other'[r] = o /\ code'[r] = k /\ member'[r] = member[r]
         /\ found'[r] = found[r] /\ KeepsWork(r)
  BY DEF CallsTyped, Call, Others, Keeps, KeepsCall, KeepsWork

\* What Done does, when the command brings no answer.
LEMMA DoneMoves ==
  ASSUME NEW r \in Req, NEW cmd, CallsTyped, Done(r, cmd), found' = found
  PROVE  /\ CallsTyped' /\ Others(r)
         /\ cmd \in ops[r] /\ pc'[r] = pc[r] /\ ops'[r] = ops[r] \ {cmd}
         /\ found'[r] = found[r] /\ KeepsCall(r) /\ KeepsWork(r)
  BY DEF CallsTyped, Done, Others, Keeps, KeepsCall, KeepsWork

-----------------------------------------------------------------------------
(* What a step of r keeps of the others *)

\* The part of the invariant about the calls only looks at each request by itself.
LEMMA CallsKept ==
  ASSUME CallsInv, NEW r \in Req, Others(r), CallOK(r)'
  PROVE  CallsInv'
<1> SUFFICES ASSUME NEW q \in Req \ {r} PROVE CallOK(q)'
  BY DEF CallsInv
<1>1. Keeps(q) /\ CallOK(q)
  BY DEF Others, CallsInv
<1> QED
  BY <1>1 DEF Keeps, KeepsCall, KeepsWork, CallOK, AtPoint, Locals, Loads, Work

\* A request that has returned is in order.
LEMMA ReturnedOK == ASSUME NEW r \in Req, Returned(r) PROVE CallOK(r)'
  BY DEF Returned, NoWork, CallOK, AtPoint, Locals, Loads, Work, KindsAt, CommandsAt, Grants

\* Where a request is says what it serves and which locals it has.
LEMMA CallFacts ==
  ASSUME TypeOK, CallsInv, NEW q \in Req
  PROVE  /\ kind[q] \in Grants \cup {"login", "logout", "portal"} => sid[q] \in Sid
         /\ pc[q] \in {"find", "kill", "notify"} => kind[q] \in {"logout", "portal"} /\ sid[q] \in Sid
         /\ pc[q] = "load" => kind[q] \in Grants \cup {"logout", "portal"} /\ sid[q] \in Sid
         /\ pc[q] \in {"create", "dropPrevious", "access"} => kind[q] = "login"
         /\ pc[q] \in {"codeSet", "touch"} => kind[q] \in {"login", "authorize"}
         /\ pc[q] = "index" => kind[q] \in {"exchange", "refresh"}
         /\ pc[q] = "store" => kind[q] = "refresh"
         /\ pc[q] \in {"affected", "cutAccess"} => kind[q] = "remove"
         /\ pc[q] = "idle" => kind[q] = "none"
         /\ kind[q] = "portal" => other[q] \in Sid
         /\ kind[q] \in Grants \/ pc[q] \in {"access", "codeSet", "touch"} => code[q] \in Code
         /\ code[q] \in Code => sid[q] = SidOf[code[q]]
         /\ kind[q] = "remove" => member[q] \in User \X Place
<1>1. CallOK(q)
  BY DEF CallsInv
<1>2. kind[q] \in KindsAt(pc[q]) /\ pc[q] \in Points /\ sid[q] \in Sid \cup {NoSid}
      /\ member[q] \in (User \X Place) \cup {NoMember}
  BY <1>1 DEF TypeOK, CallOK, AtPoint
<1> QED
  BY <1>1, <1>2 DEF CallOK, Locals, KindsAt, Grants

\* An outstanding command says where its request is.
LEMMA CommandFacts ==
  ASSUME TypeOK, CallsInv, NEW q \in Req
  PROVE  /\ "setSession" \in ops[q] => pc[q] \in {"create", "touch"}
         /\ ops[q] \cap {"setIndex", "createRow"} # {} => pc[q] = "create"
         /\ ops[q] \cap {"touchRow", "recordClient"} # {} => pc[q] = "touch"
         /\ "getSession" \in ops[q] => pc[q] \in {"load", "find"}
         /\ ops[q] \cap {"getIndex", "getClients"} # {} => pc[q] = "find"
         /\ ops[q] \cap {"delSession", "delIndex"} # {} =>
                pc[q] \in {"dropPrevious", "kill", "load", "find"} /\ Victim(q) \in Sid
         /\ ops[q] \cap {"addFamily", "addSid"} # {} => pc[q] = "index"
         /\ "markRevoked" \in ops[q] => pc[q] = "notify"
<1>1. CallOK(q) /\ pc[q] \in Points /\ ops[q] \subseteq CommandsAt(pc[q])
      /\ other[q] \in Sid \cup {NoSid}
  BY DEF TypeOK, CallsInv, CallOK, AtPoint
<1>2. \A c \in ops[q] : c \in CommandsAt(pc[q])
  BY <1>1
<1>3. ops[q] \cap {"delSession", "delIndex"} # {} =>
          pc[q] \in {"dropPrevious", "kill", "load", "find"}
  BY <1>1, <1>2 DEF CommandsAt
<1>4. ops[q] \cap {"delSession", "delIndex"} # {} => Victim(q) \in Sid
  BY <1>1, <1>3, CallFacts DEF CallOK, Locals, Victim
<1> QED
  BY <1>1, <1>2, <1>3, <1>4 DEF CommandsAt

\* No row, place, cookie or disturbance is taken back.
Grows ==
    /\ \A s \in Sid : /\ authSessions[s] # "none" => authSessions'[s] # "none"
                      /\ sessionClients[s] \subseteq sessionClients'[s]
    /\ handed \subseteq handed' /\ disturbed \subseteq disturbed'

\* A cookie is handed over by the login that made the session, when it returns.
Hands(r) ==
    \A s \in handed' \ handed :
        /\ kind[r] = "login" /\ s = sid[r] /\ kind'[r] = "none"
        /\ pc[r] # "create"

\* A login works on a session of its own.
StartsLogin(r) ==
    kind'[r] = "login" =>
        \/ kind[r] = "login" /\ sid'[r] = sid[r]
        \/ \A q \in Req : sid[q] # sid'[r]

LEMMA RowsKept ==
  ASSUME TypeOK, TypeOK', CallsInv, RowsInv, NEW r \in Req, Others(r), Grows, Hands(r), RowOf(r)',
         StartsLogin(r),
         \A s \in Sid : outcome'[s] # "open" => outcome[s] # "open" \/ authSessions[s] # "none"
  PROVE  RowsInv'
<1>1. \A s \in handed' : authSessions'[s] # "none"
  BY DEF TypeOK, RowsInv, RowOf, Grows, Hands
<1>2. \A s \in Sid : outcome'[s] # "open" => authSessions'[s] # "none"
  BY DEF RowsInv, Grows
<1>3. ASSUME NEW q \in Req \ {r} PROVE RowOf(q)'
  <2>1. Keeps(q) /\ RowOf(q)
    BY DEF Others, RowsInv
  <2>2. kind[q] = "login" => sid[q] \notin handed'
    BY <2>1 DEF RowsInv, RowOf, Hands
  <2> QED
    BY <2>1, <2>2, CallFacts DEF Keeps, KeepsCall, RowOf, Grows
<1>4. ASSUME NEW p \in Req, NEW q \in Req, kind'[p] = "login", kind'[q] = "login",
             sid'[q] = sid'[p]
      PROVE  q = p
  BY <1>4 DEF RowsInv, Others, Keeps, KeepsCall, StartsLogin
<1> QED
  BY <1>1, <1>2, <1>3, <1>4 DEF RowsInv

LEMMA RecordedKept ==
  ASSUME TypeOK, TypeOK', RecordedInv, CallsInv, NEW r \in Req, Others(r), Grows, RecordedOf(r)',
         \A k \in Code : Seen(k)' => Seen(k) \/ Recorded(k)',
         \A s \in Sid : \A k \in sidRefreshFamilies'[s] : k \in sidRefreshFamilies[s] \/ SidOf[k] = s
  PROVE  RecordedInv'
<1>1. \A k \in Code : Seen(k)' => Recorded(k)'
  BY DEF RecordedInv, Recorded, Grows
<1>2. ASSUME NEW q \in Req \ {r} PROVE RecordedOf(q)'
  <2>1. Keeps(q) /\ RecordedOf(q) /\ CallOK(q)
    BY DEF Others, RecordedInv, CallsInv
  <2> QED
    BY <2>1, CallFacts DEF TypeOK, Keeps, KeepsCall, KeepsWork, RecordedOf, Recorded, Grows, Grants
<1> QED
  BY <1>1, <1>2 DEF RecordedInv

\* As far as deletions, grants and logins go the request is where it was.
Steady(q) ==
    /\ pc'[q] = pc[q] /\ kind'[q] = kind[q] /\ sid'[q] = sid[q] /\ other'[q] = other[q]
    /\ found'[q] = found[q]
    /\ \A c \in {"delSession", "delIndex", "getIndex", "getSession", "setIndex"} :
           c \in ops'[q] <=> c \in ops[q]

\* The request leaves nothing half done and goes where it ends no session; if it relies
\* on one, it did before.
Passive(q) ==
    /\ "delSession" \in ops[q] /\ "delIndex" \notin ops[q] => Victim(q) \in disturbed'
    /\ "delSession" \notin ops'[q] /\ "delIndex" \notin ops'[q]
    /\ pc'[q] \notin {"find", "kill", "notify", "dropPrevious"}
    /\ \A s \in Sid : Relying(q, s)' => Relying(q, s)
    /\ kind'[q] = "login" => /\ kind[q] = "login" /\ sid'[q] = sid[q]
                             /\ pc[q] # "create" \/ "setIndex" \notin ops[q]

\* The records, their ends and the rows that say so stay as they are.
SessionsSame ==
    /\ UNCHANGED <<ssoSessions, sidIndex, handed, outcome>>
    /\ \A s \in Sid : authSessions'[s] = "revoked" => authSessions[s] = "revoked"
    /\ disturbed \subseteq disturbed'

LEMMA SessionsKept ==
  ASSUME TypeOK, TypeOK', CallsInv, SessionsInv, SessionsSame,
         \A q \in Req : Steady(q) \/ Passive(q)
  PROVE  SessionsInv'
<1>1. ASSUME NEW s \in Sid \ disturbed', NEW q \in Req
      PROVE  /\ Ending(q, s)' => Ending(q, s)
             /\ Relying(q, s)' => Relying(q, s)
             /\ Completing(q, s) => Completing(q, s)'
  BY DEF Steady, Passive, Ending, Relying, Completing, Victim
<1>2. ExclusionInv'
  BY <1>1 DEF SessionsInv, SessionsSame, ExclusionInv
<1>3. \A s \in Sid \ disturbed' : Ended(s) => Ended(s)'
  BY <1>1 DEF Ended, SessionsSame
<1>4. \A s \in Sid : EndedOf(s)'
  BY <1>3 DEF SessionsInv, SessionsSame, EndedOf
<1>5. ASSUME NEW q \in Req PROVE FreshOf(q)'
  <2>1. kind'[q] = "login" => sid'[q] \in Sid
    BY CallFacts DEF Steady, Passive
  <2> QED
    BY <2>1 DEF SessionsInv, SessionsSame, FreshOf, Steady, Passive
<1>6. ASSUME NEW q \in Req PROVE DeletionOf(q)'
  <2>1. CASE Passive(q)
    BY <2>1 DEF Passive, DeletionOf, Deletes, Missed
  <2>2. CASE Steady(q)
    <3>1. Victim(q)' = Victim(q) /\ (Deletes(q)' => Deletes(q)) /\ (Missed(q)' => Missed(q))
      BY <2>2 DEF Steady, Victim, Deletes, Missed
    <3>2. Victim(q) \in handed' => Victim(q) \in Sid
      BY DEF TypeOK
    <3> QED
      BY <2>2, <3>1, <3>2, <1>3 DEF SessionsInv, SessionsSame, DeletionOf, Steady
  <2> QED BY <2>1, <2>2
<1> QED
  BY <1>2, <1>4, <1>5, <1>6 DEF SessionsInv

\* No family becomes live or leaves the list of its session, no record comes back, no
\* session counts as revoked that did not.
ListedSame ==
    /\ \A k \in Code : family'[k] = "live" => family[k] = "live"
    /\ \A s \in Sid : /\ sidRefreshFamilies[s] \subseteq sidRefreshFamilies'[s]
                      /\ s \in handed \ disturbed' /\ ssoSessions[s] = "absent"
                             => ssoSessions'[s] = "absent"
                      /\ outcome'[s] = "revoked" => outcome[s] = "revoked"
    /\ disturbed \subseteq disturbed'

\* No cookie is handed over of a session whose families somebody has just revoked.
NoneHandedBack ==
    \A q \in Req : pc[q] = "notify" /\ sid[q] \in handed' \ disturbed' => sid[q] \in handed

LEMMA ListedKept ==
  ASSUME TypeOK, TypeOK', CallsInv, RowsInv, ListedInv, NEW r \in Req, Others(r), ListedSame,
         NoneHandedBack, ListedOf(r)'
  PROVE  ListedInv'
<1>1. \A k \in Code : SidOf[k] \notin disturbed' /\ family'[k] = "live" =>
                          k \in sidRefreshFamilies'[SidOf[k]]
  BY DEF ListedInv, ListedSame
<1>2. \A s \in Sid : AllDead(s) => AllDead(s)'
  BY DEF ListedSame, AllDead
<1>3. ASSUME NEW q \in Req \ {r} PROVE ListedOf(q)'
  <2>1. Keeps(q) /\ ListedOf(q) /\ RowOf(q)
    BY DEF Others, ListedInv, RowsInv
  <2>2. ASSUME pc[q] = "kill", sid[q] \notin disturbed', NEW k \in Code, SidOf[k] = sid[q],
               family'[k] = "live"
        PROVE  k \in families'[q] \/ k \in seen'[q]
    BY <2>1, <2>2 DEF Keeps, KeepsCall, KeepsWork, ListedOf, ListedSame
  <2> QED
    BY <2>1, <2>2, <1>2, CallFacts DEF Keeps, KeepsCall, ListedOf, RowOf, ListedSame, NoneHandedBack,
                                       Grants
<1> QED
  BY <1>1, <1>2, <1>3 DEF ListedInv, ListedSame

\* No service session appears, no logout token that failed gets through after all, and
\* no session counts as ended that did not.
ToldSame ==
    /\ tenantSessions' \subseteq tenantSessions /\ failed \subseteq failed'
    /\ \A s \in Sid : outcome'[s] \in {"ended", "revoked"} => outcome[s] \in {"ended", "revoked"}
    /\ disturbed \subseteq disturbed'

LEMMA ToldKept ==
  ASSUME ToldInv, NEW r \in Req, Others(r), ToldSame, ToldOf(r)'
  PROVE  ToldInv'
<1>1. ASSUME NEW q \in Req \ {r} PROVE ToldOf(q)'
  <2>1. Keeps(q) /\ ToldOf(q)
    BY DEF Others, ToldInv
  <2> QED
    BY <2>1 DEF Keeps, KeepsCall, KeepsWork, ToldOf, ToldSame
<1>2. \A s \in Sid \ disturbed' : \A k \in tenantSessions' :
         SidOf[k] = s /\ outcome'[s] \in {"ended", "revoked"} => <<ServiceOf(k), s>> \in failed'
  BY DEF ToldInv, ToldSame
<1> QED
  BY <1>1, <1>2 DEF ToldInv

\* What a removal selects only depends on its own locals.
LEMMA SelectKept ==
  ASSUME SelectInv, NEW r \in Req, Others(r), SelectOf(r)'
  PROVE  SelectInv'
<1> SUFFICES ASSUME NEW q \in Req \ {r} PROVE SelectOf(q)'
  BY DEF SelectInv
<1>1. Keeps(q) /\ SelectOf(q)
  BY DEF Others, SelectInv
<1> QED
  BY <1>1 DEF Keeps, KeepsCall, KeepsWork, SelectOf, MemberOf

\* r holds a grant that has passed, or will never meet, the access check.
GrantsBy(r) == kind[r] = "exchange" \/ pc[r] \in {"codeSet", "touch", "store", "index"}

\* Nobody outside the service is granted anything that was not being granted before.
GrantsOnly == \A m \in (User \X Place) \ serviceMembers' : Granting(m)' => Granting(m)

\* A step of r that issues no code and carries no request past the access check.
LEMMA NothingGranted ==
  ASSUME NEW r \in Req, Others(r),
         \A k \in Code : codes'[k] \in {"stored", "delivered"} => codes[k] \in {"stored", "delivered"},
         code'[r] # NoCode /\ GrantsBy(r)' => code[r] = code'[r] /\ GrantsBy(r)
  PROVE  GrantsOnly
  BY DEF Others, Keeps, KeepsCall, GrantsOnly, Granting, GrantsBy, MemberOf

\* No member comes back, and the member has nothing in the service that was not there.
QuietSame ==
    /\ serviceMembers' \subseteq serviceMembers
    /\ \A k \in Code : family'[k] = "live" => family[k] = "live"
    /\ tenantSessions' \subseteq tenantSessions /\ failed \subseteq failed'
    /\ disturbed \subseteq disturbed'

LEMMA QuietOthers ==
  ASSUME TypeOK, CallsInv, QuietInv, NEW r \in Req, Others(r), QuietSame, GrantsOnly,
         NEW q \in Req \ {r}, q \in quiet
  PROVE  QuietOf(q)'
<1>1. Keeps(q) /\ QuietOf(q) /\ member[q] \in User \X Place
  BY CallFacts DEF Others, QuietInv, QuietSame, QuietOf
<1>2. kind'[q] = "remove" /\ member'[q] \notin serviceMembers' /\ ~Granting(member[q])'
  <2>1. member'[q] = member[q] /\ kind'[q] = kind[q]
    BY <1>1 DEF Keeps, KeepsCall
  <2> QED
    BY <1>1, <2>1 DEF QuietOf, QuietSame, GrantsOnly
<1>3. ASSUME pc'[q] = "cutAccess", NEW k \in Code, MemberOf(k) = member'[q],
             SidOf[k] \notin disturbed'
      PROVE  /\ family'[k] = "live" =>
                    SidOf[k] \in listing'[q] \/ k \in families'[q] \cup seen'[q]
             /\ k \in tenantSessions' =>
                    <<ServiceOf(k), SidOf[k]>> \in notices'[q] \cup failed'
  BY <1>1, <1>3 DEF Keeps, KeepsCall, KeepsWork, QuietOf, QuietSame
<1> QED
  BY <1>2, <1>3 DEF QuietOf, MemberOf, ServiceOf

\* The removals that completed quietly.
LEMMA CutKept ==
  ASSUME TypeOK, QuietInv, QuietRemovalCuts, QuietSame, GrantsOnly, NEW m \in cut
  PROVE  /\ m \notin serviceMembers' /\ ~Granting(m)'
         /\ \A k \in Code : MemberOf(k) = m /\ SidOf[k] \notin disturbed' =>
                /\ family'[k] # "live"
                /\ k \in tenantSessions' => <<ServiceOf(k), SidOf[k]>> \in failed'
<1>1. m \notin serviceMembers' /\ ~Granting(m)'
  BY DEF TypeOK, QuietInv, QuietSame, GrantsOnly
<1>2. \A k \in Code : MemberOf(k) = m /\ SidOf[k] \notin disturbed' =>
          /\ family'[k] # "live"
          /\ k \in tenantSessions' => <<ServiceOf(k), SidOf[k]>> \in failed'
  BY DEF TypeOK, QuietRemovalCuts, QuietSame
<1> QED BY <1>1, <1>2

LEMMA QuietKept ==
  ASSUME TypeOK, CallsInv, QuietInv, QuietRemovalCuts, NEW r \in Req, Others(r), QuietSame,
         quiet' \subseteq quiet, cut' = cut, GrantsOnly, QuietOf(r)'
  PROVE  QuietInv' /\ QuietRemovalCuts'
<1>1. QuietRemovalCuts' /\ \A m \in cut' : m \notin serviceMembers' /\ ~Granting(m)'
  BY CutKept DEF QuietRemovalCuts, MemberOf, ServiceOf
<1>2. \A q \in Req : QuietOf(q)'
  <2> SUFFICES ASSUME NEW q \in Req \ {r} PROVE QuietOf(q)'
    OBVIOUS
  <2>1. CASE q \in quiet
    BY <2>1, QuietOthers
  <2>2. CASE q \notin quiet
    BY <2>2 DEF QuietOf
  <2> QED BY <2>1, <2>2
<1> QED
  BY <1>1, <1>2 DEF QuietInv

-----------------------------------------------------------------------------
(* Tame steps *)

\* A calm step creates and ends nothing; a tame one takes no notice of removals either.
Calm ==
    /\ Grows /\ SessionsSame /\ ListedSame /\ ToldSame
    /\ \A k \in Code : Seen(k)' => Seen(k) \/ Recorded(k)'
    /\ \A s \in Sid : \A k \in sidRefreshFamilies'[s] : k \in sidRefreshFamilies[s] \/ SidOf[k] = s

Tame == Calm /\ QuietSame /\ quiet' \subseteq quiet /\ cut' = cut

\* What the invariant asks of one request by itself.
SelfCalm(r) ==
    CallOK(r) /\ RowOf(r) /\ RecordedOf(r) /\ ListedOf(r) /\ ToldOf(r) /\ SelectOf(r)
SelfOK(r) == SelfCalm(r) /\ QuietOf(r)

\* The invariant but for what it says of removals.
CalmInv ==
    /\ TypeOK /\ CallsInv /\ RowsInv /\ RecordedInv
    /\ SessionsInv /\ ListedInv /\ ToldInv /\ SelectInv

\* After a calm step only the request that took it has to be looked at.
LEMMA CalmStep ==
  ASSUME IInv, NEW r \in Req, Calm, TypeOK', Others(r), SelfCalm(r)', StartsLogin(r),
         Steady(r) \/ Passive(r)
  PROVE  CalmInv'
<1> USE DEF Calm, IInv, SelfCalm
<1>1. CallsInv'
  BY CallsKept
<1>2. RowsInv'
  <2>1. Hands(r) /\ \A s \in Sid : outcome'[s] # "open" => outcome[s] # "open"
    BY DEF SessionsSame, Hands
  <2> QED BY <2>1, RowsKept
<1>3. RecordedInv'
  BY RecordedKept
<1>4. SessionsInv'
  <2>1. \A q \in Req : Steady(q) \/ Passive(q)
    BY DEF Others, Keeps, KeepsCall, Steady
  <2> QED BY <2>1, SessionsKept
<1>5. ListedInv' /\ ToldInv' /\ SelectInv'
  <2>1. NoneHandedBack
    BY DEF SessionsSame, NoneHandedBack
  <2> QED BY <2>1, ListedKept, ToldKept, SelectKept
<1> QED
  BY <1>1, <1>2, <1>3, <1>4, <1>5 DEF CalmInv

LEMMA TameStep ==
  ASSUME IInv, NEW r \in Req, Tame, TypeOK', Others(r), SelfOK(r)', StartsLogin(r),
         Steady(r) \/ Passive(r), GrantsOnly
  PROVE  IInv'
<1>1. CalmInv'
  BY CalmStep DEF Tame, SelfOK
<1>2. QuietInv' /\ QuietRemovalCuts'
  BY QuietKept DEF IInv, Tame, SelfOK
<1> QED
  BY <1>1, <1>2 DEF IInv, CalmInv

\* A request that has returned asks for nothing.
LEMMA ReturnedSelf ==
  ASSUME NEW r \in Req, Returned(r), r \notin quiet' PROVE SelfOK(r)'
<1>1. CallOK(r)'
  BY ReturnedOK
<1> QED
  BY <1>1 DEF Returned, NoWork, SelfOK, SelfCalm, RowOf, RecordedOf, ListedOf, ToldOf, SelectOf, QuietOf,
              Grants

\* A request returns in a tame step; a deletion it leaves half done disturbs its session.
LEMMA ReturnStep ==
  ASSUME IInv, NEW r \in Req, Return(r), StoresTyped', HistoryTyped', Tame,
         \A k \in Code : codes'[k] \in {"stored", "delivered"} => codes[k] \in {"stored", "delivered"},
         "delSession" \in ops[r] /\ "delIndex" \notin ops[r] => Victim(r) \in disturbed'
  PROVE  IInv'
<1>1. CallsTyped' /\ Returned(r) /\ r \notin quiet'
  BY ReturnMoves, TypeParts DEF IInv
<1>2. TypeOK' /\ Others(r) /\ SelfOK(r)'
  BY <1>1, TypeParts, ReturnedSelf DEF Returned
<1>3. StartsLogin(r) /\ Passive(r)
  BY <1>1 DEF Returned, StartsLogin, Passive, Relying
<1>4. GrantsOnly
  BY <1>1, <1>2, NothingGranted DEF Returned
<1> QED
  BY <1>2, <1>3, <1>4, TameStep

\* A step that leaves the stores and the history alone, but for quiet, is tame.
LEMMA IdleIsTame ==
  ASSUME TypeOK, UNCHANGED <<redisVars, dbVars, outVars>>,
         UNCHANGED <<disturbed, outcome, removed, cut, failed>>, quiet' \subseteq quiet
  PROVE  Tame /\ StoresTyped' /\ HistoryTyped'
  BY DEF TypeOK, Tame, Calm, Grows, SessionsSame, ListedSame, ToldSame, QuietSame, Seen, StoresTyped,
         HistoryTyped

-----------------------------------------------------------------------------
(* Requests that are refused or broken off *)

\* The refusals that touch no store.
LEMMA RefusedStep ==
  ASSUME IInv, NEW r \in Req, ExchangeRefused(r) \/ NoSessionToRevoke(r)
  PROVE  IInv'
<1>1. /\ Return(r) /\ ops[r] = {} /\ quiet' = quiet \ {r}
      /\ UNCHANGED <<redisVars, dbVars, outVars>>
      /\ UNCHANGED <<disturbed, outcome, removed, cut, failed>>
  BY DEF ExchangeRefused, NoSessionToRevoke, Resumes, Working, Return
<1>2. Tame /\ StoresTyped' /\ HistoryTyped'
  BY <1>1, IdleIsTame DEF IInv
<1> QED
  BY <1>1, <1>2, ReturnStep

\* A code that is not drawn after all.
LEMMA CodeDropped ==
  ASSUME IInv, NEW k \in Code, codes' = [codes EXCEPT ![k] = "unissued"],
         UNCHANGED <<ssoSessions, sidIndex, sidRefreshFamilies, family, dbVars, tenantSessions,
                     handed, scope, outcome, removed, cut, failed>>,
         disturbed \subseteq disturbed', disturbed' \subseteq Sid, quiet' \subseteq quiet
  PROVE  /\ Tame /\ StoresTyped' /\ HistoryTyped'
         /\ \A x \in Code : codes'[x] \in {"stored", "delivered"} => codes[x] \in {"stored", "delivered"}
  BY DEF IInv, TypeOK, Tame, Calm, Grows, SessionsSame, ListedSame, ToldSame, QuietSame, Seen,
         StoresTyped, HistoryTyped

\* Without a session the browser is sent to log in.
LEMMA UnauthenticatedStep == ASSUME IInv, NEW r \in Req, Unauthenticated(r) PROVE IInv'
<1>1. /\ Return(r) /\ ops[r] = {} /\ code[r] \in Code /\ quiet' = quiet \ {r}
      /\ codes' = [codes EXCEPT ![code[r]] = "unissued"]
  BY CallFacts DEF IInv, Unauthenticated, Resumes, Working, Return, Grants
<1>2. /\ Tame /\ StoresTyped' /\ HistoryTyped'
      /\ \A x \in Code : codes'[x] \in {"stored", "delivered"} => codes[x] \in {"stored", "delivered"}
  BY <1>1, CodeDropped DEF Unauthenticated, IInv, TypeOK
<1> QED
  BY <1>1, <1>2, ReturnStep

\* A request breaks off; the session it was deleting may be left without its index.
LEMMA AbortStep == ASSUME IInv, NEW r \in Req, Abort(r) PROVE IInv'
<1>1. /\ Return(r) /\ quiet' = quiet \ {r}
      /\ UNCHANGED <<ssoSessions, sidIndex, sidRefreshFamilies, family, dbVars, tenantSessions,
                     handed, scope, outcome, removed, cut, failed>>
  BY DEF Abort, Return
<1>2. /\ disturbed \subseteq disturbed' /\ disturbed' \subseteq Sid
      /\ "delSession" \in ops[r] /\ "delIndex" \notin ops[r] => Victim(r) \in disturbed'
  <2>1. "delSession" \in ops[r] => Victim(r) \in Sid
    BY CommandFacts DEF IInv
  <2> QED BY <2>1 DEF Abort, IInv, TypeOK
<1>3. CASE codes' = codes
  <2>1. Tame /\ StoresTyped' /\ HistoryTyped'
    BY <1>1, <1>2, <1>3 DEF IInv, TypeOK, Tame, Calm, Grows, SessionsSame, ListedSame, ToldSame,
                            QuietSame, Seen, StoresTyped, HistoryTyped
  <2> QED BY <1>1, <1>2, <1>3, <2>1, ReturnStep
<1>4. CASE codes' # codes
  <2>1. code[r] \in Code /\ codes' = [codes EXCEPT ![code[r]] = "unissued"]
    BY <1>4 DEF Abort, IInv, TypeOK
  <2> QED BY <1>1, <1>2, <2>1, CodeDropped, ReturnStep
<1> QED BY <1>3, <1>4


-----------------------------------------------------------------------------
(* Requests that arrive and load a session *)

\* An idle slot holds nothing.
LEMMA IdleFacts ==
  ASSUME IInv, NEW r \in Req, pc[r] = "idle"
  PROVE  /\ kind[r] = "none" /\ sid[r] = NoSid /\ code[r] = NoCode /\ member[r] = NoMember
         /\ found[r] = FALSE /\ ops[r] = {} /\ other[r] = NoSid /\ NoWork(r) /\ r \notin quiet
<1>1. CallOK(r) /\ QuietOf(r) /\ kind[r] = "none" /\ found[r] \in BOOLEAN
  BY CallFacts DEF IInv, TypeOK, CallsInv, QuietInv
<1>2. ops[r] = {}
  BY <1>1 DEF CallOK, AtPoint, CommandsAt
<1> QED
  BY <1>1, <1>2 DEF CallOK, Locals, Loads, Work, NoWork, QuietOf

\* A request that loads the session s whose cookie, code or token it came with.
Arrived(r, knd, s, o, k) ==
    /\ pc[r] = "idle" /\ pc'[r] = "load" /\ ops'[r] = {"getSession"} /\ kind'[r] = knd
    /\ sid'[r] = s /\ other'[r] = o /\ code'[r] = k /\ member'[r] = member[r]
    /\ found'[r] = found[r] /\ KeepsWork(r)

LEMMA ArriveStep ==
  ASSUME IInv, NEW r \in Req, NEW knd \in Grants \cup {"logout", "portal"}, NEW s \in handed,
         NEW o, NEW k, Arrived(r, knd, s, o, k),
         TypeOK', Tame, Others(r), GrantsOnly,
         IF knd \in Grants THEN k \in Code /\ s = SidOf[k] ELSE k = NoCode,
         IF knd = "portal" THEN o \in Sid /\ authSessions[o] # "none" ELSE o = NoSid,
         knd \in {"exchange", "refresh"} => PlaceOf[k] \in sessionClients[s],
         knd = "refresh" /\ s \notin disturbed => k \in sidRefreshFamilies[s]
  PROVE  IInv'
<1> USE DEF Arrived
<1>1. /\ kind[r] = "none" /\ member[r] = NoMember /\ found[r] = FALSE /\ ops[r] = {}
      /\ NoWork(r) /\ r \notin quiet' /\ s \in Sid
  BY IdleFacts DEF Tame, IInv, TypeOK
<1>2. NoWork(r)'
  BY <1>1 DEF NoWork, KeepsWork
<1>3. CallOK(r)'
  BY <1>1, <1>2 DEF NoWork, CallOK, AtPoint, Locals, Loads, Work, KindsAt, CommandsAt, Grants
<1>4. RowOf(r)' /\ RecordedOf(r)' /\ ToldOf(r)' /\ SelectOf(r)' /\ QuietOf(r)'
  BY <1>1, <1>2 DEF RowOf, RecordedOf, ToldOf, SelectOf, QuietOf, NoWork, Tame, Calm, Grows, Grants
<1>5. ListedOf(r)'
  BY <1>1 DEF ListedOf, Tame, Calm, ListedSame
<1>6. StartsLogin(r) /\ Passive(r)
  BY <1>1 DEF StartsLogin, Passive, Relying, Grants
<1> QED
  BY <1>3, <1>4, <1>5, <1>6, TameStep DEF SelfOK, SelfCalm

\* POST /logout and POST /sessions/revoke.
LEMMA LogoutStep == ASSUME IInv, NEW r \in Req, NEW s \in Sid, Logout(r, s) PROVE IInv'
<1>1. /\ Call(r, "logout", "load", {"getSession"}, s, NoSid, NoCode) /\ s \in handed
      /\ UNCHANGED <<redisVars, dbVars, outVars>> /\ UNCHANGED ghostVars
  BY DEF Logout
<1>2. CallsTyped' /\ Others(r) /\ Arrived(r, "logout", s, NoSid, NoCode)
  BY <1>1, CallMoves, TypeParts DEF IInv, Arrived
<1>3. Tame /\ TypeOK'
  BY <1>1, <1>2, IdleIsTame, TypeParts DEF IInv
<1>4. GrantsOnly
  BY <1>1, <1>2, NothingGranted DEF Arrived
<1> QED
  BY <1>1, <1>2, <1>3, <1>4, ArriveStep DEF Grants

LEMMA PortalRevokeStep ==
  ASSUME IInv, NEW r \in Req, NEW o \in Sid, NEW s \in Sid, PortalRevoke(r, o, s) PROVE IInv'
<1>1. /\ Call(r, "portal", "load", {"getSession"}, o, s, NoCode) /\ o \in handed
      /\ authSessions[s] # "none"
      /\ UNCHANGED <<redisVars, dbVars, outVars>> /\ UNCHANGED ghostVars
  BY DEF PortalRevoke
<1>2. CallsTyped' /\ Others(r) /\ Arrived(r, "portal", o, s, NoCode)
  BY <1>1, CallMoves, TypeParts DEF IInv, Arrived
<1>3. Tame /\ TypeOK'
  BY <1>1, <1>2, IdleIsTame, TypeParts DEF IInv
<1>4. GrantsOnly
  BY <1>1, <1>2, NothingGranted DEF Arrived
<1> QED
  BY <1>1, <1>2, <1>3, <1>4, ArriveStep DEF Grants

\* GET /authorize: the code is only reserved.
LEMMA AuthorizeStep == ASSUME IInv, NEW r \in Req, NEW k \in Code, Authorize(r, k) PROVE IInv'
<1>1. /\ Call(r, "authorize", "load", {"getSession"}, SidOf[k], NoSid, k) /\ SidOf[k] \in handed
      /\ codes' = [codes EXCEPT ![k] = "reserved"]
      /\ UNCHANGED <<ssoSessions, sidIndex, sidRefreshFamilies, family, dbVars, outVars, ghostVars>>
  BY DEF Authorize
<1>2. CallsTyped' /\ Others(r) /\ Arrived(r, "authorize", SidOf[k], NoSid, k)
  BY <1>1, CallMoves, TypeParts DEF IInv, Arrived
<1>3. Tame /\ StoresTyped' /\ HistoryTyped'
  BY <1>1 DEF IInv, TypeOK, Tame, Calm, Grows, SessionsSame, ListedSame, ToldSame, QuietSame, Seen,
              StoresTyped, HistoryTyped
<1>4. GrantsOnly
  <2>1. ~GrantsBy(r)'
    BY <1>2 DEF Arrived, GrantsBy
  <2> QED BY <1>1, <1>2, <2>1, NothingGranted DEF IInv, TypeOK
<1> QED
  BY <1>1, <1>2, <1>3, <1>4, ArriveStep, TypeParts DEF Grants

\* The service redeems a code that was delivered to it.
LEMMA ExchangeStep == ASSUME IInv, NEW r \in Req, NEW k \in Code, Exchange(r, k) PROVE IInv'
<1>1. /\ Call(r, "exchange", "load", {"getSession"}, SidOf[k], NoSid, k)
      /\ codes[k] = "delivered" /\ codes' = [codes EXCEPT ![k] = "used"]
      /\ UNCHANGED <<ssoSessions, sidIndex, sidRefreshFamilies, family, dbVars, outVars, ghostVars>>
  BY DEF Exchange
<1>2. CallsTyped' /\ Others(r) /\ Arrived(r, "exchange", SidOf[k], NoSid, k)
  BY <1>1, CallMoves, TypeParts DEF IInv, Arrived
<1>3. Tame /\ StoresTyped' /\ HistoryTyped'
  BY <1>1 DEF IInv, TypeOK, Tame, Calm, Grows, SessionsSame, ListedSame, ToldSame, QuietSame, Seen,
              StoresTyped, HistoryTyped
<1>4. SidOf[k] \in handed /\ PlaceOf[k] \in sessionClients[SidOf[k]]
  BY <1>1 DEF IInv, RecordedInv, Recorded, Seen
<1>5. GrantsOnly
  <2> SUFFICES ASSUME NEW m, Granting(m)' PROVE Granting(m)
    BY DEF GrantsOnly
  <2>1. \A x \in Code : codes'[x] \in {"stored", "delivered"} => codes[x] \in {"stored", "delivered"}
    BY <1>1 DEF IInv, TypeOK
  <2>2. CASE \E x \in Code : MemberOf(x) = m /\ codes'[x] \in {"stored", "delivered"}
    BY <2>1, <2>2 DEF Granting
  <2>3. CASE m = MemberOf(k)
    BY <1>1, <2>3 DEF Granting
  <2>4. CASE \E q \in Req \ {r} : /\ code[q] # NoCode /\ MemberOf(code[q]) = m /\ GrantsBy(q)
    BY <2>4 DEF Granting, GrantsBy
  <2> QED
    BY <1>2, <2>2, <2>3, <2>4 DEF Granting, GrantsBy, Arrived, Others, Keeps, KeepsCall, MemberOf
<1> QED
  BY <1>1, <1>2, <1>3, <1>4, <1>5, ArriveStep, TypeParts DEF Grants

\* The service presents a token: its family is spent, and out of reach of who read it.
LEMMA RefreshStep == ASSUME IInv, NEW r \in Req, NEW k \in Code, Refresh(r, k) PROVE IInv'
<1>1. /\ family[k] = "live" /\ family' = [family EXCEPT ![k] = "spent"] /\ pc[r] = "idle"
      /\ UNCHANGED <<ssoSessions, sidIndex, sidRefreshFamilies, codes, dbVars, outVars, ghostVars>>
  BY DEF Refresh
<1>2. CallsTyped'
  BY DEF IInv, TypeOK, CallsTyped, Refresh
<1>3. Others(r) /\ Arrived(r, "refresh", SidOf[k], NoSid, k)
  <2>1. other[r] = NoSid
    BY <1>1, IdleFacts
  <2> QED
    BY <2>1 DEF IInv, TypeOK, Refresh, Others, Keeps, KeepsCall, KeepsWork, Arrived
<1>4. Tame /\ StoresTyped' /\ HistoryTyped'
  BY <1>1 DEF IInv, TypeOK, Tame, Calm, Grows, SessionsSame, ListedSame, ToldSame, QuietSame, Seen,
              StoresTyped, HistoryTyped
<1>5. /\ SidOf[k] \in handed /\ PlaceOf[k] \in sessionClients[SidOf[k]]
      /\ SidOf[k] \notin disturbed => k \in sidRefreshFamilies[SidOf[k]]
  BY <1>1 DEF IInv, RecordedInv, Recorded, Seen, ListedInv
<1>6. GrantsOnly
  <2>1. ~GrantsBy(r)'
    BY <1>3 DEF Arrived, GrantsBy
  <2> QED BY <1>1, <1>3, <2>1, NothingGranted
<1> QED
  BY <1>2, <1>3, <1>4, <1>5, <1>6, ArriveStep, TypeParts DEF Grants

\* A request with a code or a token works for a place its session is known to have entered.
LEMMA RecordedCode ==
  ASSUME IInv, NEW r \in Req, kind[r] \in {"exchange", "refresh"}
  PROVE  code[r] \in Code /\ sid[r] = SidOf[code[r]] /\ Recorded(code[r])
<1>1. RowOf(r) /\ RecordedOf(r)
  BY DEF IInv, RowsInv, RecordedInv
<1> QED
  BY <1>1, CallFacts DEF IInv, RowOf, RecordedOf, Recorded, Grants

\* validateRefreshContext fails: the family is revoked.
LEMMA RefreshRefusedStep == ASSUME IInv, NEW r \in Req, RefreshRefused(r) PROVE IInv'
<1>1. /\ Return(r) /\ ops[r] = {} /\ code[r] \in Code /\ quiet' = quiet \ {r}
      /\ family' = [family EXCEPT ![code[r]] = "dead"]
      /\ UNCHANGED <<ssoSessions, sidIndex, sidRefreshFamilies, codes, dbVars, outVars,
                     disturbed, outcome, removed, cut, failed>>
  BY CallFacts DEF IInv, RefreshRefused, Resumes, Working, Return, Grants
<1>2. Recorded(code[r])
  BY <1>1, RecordedCode DEF RefreshRefused
<1>3. Tame /\ StoresTyped' /\ HistoryTyped'
  BY <1>1, <1>2 DEF IInv, TypeOK, Tame, Calm, Grows, SessionsSame, ListedSame, ToldSame, QuietSame, Seen,
                    Recorded, StoresTyped, HistoryTyped
<1> QED
  BY <1>1, <1>3, ReturnStep

-----------------------------------------------------------------------------
(* Commands that only add to a row, a list or a family *)

\* A request that has one command less to wait for is in order if what the command was
\* for has been done.
LEMMA SelfKept ==
  ASSUME IInv, NEW r \in Req, Grows, handed' = handed, ListedSame, ToldSame, QuietSame,
         quiet' \subseteq quiet, GrantsOnly,
         pc'[r] = pc[r], found'[r] = found[r], KeepsCall(r), KeepsWork(r),
         ops'[r] \subseteq ops[r], "getClients" \in ops[r] => "getClients" \in ops'[r],
         pc[r] = "create" /\ "createRow" \notin ops'[r] => authSessions'[sid[r]] # "none",
         pc[r] = "touch" /\ "recordClient" \notin ops'[r] => PlaceOf[code[r]] \in sessionClients'[sid[r]],
         pc[r] = "index" /\ "addSid" \notin ops'[r] /\ sid[r] \notin disturbed =>
             code[r] \in sidRefreshFamilies'[sid[r]]
  PROVE  SelfOK(r)'
<1>1. CallOK(r) /\ RowOf(r) /\ RecordedOf(r) /\ ListedOf(r) /\ ToldOf(r) /\ SelectOf(r) /\ QuietOf(r)
  BY DEF IInv, CallsInv, RowsInv, RecordedInv, ListedInv, ToldInv, SelectInv, QuietInv
<1>2. CallOK(r)'
  BY <1>1 DEF KeepsCall, KeepsWork, CallOK, AtPoint, Locals, Loads, Work
<1>3. RowOf(r)' /\ RecordedOf(r)'
  BY <1>1, CallFacts DEF IInv, TypeOK, KeepsCall, KeepsWork, RowOf, RecordedOf, Recorded, Grows,
                         ListedSame, Grants
<1>4. ListedOf(r)'
  <2>1. \A s \in Sid : AllDead(s) => AllDead(s)'
    BY DEF ListedSame, AllDead
  <2>2. ASSUME pc[r] = "kill", sid[r] \notin disturbed', NEW k \in Code, SidOf[k] = sid[r],
               family'[k] = "live"
        PROVE  k \in families'[r] \/ k \in seen'[r]
    BY <1>1, <2>2 DEF KeepsWork, ListedOf, ListedSame
  <2> QED
    BY <1>1, <2>1, <2>2, CallFacts DEF IInv, KeepsCall, ListedOf, RowOf, ListedSame, Grants
<1>5. ToldOf(r)' /\ SelectOf(r)'
  BY <1>1 DEF KeepsCall, KeepsWork, ToldOf, ToldSame, SelectOf, MemberOf
<1>6. QuietOf(r)'
  <2> SUFFICES ASSUME r \in quiet' PROVE QuietOf(r)'
    BY DEF QuietOf
  <2>1. r \in quiet /\ member[r] \in User \X Place /\ member'[r] = member[r] /\ kind'[r] = "remove"
    BY <1>1, CallFacts DEF IInv, QuietSame, QuietOf, KeepsCall
  <2>2. member'[r] \notin serviceMembers' /\ ~Granting(member[r])'
    BY <1>1, <2>1 DEF QuietOf, QuietSame, GrantsOnly
  <2>3. ASSUME pc'[r] = "cutAccess", NEW k \in Code, MemberOf(k) = member'[r],
               SidOf[k] \notin disturbed'
        PROVE  /\ family'[k] = "live" =>
                      SidOf[k] \in listing'[r] \/ k \in families'[r] \cup seen'[r]
               /\ k \in tenantSessions' =>
                      <<ServiceOf(k), SidOf[k]>> \in notices'[r] \cup failed'
    BY <1>1, <2>1, <2>3 DEF KeepsWork, QuietOf, QuietSame
  <2> QED
    BY <2>1, <2>2, <2>3 DEF QuietOf, MemberOf, ServiceOf
<1> QED
  BY <1>2, <1>3, <1>4, <1>5, <1>6 DEF SelfOK, SelfCalm

\* A command that leaves the records and their ends alone, and does what it was for.
LEMMA CommandStep ==
  ASSUME IInv, NEW r \in Req,
         NEW cmd \in {"createRow", "touchRow", "recordClient", "addFamily", "addSid"},
         Done(r, cmd), found' = found, Tame, StoresTyped', HistoryTyped', codes' = codes,
         cmd = "createRow" => authSessions'[sid[r]] # "none",
         cmd = "recordClient" => PlaceOf[code[r]] \in sessionClients'[sid[r]],
         cmd = "addSid" => code[r] \in sidRefreshFamilies'[sid[r]]
  PROVE  IInv'
<1>1. /\ CallsTyped' /\ Others(r)
      /\ cmd \in ops[r] /\ pc'[r] = pc[r] /\ ops'[r] = ops[r] \ {cmd}
      /\ found'[r] = found[r] /\ KeepsCall(r) /\ KeepsWork(r)
  BY DoneMoves, TypeParts DEF IInv
<1>2. GrantsOnly
  BY <1>1, NothingGranted DEF KeepsCall, GrantsBy
<1>3. Steady(r) /\ StartsLogin(r)
  BY <1>1 DEF Steady, StartsLogin, KeepsCall
<1>4. /\ pc[r] = "create" /\ "createRow" \notin ops'[r] => authSessions'[sid[r]] # "none"
      /\ pc[r] = "touch" /\ "recordClient" \notin ops'[r] =>
             PlaceOf[code[r]] \in sessionClients'[sid[r]]
      /\ pc[r] = "index" /\ "addSid" \notin ops'[r] /\ sid[r] \notin disturbed =>
             code[r] \in sidRefreshFamilies'[sid[r]]
  <2>1. RowOf(r) /\ RecordedOf(r) /\ ListedOf(r)
    BY DEF IInv, RowsInv, RecordedInv, ListedInv
  <2>2. pc[r] \in {"create", "touch", "index"} => sid[r] \in Sid
    BY CallFacts DEF IInv, Grants
  <2> QED
    BY <1>1, <2>1, <2>2, CallFacts DEF IInv, RowOf, RecordedOf, ListedOf, Tame, Calm, Grows, ListedSame
<1>5. SelfOK(r)'
  BY <1>1, <1>2, <1>4, SelfKept DEF Tame, Calm, SessionsSame
<1> QED
  BY <1>1, <1>2, <1>3, <1>5, TameStep, TypeParts

LEMMA CreateRowStep == ASSUME IInv, NEW r \in Req, CreateRow(r) PROVE IInv'
<1>1. /\ Done(r, "createRow") /\ found' = found /\ sid[r] \in Sid
      /\ authSessions' = [authSessions EXCEPT ![sid[r]] = "active"]
      /\ UNCHANGED <<redisVars, sessionClients, serviceMembers, outVars, ghostVars>>
  BY CommandFacts, CallFacts DEF CreateRow, Done, IInv, Grants
<1>2. Tame /\ StoresTyped' /\ HistoryTyped'
  BY <1>1 DEF IInv, TypeOK, Tame, Calm, Grows, SessionsSame, ListedSame, ToldSame, QuietSame, Seen,
              StoresTyped, HistoryTyped
<1> QED
  BY <1>1, <1>2, CommandStep DEF IInv, TypeOK

LEMMA TouchRowStep == ASSUME IInv, NEW r \in Req, TouchRow(r) PROVE IInv'
<1>1. /\ Done(r, "touchRow") /\ found' = found /\ sid[r] \in Sid
      /\ authSessions' = [authSessions EXCEPT ![sid[r]] = IF @ = "stale" THEN "active" ELSE @]
      /\ UNCHANGED <<redisVars, sessionClients, serviceMembers, outVars, ghostVars>>
  BY CommandFacts, CallFacts DEF TouchRow, Done, IInv, Grants
<1>2. Tame /\ StoresTyped' /\ HistoryTyped'
  BY <1>1 DEF IInv, TypeOK, Tame, Calm, Grows, SessionsSame, ListedSame, ToldSame, QuietSame, Seen,
              StoresTyped, HistoryTyped
<1> QED
  BY <1>1, <1>2, CommandStep

LEMMA RecordClientStep == ASSUME IInv, NEW r \in Req, RecordClient(r) PROVE IInv'
<1>1. /\ Done(r, "recordClient") /\ found' = found /\ sid[r] \in Sid /\ code[r] \in Code
      /\ sessionClients' = [sessionClients EXCEPT ![sid[r]] = @ \cup {PlaceOf[code[r]]}]
      /\ UNCHANGED <<redisVars, authSessions, serviceMembers, outVars, ghostVars>>
  BY CommandFacts, CallFacts DEF RecordClient, Done, IInv, Grants
<1>2. Tame /\ StoresTyped' /\ HistoryTyped'
  BY <1>1 DEF IInv, TypeOK, Tame, Calm, Grows, SessionsSame, ListedSame, ToldSame, QuietSame, Seen,
              StoresTyped, HistoryTyped
<1> QED
  BY <1>1, <1>2, CommandStep DEF IInv, TypeOK

LEMMA AddFamilyStep == ASSUME IInv, NEW r \in Req, AddFamily(r) PROVE IInv'
<1>1. /\ Done(r, "addFamily") /\ found' = found /\ code[r] \in Code /\ Recorded(code[r])
      /\ family' = [family EXCEPT ![code[r]] = "listed"]
      /\ UNCHANGED <<ssoSessions, sidIndex, sidRefreshFamilies, codes, dbVars, outVars, ghostVars>>
  BY CommandFacts, CallFacts, RecordedCode DEF AddFamily, Done, IInv
<1>2. Tame /\ StoresTyped' /\ HistoryTyped'
  BY <1>1 DEF IInv, TypeOK, Tame, Calm, Grows, SessionsSame, ListedSame, ToldSame, QuietSame, Seen,
              Recorded, StoresTyped, HistoryTyped
<1> QED
  BY <1>1, <1>2, CommandStep

LEMMA AddSidStep == ASSUME IInv, NEW r \in Req, AddSid(r) PROVE IInv'
<1>1. /\ Done(r, "addSid") /\ found' = found /\ code[r] \in Code /\ sid[r] = SidOf[code[r]]
      /\ sidRefreshFamilies' = [sidRefreshFamilies EXCEPT ![sid[r]] = @ \cup {code[r]}]
      /\ UNCHANGED <<ssoSessions, sidIndex, codes, family, dbVars, outVars, ghostVars>>
  BY CommandFacts, CallFacts, RecordedCode DEF AddSid, Done, IInv
<1>2. Tame /\ StoresTyped' /\ HistoryTyped'
  BY <1>1 DEF IInv, TypeOK, Tame, Calm, Grows, SessionsSame, ListedSame, ToldSame, QuietSame, Seen,
              StoresTyped, HistoryTyped
<1> QED
  BY <1>1, <1>2, CommandStep DEF IInv, TypeOK

-----------------------------------------------------------------------------
(* Work on families and logout tokens *)

\* A request that only gets on with its families and logout tokens.
LEMMA WorkStep ==
  ASSUME IInv, NEW r \in Req, Tame, TypeOK', Others(r), codes' = codes,
         pc'[r] = pc[r], found'[r] = found[r], KeepsCall(r),
         ops'[r] \subseteq ops[r], ops[r] \ {"getClients"} \subseteq ops'[r],
         Work(r)', \A k \in seen'[r] : Recorded(k),
         ListedOf(r)', ToldOf(r)', SelectOf(r)', GrantsOnly => QuietOf(r)'
  PROVE  IInv'
<1>1. CallOK(r) /\ RowOf(r) /\ RecordedOf(r)
  BY DEF IInv, CallsInv, RowsInv, RecordedInv
<1>2. GrantsOnly
  BY NothingGranted DEF KeepsCall, GrantsBy
<1>3. Steady(r) /\ StartsLogin(r)
  BY DEF Steady, StartsLogin, KeepsCall
<1>4. CallOK(r)'
  BY <1>1 DEF KeepsCall, CallOK, AtPoint, Locals, Loads
<1>5. RowOf(r)'
  <2>1. "createRow" \in ops'[r] <=> "createRow" \in ops[r]
    OBVIOUS
  <2> QED
    BY <1>1, <2>1, CallFacts DEF IInv, TypeOK, KeepsCall, RowOf, Tame, Calm, Grows, SessionsSame, Grants
<1>6. RecordedOf(r)'
  <2>1. "recordClient" \in ops'[r] <=> "recordClient" \in ops[r]
    OBVIOUS
  <2> QED
    BY <1>1, <2>1, CallFacts DEF IInv, TypeOK, KeepsCall, RecordedOf, Recorded, Tame, Calm, Grows, Grants
<1> QED
  BY <1>2, <1>3, <1>4, <1>5, <1>6, TameStep DEF SelfOK, SelfCalm

\* findWithClients: every service that entered through the session will be told.
LEMMA GetClientsStep == ASSUME IInv, NEW r \in Req, GetClients(r) PROVE IInv'
<1>1. /\ "getClients" \in ops[r] /\ pc[r] = "find" /\ sid[r] \in Sid /\ kind[r] # "remove"
      /\ UNCHANGED <<redisVars, dbVars, outVars>> /\ UNCHANGED ghostVars
      /\ UNCHANGED <<pc, callVars, found, listing, families, seen>>
  BY CommandFacts, CallFacts DEF GetClients, IInv
<1>2. CallsTyped' /\ Others(r) /\ pc'[r] = pc[r] /\ found'[r] = found[r] /\ KeepsCall(r)
  <2>1. {ClientOf[p] : p \in sessionClients[sid[r]]} \X {sid[r]} \subseteq Client \X Sid
    BY <1>1 DEF IInv, TypeOK
  <2> QED
    BY <1>1, <2>1 DEF IInv, TypeOK, CallsTyped, GetClients, Others, Keeps, KeepsCall, KeepsWork
<1>3. Tame /\ TypeOK'
  BY <1>1, <1>2, IdleIsTame, TypeParts DEF IInv
<1>4. /\ ops'[r] = ops[r] \ {"getClients"}
      /\ notices'[r] = {ClientOf[p] : p \in sessionClients[sid[r]]} \X {sid[r]}
  BY <1>1 DEF IInv, TypeOK, GetClients, RowsInv, RowOf
<1>5. Work(r)' /\ \A k \in seen'[r] : Recorded(k)
  BY <1>1, <1>2 DEF IInv, CallsInv, CallOK, Work, RecordedInv, RecordedOf
<1>6. ListedOf(r)'
  BY <1>1, <1>2, <1>4 DEF IInv, ListedInv, ListedOf, KeepsCall
<1>7. ToldOf(r)'
  <2> SUFFICES ASSUME NEW k \in tenantSessions, SidOf[k] = sid[r]
               PROVE  <<ServiceOf(k), sid[r]>> \in notices'[r]
    BY <1>1 DEF ToldOf, ServiceOf
  <2>1. k \in Code /\ PlaceOf[k] \in sessionClients[sid[r]]
    BY DEF IInv, TypeOK, RecordedInv, Recorded, Seen
  <2> QED
    BY <1>4, <2>1 DEF ServiceOf
<1>8. SelectOf(r)' /\ QuietOf(r)'
  BY <1>1, <1>2 DEF SelectOf, QuietOf, KeepsCall, IInv, QuietInv
<1> QED
  BY <1>1, <1>2, <1>3, <1>4, <1>5, <1>6, <1>7, <1>8, WorkStep

\* The families a revocation and a removal work on.
LEMMA FamilyFacts ==
  ASSUME IInv, NEW r \in Req
  PROVE  /\ listing[r] # {} => pc[r] = "cutAccess"
         /\ families[r] \cup seen[r] # {} => pc[r] \in {"kill", "cutAccess"}
         /\ notices[r] # {} => pc[r] \in {"find", "kill", "notify", "cutAccess"}
         /\ pc[r] = "cutAccess" => kind[r] = "remove" /\ member[r] \in User \X Place
         /\ pc[r] \in {"find", "kill", "notify"} => kind[r] # "remove" /\ sid[r] \in Sid
  BY CallFacts DEF IInv, CallsInv, CallOK, Work

\* The first half of revokeRefreshTokenFamily.
LEMMA ReadFamilyStep ==
  ASSUME IInv, NEW r \in Req, NEW k \in Code, ReadFamily(r, k) PROVE IInv'
<1>1. /\ k \in families[r] /\ pc[r] \in {"kill", "cutAccess"}
      /\ UNCHANGED <<redisVars, dbVars, outVars>> /\ UNCHANGED ghostVars
      /\ UNCHANGED <<pc, callVars, found, ops, listing, notices>>
  BY FamilyFacts DEF ReadFamily
<1>2. CallsTyped' /\ Others(r) /\ pc'[r] = pc[r] /\ found'[r] = found[r] /\ KeepsCall(r)
  BY <1>1 DEF IInv, TypeOK, CallsTyped, ReadFamily, Others, Keeps, KeepsCall, KeepsWork
<1>3. Tame /\ TypeOK'
  BY <1>1, <1>2, IdleIsTame, TypeParts DEF IInv
<1>4. /\ families'[r] = families[r] \ {k}
      /\ seen'[r] = IF family[k] \in {"listed", "live"} THEN seen[r] \cup {k} ELSE seen[r]
  BY DEF IInv, TypeOK, ReadFamily
<1>5. Work(r)' /\ \A x \in seen'[r] : Recorded(x)
  BY <1>1, <1>2, <1>4 DEF IInv, CallsInv, CallOK, Work, RecordedInv, RecordedOf, Seen
<1>6. ListedOf(r)'
  BY <1>1, <1>2, <1>4 DEF IInv, ListedInv, ListedOf, KeepsCall, AllDead
<1>7. ToldOf(r)' /\ SelectOf(r)'
  BY <1>1, <1>2, <1>4 DEF IInv, ToldInv, ToldOf, SelectInv, SelectOf, KeepsCall, MemberOf
<1>8. ASSUME GrantsOnly PROVE QuietOf(r)'
  <2>1. QuietOf(r) /\ member'[r] = member[r] /\ kind'[r] = kind[r]
    BY <1>2 DEF IInv, QuietInv, KeepsCall
  <2>2. r \in quiet => ~Granting(member[r])'
    BY <1>1, <1>8, <2>1, CallFacts DEF IInv, QuietOf, GrantsOnly
  <2> QED
    BY <1>1, <1>4, <2>1, <2>2 DEF QuietOf, MemberOf, ServiceOf
<1> QED
  BY <1>1, <1>2, <1>3, <1>5, <1>6, <1>7, <1>8, WorkStep

\* The second half: the tokens that were read are set.
LEMMA RevokeFamilyStep ==
  ASSUME IInv, NEW r \in Req, NEW k \in Code, RevokeFamily(r, k) PROVE IInv'
<1>1. /\ k \in seen[r] /\ pc[r] \in {"kill", "cutAccess"}
      /\ family' = [family EXCEPT ![k] = "dead"]
      /\ UNCHANGED <<ssoSessions, sidIndex, sidRefreshFamilies, codes, dbVars, outVars, ghostVars>>
      /\ UNCHANGED <<pc, callVars, found, ops, listing, families, notices>>
  BY FamilyFacts DEF RevokeFamily
<1>2. CallsTyped' /\ Others(r) /\ pc'[r] = pc[r] /\ found'[r] = found[r] /\ KeepsCall(r)
  BY <1>1 DEF IInv, TypeOK, CallsTyped, RevokeFamily, Others, Keeps, KeepsCall, KeepsWork
<1>3. Tame /\ StoresTyped' /\ HistoryTyped'
  <2>1. Recorded(k)
    BY <1>1 DEF IInv, RecordedInv, RecordedOf
  <2> QED
    BY <1>1, <2>1 DEF IInv, TypeOK, Tame, Calm, Grows, SessionsSame, ListedSame, ToldSame, QuietSame,
                      Seen, Recorded, StoresTyped, HistoryTyped
<1>4. seen'[r] = seen[r] \ {k} /\ family'[k] # "live"
      /\ \A x \in Code : family'[x] = "live" => family[x] = "live"
  BY <1>1 DEF IInv, TypeOK, RevokeFamily
<1>5. Work(r)' /\ \A x \in seen'[r] : Recorded(x)
  BY <1>1, <1>2, <1>4 DEF IInv, CallsInv, CallOK, Work, RecordedInv, RecordedOf
<1>6. ListedOf(r)'
  BY <1>1, <1>2, <1>4 DEF IInv, ListedInv, ListedOf, KeepsCall, AllDead
<1>7. ToldOf(r)' /\ SelectOf(r)'
  BY <1>1, <1>2, <1>4 DEF IInv, ToldInv, ToldOf, SelectInv, SelectOf, KeepsCall, MemberOf
<1>8. ASSUME GrantsOnly PROVE QuietOf(r)'
  <2>1. QuietOf(r) /\ member'[r] = member[r] /\ kind'[r] = kind[r]
    BY <1>2 DEF IInv, QuietInv, KeepsCall
  <2>2. r \in quiet => ~Granting(member[r])'
    BY <1>1, <1>8, <2>1, CallFacts DEF IInv, QuietOf, GrantsOnly
  <2> QED
    BY <1>1, <1>4, <2>1, <2>2 DEF QuietOf, MemberOf, ServiceOf
<1> QED
  BY <1>1, <1>2, <1>3, <1>5, <1>6, <1>7, <1>8, WorkStep, TypeParts

\* The filter of revokeClientAccess: what is listed is of this member in this place, and
\* every live family of the session that is comes along.
LEMMA ListMatchingStep ==
  ASSUME IInv, NEW r \in Req, NEW s \in Sid, ListMatching(r, s) PROVE IInv'
<1>1. /\ s \in listing[r] /\ pc[r] = "cutAccess" /\ kind[r] = "remove"
      /\ member[r] \in User \X Place
      /\ UNCHANGED <<redisVars, dbVars, outVars>> /\ UNCHANGED ghostVars
      /\ UNCHANGED <<pc, callVars, found, ops, seen, notices>>
  BY FamilyFacts DEF ListMatching
<1>2. CallsTyped' /\ Others(r) /\ pc'[r] = pc[r] /\ found'[r] = found[r] /\ KeepsCall(r)
  BY <1>1 DEF IInv, TypeOK, CallsTyped, ListMatching, Others, Keeps, KeepsCall, KeepsWork
<1>3. Tame /\ TypeOK'
  BY <1>1, <1>2, IdleIsTame, TypeParts DEF IInv
<1>4. /\ listing'[r] = listing[r] \ {s}
      /\ families'[r] = families[r] \cup {k \in sidRefreshFamilies[s] : PlaceOf[k] = member[r][2]}
  BY DEF IInv, TypeOK, ListMatching
<1>5. Work(r)' /\ \A k \in seen'[r] : Recorded(k)
  BY <1>1, <1>2 DEF IInv, CallsInv, CallOK, Work, RecordedInv, RecordedOf
<1>6. ListedOf(r)' /\ ToldOf(r)'
  BY <1>1, <1>2 DEF ListedOf, ToldOf, KeepsCall
<1>7. SelectOf(r)'
  <2>1. SelectOf(r)
    BY DEF IInv, SelectInv
  <2>2. ASSUME NEW k \in sidRefreshFamilies[s], PlaceOf[k] = member[r][2] PROVE MemberOf(k) = member[r]
    <3>1. SidOf[k] = s /\ UserOf[s] = member[r][1]
      BY <1>1, <2>1 DEF IInv, RecordedInv, SelectOf
    <3> QED BY <1>1, <2>2, <3>1 DEF MemberOf
  <2>3. \A k \in families'[r] \cup seen'[r] : MemberOf(k) = member[r]
    BY <1>1, <1>4, <2>1, <2>2 DEF SelectOf
  <2> QED
    BY <1>1, <1>2, <1>4, <2>1, <2>3 DEF SelectOf, KeepsCall, MemberOf
<1>8. ASSUME GrantsOnly PROVE QuietOf(r)'
  <2>1. QuietOf(r) /\ member'[r] = member[r] /\ kind'[r] = kind[r]
    BY <1>2 DEF IInv, QuietInv, KeepsCall
  <2>2. r \in quiet => ~Granting(member[r])'
    BY <1>1, <1>8, <2>1 DEF QuietOf, GrantsOnly
  <2>3. ASSUME NEW k \in Code, MemberOf(k) = member[r], SidOf[k] \notin disturbed,
               family[k] = "live", SidOf[k] = s
        PROVE  k \in families'[r]
    <3>1. k \in sidRefreshFamilies[s] /\ PlaceOf[k] = member[r][2]
      BY <1>1, <2>3 DEF IInv, ListedInv, MemberOf
    <3> QED BY <1>4, <3>1
  <2> QED
    BY <1>1, <1>4, <2>1, <2>2, <2>3 DEF QuietOf, MemberOf, ServiceOf
<1> QED
  BY <1>1, <1>2, <1>3, <1>5, <1>6, <1>7, <1>8, WorkStep

\* A logout token is answered, or given up.
LEMMA NoticeStep ==
  ASSUME IInv, NEW r \in Req, NEW c \in Client, NEW s \in Sid,
         NoticeTaken(r, c, s) \/ NoticeLost(r, c, s)
  PROVE  IInv'
<1>1. /\ pc[r] \in {"notify", "cutAccess"}
      /\ UNCHANGED <<redisVars, dbVars, handed, scope, disturbed, outcome, quiet, removed, cut>>
      /\ UNCHANGED <<pc, callVars, found, ops, listing, families, seen>>
      /\ tenantSessions' \subseteq tenantSessions /\ failed \subseteq failed'
      /\ failed' \subseteq Client \X Sid
      /\ notices' = [notices EXCEPT ![r] = @ \ {<<c, s>>}]
  BY DEF NoticeTaken, NoticeLost, Sendable, Notifying, IInv, TypeOK
<1>2. CallsTyped' /\ Others(r) /\ pc'[r] = pc[r] /\ found'[r] = found[r] /\ KeepsCall(r)
  BY <1>1 DEF IInv, TypeOK, CallsTyped, Others, Keeps, KeepsCall, KeepsWork
<1>3. Tame /\ StoresTyped' /\ HistoryTyped'
  BY <1>1 DEF IInv, TypeOK, Tame, Calm, Grows, SessionsSame, ListedSame, ToldSame, QuietSame, Seen,
              StoresTyped, HistoryTyped
<1>4. ASSUME NEW k \in tenantSessions', <<ServiceOf(k), SidOf[k]>> \in notices[r] \cup failed
      PROVE  <<ServiceOf(k), SidOf[k]>> \in notices'[r] \cup failed'
  <2>1. notices'[r] = notices[r] \ {<<c, s>>}
    BY <1>1 DEF IInv, TypeOK
  <2>2. <<ServiceOf(k), SidOf[k]>> = <<c, s>> => <<c, s>> \in failed'
    BY DEF NoticeTaken, NoticeLost
  <2> QED BY <1>1, <1>4, <2>1, <2>2
<1>5. Work(r)' /\ \A k \in seen'[r] : Recorded(k)
  BY <1>1, <1>2 DEF IInv, CallsInv, CallOK, Work, RecordedInv, RecordedOf
<1>6. ListedOf(r)' /\ SelectOf(r)'
  BY <1>1, <1>2 DEF IInv, ListedInv, ListedOf, AllDead, SelectInv, SelectOf, KeepsCall, MemberOf
<1>7. ToldOf(r)'
  BY <1>1, <1>2, <1>4 DEF IInv, ToldInv, ToldOf, KeepsCall, ServiceOf
<1>8. ASSUME GrantsOnly PROVE QuietOf(r)'
  <2>1. QuietOf(r) /\ member'[r] = member[r] /\ kind'[r] = kind[r]
    BY <1>2 DEF IInv, QuietInv, KeepsCall
  <2>2. r \in quiet => ~Granting(member[r])'
    BY <1>1, <1>8, <2>1, CallFacts DEF IInv, QuietOf, GrantsOnly
  <2> QED
    BY <1>1, <1>4, <2>1, <2>2 DEF QuietOf, MemberOf, ServiceOf
<1> QED
  BY <1>1, <1>2, <1>3, <1>5, <1>6, <1>7, <1>8, WorkStep, TypeParts

-----------------------------------------------------------------------------
(* A grant goes on *)

\* A request that holds a grant goes on to the next point of it; what it relies on stays.
LEMMA OnwardStep ==
  ASSUME IInv, NEW r \in Req, NEW point \in {"access", "codeSet", "touch", "store", "index"},
         NEW cmds \in SUBSET Commands,
         Await(r, point, cmds), ops[r] = {}, StoresTyped', HistoryTyped', Tame, GrantsOnly,
         kind[r] \in KindsAt(point), cmds \subseteq CommandsAt(point),
         "addSid" \in cmds => kind[r] = "exchange",
         code[r] \in Code, pc[r] \notin {"create", "find", "kill", "notify", "cutAccess"},
         kind[r] \in Grants => found[r],
         point = "touch" /\ "recordClient" \notin cmds => PlaceOf[code[r]] \in sessionClients[sid[r]],
         point = "index" /\ "addSid" \notin cmds => kind[r] = "refresh"
  PROVE  IInv'
<1>1. /\ CallsTyped' /\ Others(r)
      /\ pc'[r] = point /\ ops'[r] = cmds /\ found'[r] = found[r]
      /\ KeepsCall(r) /\ KeepsWork(r)
  BY AwaitMoves, TypeParts DEF IInv
<1>2. CallOK(r) /\ RowOf(r) /\ RecordedOf(r) /\ ListedOf(r)
      /\ kind[r] \in Grants \cup {"login"} /\ sid[r] \in Sid
  <2>1. kind[r] \in Grants \cup {"login"}
    BY DEF KindsAt, Grants
  <2> QED
    BY <2>1, CallFacts DEF IInv, CallsInv, RowsInv, RecordedInv, ListedInv
<1>3. NoWork(r)'
  BY <1>1, <1>2 DEF CallOK, Work, NoWork, KeepsWork
<1>4. AtPoint(r)' /\ Work(r)'
  BY <1>1, <1>3 DEF AtPoint, Work, NoWork, KeepsCall
<1>5. Locals(r)'
  BY <1>1, <1>2 DEF CallOK, Locals, KeepsCall, Grants
<1>6. Loads(r)'
  <2>1. ops'[r] \cap {"getSession", "getIndex", "delSession", "delIndex"} = {}
    BY <1>1 DEF CommandsAt
  <2> QED
    BY <1>1, <1>2, <2>1 DEF CallOK, Loads, KeepsCall, Grants
<1>7. RowOf(r)' /\ RecordedOf(r)'
  BY <1>1, <1>2, <1>3 DEF RowOf, RecordedOf, NoWork, KeepsCall, Tame, Calm, Grows, SessionsSame, Grants
<1>8. ListedOf(r)' /\ ToldOf(r)' /\ SelectOf(r)'
  BY <1>1, <1>2, <1>6 DEF ListedOf, ToldOf, SelectOf, Loads, KeepsCall, Tame, Calm, ListedSame, Grants
<1>9. QuietOf(r)'
  BY <1>2 DEF IInv, QuietInv, QuietOf, Tame, Grants
<1>10. Passive(r) /\ StartsLogin(r)
  <2>1. ops'[r] \cap {"delSession", "delIndex"} = {}
    BY <1>1 DEF CommandsAt
  <2> QED
    BY <1>1, <2>1 DEF Passive, StartsLogin, Relying, KeepsCall
<1> QED
  BY <1>1, <1>4, <1>5, <1>6, <1>7, <1>8, <1>9, <1>10, TameStep, TypeParts DEF SelfOK, SelfCalm, CallOK

\* The access check lets the member in.
LEMMA AllowedStep == ASSUME IInv, NEW r \in Req, Allowed(r) PROVE IInv'
<1> DEFINE point == IF kind[r] = "refresh" THEN "store" ELSE "codeSet"
<1>1. /\ Await(r, point, {}) /\ ops[r] = {} /\ MemberOf(code[r]) \in serviceMembers
      /\ \/ pc[r] = "access"
         \/ pc[r] = "load" /\ kind[r] \in {"authorize", "refresh"} /\ found[r]
      /\ UNCHANGED <<redisVars, dbVars, outVars>> /\ UNCHANGED ghostVars
  BY DEF Allowed, AtAccess, MayAccess, Resumes, Working
<1>2. /\ kind[r] \in {"login", "authorize", "refresh"} /\ code[r] \in Code
      /\ kind[r] \in KindsAt(point)
  BY <1>1, CallFacts DEF IInv, Grants, KindsAt
<1>3. Tame /\ StoresTyped' /\ HistoryTyped'
  BY <1>1, IdleIsTame DEF IInv
<1>4. GrantsOnly
  <2>1. Others(r) /\ KeepsCall(r)
    BY <1>1, AwaitMoves, TypeParts DEF IInv
  <2> QED
    BY <1>1, <2>1 DEF GrantsOnly, Granting, Others, Keeps, KeepsCall, MemberOf
<1>5. kind[r] \in Grants => found[r]
  BY <1>1, <1>2, CallFacts DEF IInv, Grants
<1>6. point \in {"store", "codeSet"} /\ {} \subseteq CommandsAt(point)
  OBVIOUS
<1> QED
  BY <1>1, <1>2, <1>3, <1>4, <1>5, <1>6, OnwardStep

\* The code is stored, and touchSsoSession starts.
LEMMA CodeSetStep == ASSUME IInv, NEW r \in Req, CodeSet(r) PROVE IInv'
<1>1. /\ Await(r, "touch", {"touchRow", "setSession", "recordClient"}) /\ ops[r] = {}
      /\ pc[r] = "codeSet" /\ codes' = [codes EXCEPT ![code[r]] = "stored"]
      /\ UNCHANGED <<ssoSessions, sidIndex, sidRefreshFamilies, family, dbVars, outVars, ghostVars>>
  BY DEF CodeSet, Resumes, Working
<1>2. /\ kind[r] \in {"login", "authorize"} /\ code[r] \in Code
      /\ kind[r] \in Grants => found[r]
  BY <1>1, CallFacts DEF IInv, CallsInv, CallOK, Loads
<1>3. Tame /\ StoresTyped' /\ HistoryTyped'
  BY <1>1, <1>2 DEF IInv, TypeOK, Tame, Calm, Grows, SessionsSame, ListedSame, ToldSame, QuietSame, Seen,
                    StoresTyped, HistoryTyped
<1>4. GrantsOnly
  <2> SUFFICES ASSUME NEW m, Granting(m)' PROVE Granting(m)
    BY DEF GrantsOnly
  <2>1. Others(r) /\ KeepsCall(r)
    BY <1>1, AwaitMoves, TypeParts DEF IInv
  <2>2. CASE m = MemberOf(code[r])
    BY <1>1, <1>2, <2>2 DEF Granting
  <2>3. CASE m # MemberOf(code[r])
    <3>1. \A x \in Code : MemberOf(x) = m /\ codes'[x] \in {"stored", "delivered"}
             => codes[x] \in {"stored", "delivered"}
      BY <1>1, <2>3 DEF IInv, TypeOK
    <3> QED
      BY <2>1, <2>3, <3>1 DEF Granting, Others, Keeps, KeepsCall, MemberOf
  <2> QED BY <2>2, <2>3
<1> QED
  BY <1>1, <1>2, <1>3, <1>4, OnwardStep DEF KindsAt, CommandsAt

\* storeRefreshToken: the tokens are not the service's yet.
LEMMA StoreStep == ASSUME IInv, NEW r \in Req, Store(r) PROVE IInv'
<1> DEFINE cmds == IF kind[r] = "exchange" THEN {"addFamily", "addSid"} ELSE {"addFamily"}
<1>1. /\ Await(r, "index", cmds) /\ ops[r] = {}
      /\ pc[r] = "store" \/ (pc[r] = "load" /\ kind[r] = "exchange" /\ found[r])
      /\ family' = [family EXCEPT ![code[r]] = "stored"]
      /\ UNCHANGED <<ssoSessions, sidIndex, sidRefreshFamilies, codes, dbVars, outVars, ghostVars>>
  BY DEF Store, Resumes, Working
<1>2. /\ kind[r] \in {"exchange", "refresh"} /\ code[r] \in Code /\ found[r]
      /\ Recorded(code[r])
  <2>1. kind[r] \in {"exchange", "refresh"}
    BY <1>1, CallFacts DEF IInv
  <2> QED
    BY <1>1, <2>1, RecordedCode DEF IInv, CallsInv, CallOK, Loads, Grants
<1>3. Tame /\ StoresTyped' /\ HistoryTyped'
  BY <1>1, <1>2 DEF IInv, TypeOK, Tame, Calm, Grows, SessionsSame, ListedSame, ToldSame, QuietSame, Seen,
                    Recorded, StoresTyped, HistoryTyped
<1>4. GrantsOnly
  <2>1. Others(r) /\ KeepsCall(r)
    BY <1>1, AwaitMoves, TypeParts DEF IInv
  <2>2. GrantsBy(r)
    BY <1>1 DEF GrantsBy
  <2> QED BY <1>1, <2>1, <2>2, NothingGranted DEF KeepsCall
<1>5. cmds \subseteq CommandsAt("index") /\ kind[r] \in KindsAt("index")
  BY <1>2 DEF CommandsAt, KindsAt
<1>6. ("addSid" \in cmds <=> kind[r] = "exchange") /\ cmds \in SUBSET Commands
  OBVIOUS
<1> QED
  BY <1>1, <1>2, <1>3, <1>4, <1>5, <1>6, OnwardStep

-----------------------------------------------------------------------------
(* Members of a service *)

\* The membership goes first; whoever holds a grant for the member is not quiet.
LEMMA RemoveServiceMemberStep ==
  ASSUME IInv, NEW r \in Req, NEW u \in User, NEW p \in Place, RemoveServiceMember(r, u, p)
  PROVE  IInv'
<1> DEFINE m == <<u, p>>
<1>1. /\ pc[r] = "idle" /\ serviceMembers' = serviceMembers \ {m}
      /\ quiet' = IF Granting(m) THEN quiet ELSE quiet \cup {r}
      /\ UNCHANGED <<redisVars, authSessions, sessionClients, outVars, disturbed, outcome, removed,
                     cut, failed>>
  BY DEF RemoveServiceMember
<1>2. CallsTyped' /\ Others(r)
  BY DEF IInv, TypeOK, CallsTyped, RemoveServiceMember, Others, Keeps, KeepsCall, KeepsWork
<1>3. /\ pc'[r] = "affected" /\ ops'[r] = {} /\ kind'[r] = "remove" /\ member'[r] = m
      /\ sid'[r] = sid[r] /\ other'[r] = other[r] /\ code'[r] = code[r] /\ found'[r] = found[r]
      /\ KeepsWork(r)
  BY DEF IInv, TypeOK, RemoveServiceMember, KeepsWork
<1>4. /\ kind[r] = "none" /\ sid[r] = NoSid /\ code[r] = NoCode /\ found[r] = FALSE /\ ops[r] = {}
      /\ other[r] = NoSid /\ NoWork(r) /\ r \notin quiet
  BY <1>1, IdleFacts
<1>5. Calm /\ QuietSame /\ StoresTyped' /\ HistoryTyped'
  BY <1>1 DEF IInv, TypeOK, Calm, Grows, SessionsSame, ListedSame, ToldSame, QuietSame, Seen,
              StoresTyped, HistoryTyped
<1>6. NoWork(r)'
  BY <1>3, <1>4 DEF NoWork, KeepsWork
<1>7. CallOK(r)'
  BY <1>3, <1>4, <1>6 DEF NoWork, CallOK, AtPoint, Locals, Loads, Work, KindsAt, Grants
<1>8. SelfCalm(r)'
  BY <1>3, <1>6, <1>7 DEF NoWork, SelfCalm, RowOf, RecordedOf, ListedOf, ToldOf, SelectOf, Grants
<1>9. StartsLogin(r) /\ Passive(r)
  BY <1>3, <1>4 DEF StartsLogin, Passive, Relying
<1>10. CalmInv'
  BY <1>2, <1>5, <1>8, <1>9, CalmStep, TypeParts
<1>11. GrantsOnly
  BY <1>1, <1>2, <1>3, <1>4, NothingGranted
<1>12. QuietOf(r)'
  <2>1. r \in quiet' => ~Granting(m)
    BY <1>1, <1>4
  <2>2. m \notin serviceMembers' /\ (r \in quiet' => ~Granting(member[r])')
    BY <1>1, <1>3, <1>11, <2>1 DEF GrantsOnly
  <2> QED
    BY <1>3, <2>2 DEF QuietOf
<1>13. ASSUME NEW q \in Req \ {r} PROVE QuietOf(q)'
  <2>1. CASE q \in quiet
    BY <1>2, <1>5, <1>11, <2>1, QuietOthers DEF IInv
  <2>2. CASE q \notin quiet
    BY <1>1, <2>2 DEF QuietOf
  <2> QED BY <2>1, <2>2
<1>14. QuietInv' /\ QuietRemovalCuts'
  BY <1>1, <1>5, <1>11, <1>12, <1>13, CutKept DEF IInv, QuietInv, QuietRemovalCuts, MemberOf, ServiceOf
<1> QED
  BY <1>10, <1>14 DEF IInv, CalmInv

\* revokeClientAccess picks the sessions to work on; a quiet removal passes over none that
\* still has something of the member.
LEMMA RevokeClientAccessStep == ASSUME IInv, NEW r \in Req, RevokeClientAccess(r) PROVE IInv'
<1> DEFINE m == member[r]
<1>1. /\ pc[r] = "affected" /\ ops[r] = {} /\ kind[r] = "remove" /\ m \in User \X Place
      /\ quiet' = IF PassedOver(m) THEN quiet \ {r} ELSE quiet
      /\ UNCHANGED <<redisVars, dbVars, outVars>> /\ UNCHANGED callVars
      /\ UNCHANGED <<found, families, seen, disturbed, outcome, removed, cut, failed>>
  BY CallFacts DEF IInv, RevokeClientAccess, Resumes, Working
<1>2. Affected(m) \subseteq Sid /\ {ClientOf[m[2]]} \X Affected(m) \subseteq Client \X Sid
      /\ \A s \in Affected(m) : UserOf[s] = m[1]
  BY <1>1 DEF Affected
<1>3. CallsTyped' /\ Others(r) /\ KeepsCall(r)
  BY <1>1, <1>2 DEF IInv, TypeOK, CallsTyped, RevokeClientAccess, Others, Keeps, KeepsCall, KeepsWork
<1>4. /\ pc'[r] = "cutAccess" /\ ops'[r] = {} /\ found'[r] = found[r]
      /\ listing'[r] = Affected(m) /\ notices'[r] = {ClientOf[m[2]]} \X Affected(m)
      /\ families'[r] = families[r] /\ seen'[r] = seen[r]
  BY DEF IInv, TypeOK, RevokeClientAccess
<1>5. Tame /\ TypeOK'
  BY <1>1, <1>3, IdleIsTame, TypeParts DEF IInv
<1>6. CallOK(r) /\ QuietOf(r)
  BY DEF IInv, CallsInv, QuietInv
<1>7. families'[r] = {} /\ seen'[r] = {}
  BY <1>1, <1>4, <1>6 DEF CallOK, Work
<1>8. CallOK(r)'
  BY <1>1, <1>3, <1>4, <1>6 DEF KeepsCall, CallOK, AtPoint, Locals, Loads, Work, KindsAt, CommandsAt, Grants
<1>9. SelfCalm(r)'
  BY <1>1, <1>2, <1>3, <1>4, <1>7, <1>8 DEF KeepsCall, SelfCalm, RowOf, RecordedOf, ListedOf,
                                          ToldOf, SelectOf, Grants
<1>10. StartsLogin(r) /\ Passive(r)
  BY <1>1, <1>3, <1>4 DEF KeepsCall, StartsLogin, Passive, Relying
<1>11. GrantsOnly
  BY <1>1, <1>3, <1>4, NothingGranted DEF KeepsCall, GrantsBy
<1>12. QuietOf(r)'
  <2> SUFFICES ASSUME r \in quiet' PROVE QuietOf(r)'
    BY DEF QuietOf
  <2>1. r \in quiet /\ ~PassedOver(m) /\ member'[r] = m /\ kind'[r] = "remove"
    BY <1>1, <1>3 DEF KeepsCall
  <2>2. m \notin serviceMembers' /\ ~Granting(member[r])'
    BY <1>1, <1>6, <1>11, <2>1 DEF QuietOf, GrantsOnly
  <2>3. ASSUME NEW k \in Code, MemberOf(k) = m
        PROVE  /\ family'[k] = "live" => SidOf[k] \in listing'[r]
               /\ k \in tenantSessions' => <<ServiceOf(k), SidOf[k]>> \in notices'[r]
    <3>1. family[k] = "live" \/ k \in tenantSessions => SidOf[k] \in Affected(m)
      BY <2>1, <2>3 DEF PassedOver
    <3>2. ServiceOf(k) = ClientOf[m[2]]
      BY <1>1, <2>3 DEF ServiceOf, MemberOf
    <3> QED
      BY <1>1, <1>4, <3>1, <3>2
  <2> QED
    BY <2>1, <2>2, <2>3 DEF QuietOf, MemberOf, ServiceOf
<1> QED
  BY <1>3, <1>5, <1>9, <1>10, <1>11, <1>12, TameStep DEF SelfOK

\* The removal completes with nothing left to do: what it held is what the member had.
LEMMA AccessCutStep == ASSUME IInv, NEW r \in Req, AccessCut(r) PROVE IInv'
<1>0. PICK m \in User \X Place : m = member[r]
  BY FamilyFacts DEF AccessCut, Resumes
<1>1. /\ pc[r] = "cutAccess" /\ ops[r] = {} /\ NoWork(r) /\ Return(r)
      /\ removed' = removed \cup ({m} \ serviceMembers)
      /\ cut' = IF r \in quiet THEN cut \cup {m} ELSE cut
      /\ UNCHANGED <<redisVars, dbVars, outVars>> /\ UNCHANGED <<disturbed, outcome, failed>>
  BY <1>0 DEF AccessCut, Resumes, Working, Notifying, NoWork
<1>2. CallsTyped' /\ Returned(r) /\ quiet' = quiet \ {r}
  BY <1>1, ReturnMoves, TypeParts DEF IInv
<1>3. QuietOf(r)
  BY DEF IInv, QuietInv
<1>4. Calm /\ QuietSame /\ StoresTyped'
  BY <1>1 DEF IInv, TypeOK, Calm, Grows, SessionsSame, ListedSame, ToldSame, QuietSame, Seen,
              StoresTyped
<1>5. HistoryTyped'
  BY <1>0, <1>1, <1>2, <1>3 DEF IInv, TypeOK, HistoryTyped, QuietOf
<1>6. TypeOK' /\ Others(r) /\ SelfCalm(r)'
  BY <1>2, <1>4, <1>5, TypeParts, ReturnedSelf DEF Returned, SelfOK
<1>7. StartsLogin(r) /\ Passive(r)
  BY <1>1, <1>2 DEF Returned, StartsLogin, Passive, Relying
<1>8. CalmInv'
  BY <1>4, <1>6, <1>7, CalmStep
<1>9. GrantsOnly
  BY <1>1, <1>2, <1>6, NothingGranted DEF Returned
<1>10. ASSUME NEW q \in Req PROVE QuietOf(q)'
  <2>1. CASE q \in quiet /\ q # r
    BY <1>4, <1>6, <1>9, <2>1, QuietOthers DEF IInv
  <2>2. CASE ~(q \in quiet /\ q # r)
    BY <1>2, <2>2 DEF QuietOf
  <2> QED BY <2>1, <2>2
<1>11. ASSUME r \in quiet
       PROVE  /\ m \notin serviceMembers' /\ ~Granting(m)'
              /\ \A k \in Code : MemberOf(k) = m /\ SidOf[k] \notin disturbed' =>
                     /\ family'[k] # "live"
                     /\ k \in tenantSessions' => <<ServiceOf(k), SidOf[k]>> \in failed'
  <2>1. m \notin serviceMembers /\ ~Granting(m)
    BY <1>0, <1>3, <1>11 DEF QuietOf
  <2>2. m \notin serviceMembers' /\ ~Granting(m)'
    BY <1>1, <1>9, <2>1 DEF GrantsOnly
  <2>3. \A k \in Code : MemberOf(k) = m /\ SidOf[k] \notin disturbed' =>
            /\ family'[k] # "live"
            /\ k \in tenantSessions' => <<ServiceOf(k), SidOf[k]>> \in failed'
    BY <1>0, <1>1, <1>3, <1>11 DEF QuietOf, NoWork
  <2> QED BY <2>2, <2>3
<1>12. QuietInv' /\ QuietRemovalCuts'
  BY <1>1, <1>4, <1>9, <1>10, <1>11, CutKept DEF IInv, QuietInv, QuietRemovalCuts, MemberOf, ServiceOf
<1> QED
  BY <1>8, <1>12 DEF IInv, CalmInv

\* A member comes back: nothing that was said of the removal is said any more.
LEMMA InviteServiceMemberStep ==
  ASSUME IInv, NEW u \in User, NEW p \in Place, InviteServiceMember(u, p) PROVE IInv'
<1>1. /\ serviceMembers' = serviceMembers \cup {<<u, p>>}
      /\ removed' = removed \ {<<u, p>>} /\ cut' = cut \ {<<u, p>>}
      /\ quiet' = {r \in quiet : member[r] # <<u, p>>}
      /\ UNCHANGED <<redisVars, authSessions, sessionClients, outVars, disturbed, outcome, failed>>
      /\ UNCHANGED <<pc, callVars, found, workVars>>
  BY DEF InviteServiceMember
<1>2. TypeOK'
  BY <1>1 DEF IInv, TypeOK
<1>3. CallsInv' /\ RowsInv' /\ RecordedInv'
  BY <1>1 DEF IInv, CallsInv, CallOK, AtPoint, Locals, Loads, Work, RowsInv, RowOf,
              RecordedInv, RecordedOf, Recorded, Seen
<1>4. SessionsInv'
  BY <1>1 DEF IInv, SessionsInv, ExclusionInv, Ending, Relying, FreshOf, DeletionOf, Deletes,
              Missed, Victim, EndedOf, Ended, Completing
<1>5. ListedInv' /\ ToldInv' /\ SelectInv'
  BY <1>1 DEF IInv, ListedInv, ListedOf, AllDead, ToldInv, ToldOf, SelectInv, SelectOf,
              ServiceOf, MemberOf
<1>6. \A m : Granting(m)' => Granting(m)
  BY <1>1 DEF Granting, MemberOf
<1>7. QuietInv'
  BY <1>1, <1>6 DEF IInv, QuietInv, QuietOf, MemberOf, ServiceOf
<1>8. QuietRemovalCuts'
  BY <1>1 DEF IInv, QuietRemovalCuts, MemberOf, ServiceOf
<1> QED
  BY <1>2, <1>3, <1>4, <1>5, <1>7, <1>8 DEF IInv

-----------------------------------------------------------------------------
(* The tokens reach the service *)

\* Who relies on an undisturbed session whose cookie is out finds it there: nobody ends it,
\* and its end has not been told.
LEMMA ReliedOn ==
  ASSUME IInv, NEW r \in Req, NEW s \in Sid \ disturbed, Relying(r, s), s \in handed
  PROVE  /\ ssoSessions[s] # "absent" /\ ~Ended(s)
         /\ \A q \in Req : ~Ending(q, s) /\ ~Completing(q, s)
         /\ outcome[s] = "open" /\ s \in sidIndex /\ authSessions[s] # "revoked"
<1>1. ssoSessions[s] # "absent" /\ \A q \in Req : ~Ending(q, s)
  BY DEF IInv, SessionsInv, ExclusionInv
<1>2. ASSUME NEW q \in Req PROVE ~Completing(q, s)
  BY <1>1, CommandFacts DEF IInv, Completing, Victim, Ending
<1>3. ~Ended(s)
  BY <1>1, <1>2 DEF Ended
<1>4. EndedOf(s) /\ outcome[s] \in {"open", "replaced", "ended", "revoked"}
  BY DEF IInv, TypeOK, SessionsInv
<1> QED
  BY <1>1, <1>2, <1>3, <1>4 DEF EndedOf

\* A family becomes live, and a service session appears, while nobody ends the session
\* and no removal of the member counts as quiet.
LEMMA TokenReplyStep == ASSUME IInv, NEW r \in Req, TokenReply(r) PROVE IInv'
<1>1. /\ pc[r] = "index" /\ ops[r] = {} /\ Return(r)
      /\ family' = [family EXCEPT ![code[r]] = IF @ = "listed" THEN "live" ELSE @]
      /\ tenantSessions' = IF kind[r] = "exchange" THEN tenantSessions \cup {code[r]}
                           ELSE tenantSessions
      /\ UNCHANGED <<ssoSessions, sidIndex, sidRefreshFamilies, codes, dbVars, handed, scope,
                     disturbed, outcome, removed, cut, failed>>
  BY DEF TokenReply, Resumes, Working
<1>2. PICK k \in Code : k = code[r]
  BY <1>1, CallFacts DEF IInv, Grants
<1>3. /\ kind[r] \in {"exchange", "refresh"} /\ sid[r] = SidOf[k] /\ Recorded(k) /\ found[r]
      /\ SidOf[k] \in handed
  <2>1. kind[r] \in {"exchange", "refresh"}
    BY <1>1, CallFacts DEF IInv
  <2> QED
    BY <1>1, <1>2, <2>1, RecordedCode DEF IInv, CallsInv, CallOK, Loads, Grants, Recorded
<1>4. CallsTyped' /\ Returned(r) /\ quiet' = quiet \ {r} /\ r \notin quiet'
  BY <1>1, ReturnMoves, TypeParts DEF IInv
<1>5. /\ StoresTyped' /\ HistoryTyped'
      /\ \A x \in Code : x # k => /\ family'[x] = family[x]
                                  /\ x \in tenantSessions' => x \in tenantSessions
  BY <1>1, <1>2, <1>4 DEF IInv, TypeOK, StoresTyped, HistoryTyped
<1>6. TypeOK' /\ Others(r) /\ SelfOK(r)'
  BY <1>4, <1>5, TypeParts, ReturnedSelf DEF Returned
<1>7. CallsInv' /\ SelectInv'
  BY <1>6, CallsKept, SelectKept DEF IInv, SelfOK, SelfCalm
<1>8. Grows /\ Hands(r) /\ StartsLogin(r)
  BY <1>1, <1>4 DEF Grows, Hands, StartsLogin, Returned
<1>9. RowsInv'
  BY <1>1, <1>6, <1>8, RowsKept DEF IInv, SelfOK, SelfCalm
<1>10. RecordedInv'
  <2>1. \A x \in Code : Seen(x)' => Seen(x) \/ Recorded(x)'
    BY <1>1, <1>3, <1>5 DEF Seen, Recorded
  <2> QED BY <1>1, <1>6, <1>8, <2>1, RecordedKept DEF IInv, SelfOK, SelfCalm
<1>11. SessionsInv'
  <2>1. SessionsSame
    BY <1>1 DEF SessionsSame
  <2>2. Passive(r)
    BY <1>1, <1>4 DEF Returned, Passive, Relying
  <2>3. \A q \in Req : Steady(q) \/ Passive(q)
    BY <1>6, <2>2 DEF Others, Keeps, KeepsCall, Steady
  <2> QED BY <1>6, <2>1, <2>3, SessionsKept DEF IInv
<1>12. SidOf[k] \notin disturbed =>
         /\ outcome[SidOf[k]] = "open"
         /\ \A q \in Req : pc[q] \in {"find", "kill", "notify"} => sid[q] # SidOf[k]
         /\ k \in sidRefreshFamilies[SidOf[k]]
  <2> SUFFICES ASSUME SidOf[k] \notin disturbed
               PROVE  /\ outcome[SidOf[k]] = "open"
                      /\ \A q \in Req : pc[q] \in {"find", "kill", "notify"} => sid[q] # SidOf[k]
                      /\ k \in sidRefreshFamilies[SidOf[k]]
    OBVIOUS
  <2>1. Relying(r, SidOf[k])
    BY <1>3 DEF Relying
  <2>2. outcome[SidOf[k]] = "open" /\ \A q \in Req : ~Ending(q, SidOf[k])
    BY <1>3, <2>1, ReliedOn
  <2>3. k \in sidRefreshFamilies[SidOf[k]]
    BY <1>1, <1>2, <1>3 DEF IInv, ListedInv, ListedOf
  <2> QED BY <2>2, <2>3 DEF Ending
<1>13. ListedInv'
  <2>1. \A x \in Code : SidOf[x] \notin disturbed /\ family'[x] = "live" =>
            x \in sidRefreshFamilies'[SidOf[x]]
    BY <1>1, <1>5, <1>12 DEF IInv, ListedInv
  <2>2. \A s \in Sid \ disturbed : AllDead(s) /\ s # SidOf[k] => AllDead(s)'
    BY <1>5 DEF AllDead
  <2>3. \A s \in Sid \ disturbed : outcome[s] = "revoked" => AllDead(s)'
    BY <1>12, <2>2 DEF IInv, ListedInv
  <2>4. ASSUME NEW q \in Req \ {r}, sid[q] \notin disturbed PROVE ListedOf(q)'
    <3>1. Keeps(q) /\ ListedOf(q)
      BY <1>6 DEF Others, IInv, ListedInv
    <3>2. ASSUME pc[q] = "kill", NEW x \in Code, SidOf[x] = sid[q], family'[x] = "live"
          PROVE  x \in families'[q] \/ x \in seen'[q]
      BY <1>5, <1>12, <2>4, <3>1, <3>2 DEF Keeps, KeepsWork, ListedOf
    <3>3. pc[q] = "notify" /\ found[q] => AllDead(sid[q])'
      <4>1. pc[q] = "notify" => sid[q] \in Sid
        BY CallFacts DEF IInv
      <4>2. pc[q] = "notify" /\ found[q] => \A x \in Code : SidOf[x] = sid[q] => family'[x] # "live"
        BY <1>5, <1>12, <2>4, <3>1 DEF ListedOf, AllDead
      <4> QED BY <3>1, <4>2 DEF AllDead, Keeps, KeepsCall
    <3> QED
      BY <1>1, <3>1, <3>2, <3>3 DEF Keeps, KeepsCall, ListedOf
  <2>5. \A q \in Req : ListedOf(q)'
    BY <1>1, <1>6, <2>4 DEF SelfOK, SelfCalm, Others, Keeps, KeepsCall, ListedOf
  <2> QED
    BY <1>1, <2>1, <2>3, <2>5 DEF ListedInv
<1>14. ToldInv'
  <2>1. ASSUME NEW q \in Req \ {r} PROVE ToldOf(q)'
    <3>1. Keeps(q) /\ ToldOf(q)
      BY <1>6 DEF Others, IInv, ToldInv
    <3> QED
      BY <1>1, <1>5, <1>6, <1>12, <3>1 DEF TypeOK, Keeps, KeepsCall, KeepsWork, ToldOf
  <2>2. \A s \in Sid \ disturbed : \A x \in tenantSessions' :
          SidOf[x] = s /\ outcome[s] \in {"ended", "revoked"} => <<ServiceOf(x), s>> \in failed
    BY <1>5, <1>6, <1>12 DEF IInv, TypeOK, ToldInv
  <2> QED
    BY <1>1, <1>6, <2>1, <2>2 DEF ToldInv, SelfOK, SelfCalm
<1>15. QuietInv' /\ QuietRemovalCuts'
  <2>1. Granting(MemberOf(k)) /\ GrantsOnly
    <3>1. Granting(MemberOf(k))
      BY <1>1, <1>2 DEF Granting
    <3>2. GrantsOnly
      BY <1>1, <1>4, <1>6, NothingGranted DEF Returned
    <3> QED BY <3>1, <3>2
  <2>2. \A m \in cut' : m \notin serviceMembers' /\ ~Granting(m)'
    BY <1>1, <2>1 DEF IInv, TypeOK, QuietInv, GrantsOnly
  <2>3. MemberOf(k) \notin cut
    BY <2>1 DEF IInv, QuietInv
  <2>4. QuietRemovalCuts'
    BY <1>1, <1>5, <1>6, <2>3 DEF IInv, TypeOK, QuietRemovalCuts, MemberOf, ServiceOf
  <2>5. ASSUME NEW q \in Req \ {r}, q \in quiet PROVE QuietOf(q)'
    <3>1. Keeps(q) /\ QuietOf(q) /\ member[q] \in User \X Place
      BY <1>6, <2>5, CallFacts DEF IInv, Others, QuietInv, QuietOf
    <3>2. member'[q] = member[q] /\ kind'[q] = "remove" /\ MemberOf(k) # member[q]
      BY <2>1, <2>5, <3>1 DEF Keeps, KeepsCall, QuietOf
    <3>3. member[q] \notin serviceMembers' /\ ~Granting(member[q])'
      BY <1>1, <2>1, <2>5, <3>1, <3>2 DEF QuietOf, GrantsOnly
    <3> QED
      BY <1>1, <1>5, <1>6, <2>5, <3>1, <3>2, <3>3 DEF TypeOK, Keeps, KeepsWork, QuietOf, MemberOf, ServiceOf
  <2>6. \A q \in Req : QuietOf(q)'
    BY <1>4, <1>6, <2>5 DEF SelfOK, QuietOf
  <2> QED BY <2>2, <2>4, <2>6 DEF QuietInv
<1> QED
  BY <1>6, <1>7, <1>9, <1>10, <1>11, <1>13, <1>14, <1>15 DEF IInv

-----------------------------------------------------------------------------
(* Commands on the record, its index and the mark in its row *)

\* The invariant but for what it says of the records.
RestInv ==
    /\ TypeOK /\ CallsInv /\ RowsInv /\ RecordedInv
    /\ ListedInv /\ ToldInv /\ SelectInv /\ QuietInv /\ QuietRemovalCuts

\* The request has its answer to one command.
Answered(r, cmd) ==
    /\ Others(r)
    /\ cmd \in ops[r] /\ pc'[r] = pc[r] /\ ops'[r] = ops[r] \ {cmd}
    /\ found'[r] = found[r] /\ KeepsCall(r)

\* A command on the record, the index or the mark leaves everything else as it was.
LEMMA RecordCommand ==
  ASSUME IInv, NEW r \in Req,
         NEW cmd \in {"setSession", "setIndex", "markRevoked", "delSession", "delIndex"},
         Done(r, cmd), found' = found, StoresTyped',
         UNCHANGED <<sidRefreshFamilies, codes, family, sessionClients, serviceMembers, outVars,
                     ghostVars>>,
         \A s \in Sid : authSessions[s] # "none" => authSessions'[s] # "none",
         \A s \in handed \ disturbed : ssoSessions[s] = "absent" => ssoSessions'[s] = "absent"
  PROVE  RestInv' /\ Answered(r, cmd)
<1>1. CallsTyped' /\ Answered(r, cmd) /\ KeepsWork(r)
  BY DoneMoves, TypeParts DEF IInv, Answered
<1>2. HistoryTyped'
  BY TypeParts DEF IInv, HistoryTyped
<1>3. TypeOK' /\ Others(r)
  BY <1>1, <1>2, TypeParts DEF Answered
<1>4. /\ Grows /\ ListedSame /\ ToldSame /\ QuietSame /\ NoneHandedBack /\ Hands(r)
      /\ \A k \in Code : Seen(k)' => Seen(k)
  BY DEF IInv, TypeOK, Grows, ListedSame, ToldSame, QuietSame, NoneHandedBack, Hands, Seen
<1>5. GrantsOnly /\ StartsLogin(r)
  BY <1>1, <1>3, NothingGranted DEF Answered, KeepsCall, GrantsBy, StartsLogin
<1>6. SelfOK(r)'
  <2>1. RowOf(r) /\ RecordedOf(r) /\ ListedOf(r)
    BY DEF IInv, RowsInv, RecordedInv, ListedInv
  <2>2. pc[r] \in {"create", "touch", "index"} => sid[r] \in Sid /\ kind[r] \in Grants \cup {"login"}
    BY CallFacts DEF IInv, Grants
  <2>3. /\ pc[r] = "create" /\ "createRow" \notin ops'[r] => authSessions'[sid[r]] # "none"
        /\ pc[r] = "touch" /\ "recordClient" \notin ops'[r] =>
               PlaceOf[code[r]] \in sessionClients'[sid[r]]
        /\ pc[r] = "index" /\ "addSid" \notin ops'[r] /\ sid[r] \notin disturbed =>
               code[r] \in sidRefreshFamilies'[sid[r]]
    BY <1>1, <2>1, <2>2, CallFacts DEF IInv, Answered, RowOf, RecordedOf, ListedOf
  <2> QED
    BY <1>1, <1>4, <1>5, <2>3, SelfKept DEF Answered
<1>7. CallsInv' /\ RowsInv' /\ RecordedInv' /\ ListedInv' /\ ToldInv' /\ SelectInv'
  <2> USE DEF IInv, SelfOK, SelfCalm
  <2>1. CallsInv' /\ SelectInv' /\ ToldInv' /\ ListedInv'
    BY <1>3, <1>4, <1>6, CallsKept, SelectKept, ToldKept, ListedKept
  <2>2. RowsInv'
    BY <1>3, <1>4, <1>5, <1>6, RowsKept
  <2>3. RecordedInv'
    BY <1>3, <1>4, <1>6, RecordedKept
  <2> QED BY <2>1, <2>2, <2>3
<1>8. QuietInv' /\ QuietRemovalCuts'
  BY <1>3, <1>4, <1>5, <1>6, QuietKept DEF IInv, SelfOK
<1> QED
  BY <1>1, <1>3, <1>7, <1>8 DEF RestInv

\* An answer starts nothing.
LEMMA AnswerFacts ==
  ASSUME NEW r \in Req, NEW cmd, Answered(r, cmd), NEW q \in Req
  PROVE  /\ kind'[q] = kind[q] /\ sid'[q] = sid[q] /\ pc'[q] = pc[q] /\ found'[q] = found[q]
         /\ Victim(q)' = Victim(q)
         /\ \A s : Ending(q, s)' => Ending(q, s)
         /\ \A s : Relying(q, s)' => Relying(q, s)
         /\ \A c : c \in ops'[q] <=> c \in ops[q] /\ ~(q = r /\ c = cmd)
         /\ \A s : cmd # "delSession" /\ Completing(q, s) => Completing(q, s)'
<1>1. /\ kind'[q] = kind[q] /\ sid'[q] = sid[q] /\ pc'[q] = pc[q] /\ found'[q] = found[q]
      /\ other'[q] = other[q]
      /\ \A c : c \in ops'[q] <=> c \in ops[q] /\ ~(q = r /\ c = cmd)
  BY DEF Answered, Others, Keeps, KeepsCall
<1>2. Victim(q)' = Victim(q)
  BY <1>1 DEF Victim
<1> QED
  BY <1>1, <1>2 DEF Ending, Relying, Completing

\* The record is written by somebody who relies on it: it was there, or its cookie is not
\* out yet.
LEMMA SetSessionStep == ASSUME IInv, NEW r \in Req, SetSession(r) PROVE IInv'
<1>1. /\ Done(r, "setSession") /\ found' = found
      /\ ssoSessions' = [ssoSessions EXCEPT ![sid[r]] = "live"]
      /\ UNCHANGED <<sidIndex, sidRefreshFamilies, codes, family, dbVars, outVars, ghostVars>>
  BY DEF SetSession
<1>2. PICK s \in Sid : s = sid[r] /\ Relying(r, s)
  <2>1. pc[r] \in {"create", "touch"}
    BY <1>1, CommandFacts DEF IInv, Done
  <2>2. kind[r] = "login" \/ (kind[r] = "authorize" /\ found[r])
    BY <2>1, CallFacts DEF IInv, CallsInv, CallOK, Loads, Grants
  <2> QED BY <2>2, CallFacts DEF IInv, Relying, Grants
<1>3. \A x \in handed \ disturbed : ssoSessions[x] = "absent" => ssoSessions'[x] = "absent"
  BY <1>1, <1>2, ReliedOn DEF IInv, TypeOK
<1>4. StoresTyped'
  BY <1>1 DEF IInv, TypeOK, StoresTyped
<1>5. RestInv' /\ Answered(r, "setSession")
  BY <1>1, <1>3, <1>4, RecordCommand
<1>6. /\ \A x \in Sid : ssoSessions'[x] = "absent" => ssoSessions[x] = "absent"
      /\ \A x \in Sid : Ended(x) /\ x \in handed \ disturbed => Ended(x)'
  BY <1>1, <1>2, <1>3, <1>5, AnswerFacts DEF IInv, TypeOK, Ended
<1>7. ExclusionInv'
  BY <1>1, <1>5, <1>6, AnswerFacts DEF IInv, SessionsInv, ExclusionInv
<1>8. ASSUME NEW q \in Req PROVE FreshOf(q)' /\ DeletionOf(q)'
  <2>1. FreshOf(q) /\ DeletionOf(q)
    BY DEF IInv, SessionsInv
  <2>2. FreshOf(q)'
    BY <1>1, <1>5, <2>1, AnswerFacts DEF FreshOf
  <2>3. (Deletes(q)' => Deletes(q)) /\ (Missed(q)' => Missed(q))
    BY <1>5, AnswerFacts DEF Deletes, Missed
  <2>4. Victim(q) \in handed => Victim(q) \in Sid
    BY DEF IInv, TypeOK
  <2> QED
    BY <1>1, <1>3, <1>5, <1>6, <2>1, <2>2, <2>3, <2>4, AnswerFacts DEF DeletionOf
<1>9. ASSUME NEW x \in Sid PROVE EndedOf(x)'
  BY <1>1, <1>3, <1>6 DEF IInv, SessionsInv, EndedOf
<1> QED
  BY <1>5, <1>7, <1>8, <1>9 DEF IInv, RestInv, SessionsInv

LEMMA SetIndexStep == ASSUME IInv, NEW r \in Req, SetIndex(r) PROVE IInv'
<1>1. /\ Done(r, "setIndex") /\ found' = found /\ sidIndex' = sidIndex \cup {sid[r]}
      /\ UNCHANGED <<ssoSessions, sidRefreshFamilies, codes, family, dbVars, outVars, ghostVars>>
  BY DEF SetIndex
<1>2. StoresTyped'
  <2>1. sid[r] \in Sid
    BY <1>1, CommandFacts, CallFacts DEF IInv, Done
  <2> QED BY <1>1, <2>1 DEF IInv, TypeOK, StoresTyped
<1>3. RestInv' /\ Answered(r, "setIndex")
  BY <1>1, <1>2, RecordCommand
<1>4. \A x \in Sid : Ended(x) => Ended(x)'
  BY <1>1, <1>3, AnswerFacts DEF Ended
<1>5. ExclusionInv'
  BY <1>1, <1>3, AnswerFacts DEF IInv, SessionsInv, ExclusionInv
<1>6. ASSUME NEW q \in Req PROVE FreshOf(q)' /\ DeletionOf(q)'
  <2>1. FreshOf(q) /\ DeletionOf(q)
    BY DEF IInv, SessionsInv
  <2>2. FreshOf(q)'
    BY <1>1, <1>3, <2>1, AnswerFacts DEF FreshOf
  <2>3. (Deletes(q)' => Deletes(q)) /\ (Missed(q)' => Missed(q))
    BY <1>3, AnswerFacts DEF Deletes, Missed
  <2>4. Victim(q) \in handed => Victim(q) \in Sid
    BY DEF IInv, TypeOK
  <2> QED
    BY <1>1, <1>3, <1>4, <2>1, <2>2, <2>3, <2>4, AnswerFacts DEF DeletionOf
<1>7. ASSUME NEW x \in Sid PROVE EndedOf(x)'
  BY <1>1, <1>4 DEF IInv, SessionsInv, EndedOf
<1> QED
  BY <1>3, <1>5, <1>6, <1>7 DEF IInv, RestInv, SessionsInv

\* The row is marked last: the session is gone by then.
LEMMA MarkRevokedStep == ASSUME IInv, NEW r \in Req, MarkRevoked(r) PROVE IInv'
<1>1. /\ Done(r, "markRevoked") /\ found' = found
      /\ authSessions' = [authSessions EXCEPT ![sid[r]] =
                              IF @ \in {"active", "stale"} THEN "revoked" ELSE @]
      /\ UNCHANGED <<redisVars, sessionClients, serviceMembers, outVars, ghostVars>>
  BY DEF MarkRevoked
<1>2. PICK s \in Sid : s = sid[r] /\ Ending(r, s) /\ pc[r] = "notify"
  BY <1>1, CommandFacts, CallFacts DEF IInv, Done, Ending
<1>3. StoresTyped' /\ \A x \in Sid : /\ authSessions[x] # "none" => authSessions'[x] # "none"
                                     /\ x # s => authSessions'[x] = authSessions[x]
  BY <1>1, <1>2 DEF IInv, TypeOK, StoresTyped
<1>4. RestInv' /\ Answered(r, "markRevoked")
  BY <1>1, <1>3, RecordCommand
<1>5. \A x \in Sid : Ended(x) => Ended(x)'
  BY <1>1, <1>4, AnswerFacts DEF Ended
<1>6. ExclusionInv'
  BY <1>1, <1>4, AnswerFacts DEF IInv, SessionsInv, ExclusionInv
<1>7. ASSUME NEW q \in Req PROVE FreshOf(q)' /\ DeletionOf(q)'
  <2>1. FreshOf(q) /\ DeletionOf(q)
    BY DEF IInv, SessionsInv
  <2>2. kind[q] = "login" /\ sid[q] \notin disturbed => sid[q] \in Sid \ {s}
    BY <1>2, CallFacts DEF IInv, SessionsInv, ExclusionInv, Relying
  <2>3. FreshOf(q)'
    BY <1>1, <1>3, <1>4, <2>1, <2>2, AnswerFacts DEF FreshOf
  <2>4. (Deletes(q)' => Deletes(q)) /\ (Missed(q)' => Missed(q))
    BY <1>4, AnswerFacts DEF Deletes, Missed
  <2>5. Victim(q) \in handed => Victim(q) \in Sid
    BY DEF IInv, TypeOK
  <2> QED
    BY <1>1, <1>4, <1>5, <2>1, <2>3, <2>4, <2>5, AnswerFacts DEF DeletionOf
<1>8. s \in handed \ disturbed => Ended(s)
  <2>1. Missed(r) /\ Victim(r) = s /\ "delSession" \notin ops[r]
    BY <1>2, CommandFacts DEF IInv, Missed, Victim
  <2> QED BY <2>1 DEF IInv, SessionsInv, DeletionOf
<1>9. ASSUME NEW x \in Sid PROVE EndedOf(x)'
  BY <1>1, <1>3, <1>5, <1>8 DEF IInv, SessionsInv, EndedOf
<1> QED
  BY <1>4, <1>6, <1>7, <1>9 DEF IInv, RestInv, SessionsInv

\* The record goes while nobody relies on it, or the session is disturbed.
LEMMA DeleteSessionStep == ASSUME IInv, NEW r \in Req, DeleteSession(r) PROVE IInv'
<1>1. /\ Done(r, "delSession") /\ found' = found
      /\ ssoSessions' = [ssoSessions EXCEPT ![Victim(r)] = "absent"]
      /\ UNCHANGED <<sidIndex, sidRefreshFamilies, codes, family, dbVars, outVars, ghostVars>>
  BY DEF DeleteSession
<1>2. PICK s \in Sid : s = Victim(r) /\ Ending(r, s)
  BY <1>1, CommandFacts DEF IInv, Done, Ending, Victim
<1>3. /\ StoresTyped'
      /\ \A x \in Sid : ssoSessions'[x] = IF x = s THEN "absent" ELSE ssoSessions[x]
  BY <1>1, <1>2 DEF IInv, TypeOK, StoresTyped
<1>4. RestInv' /\ Answered(r, "delSession")
  <2>1. \A x \in handed \ disturbed : ssoSessions[x] = "absent" => ssoSessions'[x] = "absent"
    BY <1>3 DEF IInv, TypeOK
  <2> QED BY <1>1, <1>3, <2>1, RecordCommand
<1>5. \A x \in Sid : Ended(x) => Ended(x)'
  <2>1. ASSUME NEW x \in Sid \ {s}, NEW q \in Req, Completing(q, x) PROVE Completing(q, x)'
    BY <1>2, <1>4, <2>1, AnswerFacts DEF Completing
  <2> QED BY <1>3, <2>1 DEF Ended
<1>6. ExclusionInv'
  BY <1>1, <1>2, <1>3, <1>4, AnswerFacts DEF IInv, SessionsInv, ExclusionInv
<1>7. ASSUME NEW q \in Req PROVE FreshOf(q)' /\ DeletionOf(q)'
  <2>1. FreshOf(q) /\ DeletionOf(q)
    BY DEF IInv, SessionsInv
  <2>2. FreshOf(q)'
    BY <1>1, <1>4, <2>1, AnswerFacts DEF FreshOf
  <2>3. q # r => (Deletes(q)' => Deletes(q)) /\ (Missed(q)' => Missed(q))
                 /\ ("delSession" \in ops[q] => "delSession" \in ops'[q])
    BY <1>4, AnswerFacts DEF Deletes, Missed
  <2>4. Victim(q) \in handed => Victim(q) \in Sid
    BY DEF IInv, TypeOK
  <2>5. CASE q = r
    <3>1. Victim(r)' = s /\ ssoSessions'[s] = "absent"
      BY <1>2, <1>3, <1>4, AnswerFacts
    <3> QED BY <2>2, <2>5, <3>1 DEF DeletionOf, Ended
  <2>6. CASE q # r
    BY <1>1, <1>3, <1>4, <1>5, <2>1, <2>2, <2>3, <2>4, <2>6, AnswerFacts DEF DeletionOf
  <2> QED BY <2>5, <2>6
<1>8. ASSUME NEW x \in Sid PROVE EndedOf(x)'
  BY <1>1, <1>3, <1>5 DEF IInv, SessionsInv, EndedOf
<1> QED
  BY <1>4, <1>6, <1>7, <1>8 DEF IInv, RestInv, SessionsInv

\* The index goes: whoever took it still deletes the record, or has done so.
LEMMA DeleteIndexStep == ASSUME IInv, NEW r \in Req, DeleteIndex(r) PROVE IInv'
<1>1. /\ Done(r, "delIndex") /\ found' = found /\ sidIndex' = sidIndex \ {Victim(r)}
      /\ UNCHANGED <<ssoSessions, sidRefreshFamilies, codes, family, dbVars, outVars, ghostVars>>
  BY DEF DeleteIndex
<1>2. StoresTyped'
  BY <1>1 DEF IInv, TypeOK, StoresTyped
<1>3. RestInv' /\ Answered(r, "delIndex")
  BY <1>1, <1>2, RecordCommand
<1>4. \A x \in Sid : Ended(x) => Ended(x)'
  BY <1>1, <1>3, AnswerFacts DEF Ended
<1>5. PICK s \in Sid : s = Victim(r) /\ pc[r] \in {"dropPrevious", "kill", "load", "find"}
  BY <1>3, CommandFacts DEF IInv, Answered
<1>6. ExclusionInv'
  BY <1>1, <1>3, AnswerFacts DEF IInv, SessionsInv, ExclusionInv
<1>7. ASSUME NEW q \in Req PROVE FreshOf(q)' /\ DeletionOf(q)'
  <2>1. FreshOf(q) /\ DeletionOf(q)
    BY DEF IInv, SessionsInv
  <2>2. kind[q] = "login" /\ sid[q] \notin disturbed => sid[q] # s
    <3> SUFFICES ASSUME kind[q] = "login", s \notin disturbed, sid[q] = s PROVE FALSE
      OBVIOUS
    <3>1. Relying(q, s) /\ s \notin handed
      BY DEF Relying, IInv, RowsInv, RowOf
    <3>2. pc[r] # "load"
      BY <1>5, <3>1 DEF IInv, RowsInv, RowOf, Victim
    <3>3. Ending(r, s)
      BY <1>5, <3>2 DEF Ending, Victim
    <3> QED BY <3>1, <3>3 DEF IInv, SessionsInv, ExclusionInv
  <2>3. FreshOf(q)'
    BY <1>1, <1>3, <1>5, <2>1, <2>2, AnswerFacts DEF FreshOf
  <2>4. (Deletes(q)' => Deletes(q)) /\ (Missed(q)' => Missed(q))
    BY <1>3, AnswerFacts DEF Deletes, Missed
  <2>5. Victim(q) \in handed => Victim(q) \in Sid
    BY DEF IInv, TypeOK
  <2> QED
    BY <1>1, <1>3, <1>4, <2>1, <2>3, <2>4, <2>5, AnswerFacts DEF DeletionOf
<1>8. s \in handed \ disturbed => Ended(s)'
  <2>1. CASE "delSession" \in ops[r]
    <3>1. Completing(r, s)'
      BY <1>3, <1>5, <2>1, AnswerFacts DEF Completing
    <3> QED BY <3>1 DEF Ended
  <2>2. CASE "delSession" \notin ops[r]
    <3>1. Deletes(r)
      BY <1>3, <2>2 DEF Deletes, Answered
    <3> QED BY <1>1, <1>5, <3>1 DEF IInv, SessionsInv, DeletionOf, Ended
  <2> QED BY <2>1, <2>2
<1>9. ASSUME NEW x \in Sid PROVE EndedOf(x)'
  BY <1>1, <1>4, <1>5, <1>8 DEF IInv, SessionsInv, EndedOf
<1> QED
  BY <1>3, <1>6, <1>7, <1>9 DEF IInv, RestInv, SessionsInv

-----------------------------------------------------------------------------
(* Requests that look for a session, and begin to rely on it or to end it *)

\* Everything but the records, after a step of r that keeps the rest as it was.
LEMMA RestStep ==
  ASSUME IInv, NEW r \in Req, TypeOK', Others(r), SelfOK(r)', Grows, Hands(r), StartsLogin(r),
         \A s \in Sid : outcome'[s] # "open" => outcome[s] # "open" \/ authSessions[s] # "none",
         ListedSame, NoneHandedBack, ToldSame, QuietSame, quiet' \subseteq quiet, cut' = cut, GrantsOnly,
         \A k \in Code : Seen(k)' => Seen(k) \/ Recorded(k)',
         sidRefreshFamilies' = sidRefreshFamilies
  PROVE  RestInv'
<1> USE DEF IInv, SelfOK, SelfCalm
<1>1. CallsInv' /\ SelectInv' /\ ToldInv' /\ ListedInv'
  BY CallsKept, SelectKept, ToldKept, ListedKept
<1>2. RowsInv'
  BY RowsKept
<1>3. RecordedInv'
  BY RecordedKept
<1>4. QuietInv' /\ QuietRemovalCuts'
  BY QuietKept
<1> QED
  BY <1>1, <1>2, <1>3, <1>4 DEF RestInv

\* The same for a step that leaves the stores alone and may disturb a session.
LEMMA LookingStep ==
  ASSUME IInv, NEW r \in Req, CallsTyped', Others(r), SelfOK(r)', StartsLogin(r), GrantsOnly,
         UNCHANGED <<ssoSessions, sidIndex, sidRefreshFamilies, family, dbVars, outVars>>,
         UNCHANGED <<outcome, quiet, removed, cut, failed>>,
         codes' \in [Code -> {"unissued", "reserved", "stored", "delivered", "used"}],
         \A k \in Code : codes'[k] \in {"delivered", "used"} => codes[k] \in {"delivered", "used"},
         disturbed \subseteq disturbed', disturbed' \subseteq Sid
  PROVE  TypeOK' /\ RestInv' /\ SessionsSame
<1>1. StoresTyped' /\ HistoryTyped'
  BY DEF IInv, TypeOK, StoresTyped, HistoryTyped
<1>2. TypeOK'
  BY <1>1, TypeParts
<1>3. /\ Grows /\ Hands(r) /\ ListedSame /\ NoneHandedBack /\ ToldSame /\ QuietSame /\ SessionsSame
      /\ \A k \in Code : Seen(k)' => Seen(k)
  BY DEF IInv, TypeOK, Grows, Hands, ListedSame, NoneHandedBack, ToldSame, QuietSame, SessionsSame, Seen
<1> QED
  BY <1>2, <1>3, RestStep

\* The records, when r begins to end a session nobody relies on, or to rely on one nobody
\* ends.
LEMMA SessionsMoved ==
  ASSUME IInv, NEW r \in Req, TypeOK', Others(r), SessionsSame,
         \A s \in Sid \ disturbed' : \A q \in Req :
             /\ Ending(r, s)' => ~Relying(q, s)'
             /\ Relying(r, s)' => ~Ending(q, s)' /\ ~(s \in handed /\ ssoSessions[s] = "absent"),
         \A s \in Sid \ disturbed' : Completing(r, s) => Completing(r, s)',
         FreshOf(r)',
         (\A s \in Sid \ disturbed' : Ended(s) => Ended(s)') => DeletionOf(r)'
  PROVE  SessionsInv'
<1>1. ASSUME NEW q \in Req \ {r}
      PROVE  /\ Keeps(q) /\ Victim(q)' = Victim(q)
             /\ \A s \in Sid : /\ Ending(q, s)' <=> Ending(q, s)
                               /\ Relying(q, s)' <=> Relying(q, s)
                               /\ Completing(q, s)' <=> Completing(q, s)
  <2>1. Keeps(q)
    BY DEF Others
  <2>2. Victim(q)' = Victim(q)
    BY <2>1 DEF Keeps, KeepsCall, Victim
  <2> QED
    BY <2>1, <2>2 DEF Keeps, KeepsCall, Ending, Relying, Completing
<1>2. \A s \in Sid \ disturbed' : Ended(s) => Ended(s)'
  BY <1>1 DEF Ended, SessionsSame
<1>3. ExclusionInv'
  BY <1>1 DEF IInv, SessionsInv, SessionsSame, ExclusionInv
<1>4. ASSUME NEW q \in Req \ {r} PROVE FreshOf(q)' /\ DeletionOf(q)'
  <2>1. FreshOf(q) /\ DeletionOf(q) /\ Keeps(q)
    BY <1>1 DEF IInv, SessionsInv
  <2>2. kind[q] = "login" => sid[q] \in Sid
    BY CallFacts DEF IInv
  <2>3. FreshOf(q)'
    BY <2>1, <2>2 DEF Keeps, KeepsCall, FreshOf, SessionsSame
  <2>4. (Deletes(q)' => Deletes(q)) /\ (Missed(q)' => Missed(q))
    BY <2>1 DEF Keeps, Deletes, Missed
  <2>5. Victim(q) \in handed => Victim(q) \in Sid
    BY DEF IInv, TypeOK
  <2> QED
    BY <1>1, <1>2, <2>1, <2>3, <2>4, <2>5 DEF DeletionOf, SessionsSame, Keeps
<1>5. \A s \in Sid : EndedOf(s)'
  BY <1>2 DEF IInv, SessionsInv, SessionsSame, EndedOf
<1> QED
  BY <1>2, <1>3, <1>4, <1>5 DEF SessionsInv

\* loadSsoSessionByKey: a grant begins to rely on a live record; an idle one begins to go.
LEMMA GetSessionStep == ASSUME IInv, NEW r \in Req, GetSession(r) PROVE IInv'
<1>1. /\ "getSession" \in ops[r] /\ pc[r] \in {"load", "find"}
      /\ kind[r] \in Grants \cup {"logout", "portal"}
      /\ UNCHANGED <<ssoSessions, sidIndex, sidRefreshFamilies, family, dbVars, outVars>>
      /\ UNCHANGED <<outcome, quiet, removed, cut, failed>> /\ codes' = codes
      /\ UNCHANGED <<pc, callVars, listing, families, seen, notices>>
  BY CommandFacts, CallFacts DEF IInv, GetSession
<1>2. PICK s \in Sid : s = sid[r]
  BY <1>1, CallFacts DEF IInv
<1>3. /\ ~found[r] /\ ops[r] \cap {"getIndex", "delSession", "delIndex"} = {}
      /\ "createRow" \notin ops[r] /\ pc[r] = "load" => "getClients" \notin ops[r]
  BY <1>1, CommandFacts DEF IInv, CallsInv, CallOK, Loads
<1>4. /\ CallsTyped' /\ Others(r) /\ KeepsCall(r) /\ KeepsWork(r) /\ pc'[r] = pc[r]
      /\ found'[r] = (ssoSessions[s] = "live")
      /\ ops'[r] = (ops[r] \ {"getSession"}) \cup
                      (IF ssoSessions[s] = "idle" THEN {"delSession", "delIndex"} ELSE {})
      /\ disturbed' = disturbed \cup
           (IF \/ ssoSessions[s] = "live" /\ \E q \in Req \ {r} : Ending(q, s)
                  /\ kind[r] \in {"authorize", "exchange", "refresh"}
               \/ ssoSessions[s] = "idle" /\ \E q \in Req \ {r} : Relying(q, s)
            THEN {s} ELSE {})
  BY <1>1, <1>2 DEF IInv, TypeOK, CallsTyped, GetSession, Others, Keeps, KeepsCall, KeepsWork
<1>5. disturbed \subseteq disturbed' /\ disturbed' \subseteq Sid
  BY <1>4 DEF IInv, TypeOK
<1>6. CallOK(r) /\ RowOf(r) /\ RecordedOf(r) /\ ListedOf(r) /\ ToldOf(r) /\ QuietOf(r)
  BY DEF IInv, CallsInv, RowsInv, RecordedInv, ListedInv, ToldInv, QuietInv
<1>7. CallOK(r)'
  <2>1. AtPoint(r)'
    BY <1>1, <1>4, <1>6 DEF KeepsCall, CallOK, AtPoint, CommandsAt
  <2>2. Locals(r)' /\ Work(r)'
    BY <1>1, <1>4, <1>6 DEF KeepsCall, KeepsWork, CallOK, Locals, Work
  <2>3. Loads(r)'
    BY <1>1, <1>3, <1>4, <1>6 DEF KeepsCall, CallOK, Loads, Grants
  <2> QED BY <2>1, <2>2, <2>3 DEF CallOK
<1>8. RowOf(r)' /\ RecordedOf(r)'
  BY <1>1, <1>4, <1>6 DEF KeepsCall, KeepsWork, RowOf, RecordedOf, Recorded, Grants
<1>9. ListedOf(r)'
  BY <1>1, <1>2, <1>4, <1>5, <1>6 DEF KeepsCall, ListedOf
<1>10. ToldOf(r)' /\ SelectOf(r)' /\ QuietOf(r)'
  BY <1>1, <1>3, <1>4, <1>5, <1>6 DEF KeepsCall, KeepsWork, ToldOf, SelectOf, QuietOf, Grants
<1>11. StartsLogin(r) /\ GrantsOnly
  BY <1>1, <1>4, NothingGranted DEF KeepsCall, StartsLogin, GrantsBy
<1>12. TypeOK' /\ RestInv' /\ SessionsSame
  <2>1. codes' \in [Code -> {"unissued", "reserved", "stored", "delivered", "used"}]
    BY <1>1 DEF IInv, TypeOK
  <2> QED
    BY <1>1, <1>4, <1>5, <1>7, <1>8, <1>9, <1>10, <1>11, <2>1, LookingStep DEF SelfOK, SelfCalm
<1>13. ASSUME NEW q \in Req, s \notin disturbed'
       PROVE  /\ Ending(r, s)' => ~Relying(q, s)'
              /\ Relying(r, s)' => ~Ending(q, s)' /\ ~(s \in handed /\ ssoSessions[s] = "absent")
  <2>1. ~(Ending(r, s)' /\ Relying(r, s)')
    <3>1. pc[r] = "find" => kind[r] \in {"logout", "portal"}
      BY CallFacts DEF IInv
    <3> QED BY <1>1, <1>3, <1>4, <3>1 DEF Ending, Relying, KeepsCall, Grants
  <2>2. CASE q = r
    BY <1>1, <1>4, <2>1, <2>2 DEF Relying, KeepsCall, Grants
  <2>3. CASE q # r
    <3>1. (Ending(q, s)' <=> Ending(q, s)) /\ (Relying(q, s)' <=> Relying(q, s))
      BY <1>4, <2>3 DEF Others, Keeps, KeepsCall, Ending, Relying
    <3>2. Relying(r, s)' => ~Ending(q, s) /\ ssoSessions[s] = "live"
      BY <1>1, <1>4, <1>13, <2>3 DEF Relying, KeepsCall, Grants
    <3>3. Ending(r, s)' => Ending(r, s) \/ ssoSessions[s] = "idle"
      BY <1>1, <1>2, <1>3, <1>4 DEF Ending, KeepsCall
    <3>4. ssoSessions[s] = "idle" => ~Relying(q, s)
      BY <1>4, <1>13, <2>3
    <3>5. Ending(r, s) => ~Relying(q, s)
      BY <1>5, <1>13 DEF IInv, SessionsInv, ExclusionInv
    <3> QED BY <3>1, <3>2, <3>3, <3>4, <3>5
  <2> QED BY <2>2, <2>3
<1>14. \A x \in Sid : x # s => ~Ending(r, x)' /\ ~Relying(r, x)'
  BY <1>1, <1>2, <1>4 DEF Ending, Relying, KeepsCall
<1>15. (\A x \in Sid \ disturbed' : Ended(x) => Ended(x)') => DeletionOf(r)'
  <2>1. Victim(r)' = s /\ ~Deletes(r)'
    BY <1>1, <1>2, <1>3, <1>4 DEF Victim, Deletes, KeepsCall
  <2>2. Missed(r)' => Ended(s)' \/ "delSession" \in ops'[r]
    <3>1. Missed(r)' => ssoSessions[s] # "live"
      BY <1>1, <1>4 DEF Missed
    <3>2. ssoSessions[s] = "idle" => "delSession" \in ops'[r]
      BY <1>4
    <3>3. ssoSessions[s] = "absent" => Ended(s)'
      BY <1>1 DEF Ended
    <3> QED BY <3>1, <3>2, <3>3 DEF IInv, TypeOK
  <2> QED BY <2>1, <2>2 DEF DeletionOf
<1>16. FreshOf(r)' /\ \A x \in Sid : ~Completing(r, x)
  BY <1>1, <1>3, <1>4 DEF FreshOf, KeepsCall, Completing, Grants
<1>17. SessionsInv'
  BY <1>4, <1>12, <1>13, <1>14, <1>15, <1>16, SessionsMoved
<1> QED
  BY <1>12, <1>17 DEF IInv, RestInv

\* findSsoSessionBySid: a session without its index is past finding.
LEMMA GetIndexStep == ASSUME IInv, NEW r \in Req, GetIndex(r) PROVE IInv'
<1>1. /\ "getIndex" \in ops[r] /\ pc[r] = "find" /\ kind[r] \in {"logout", "portal"}
      /\ UNCHANGED <<ssoSessions, sidIndex, sidRefreshFamilies, family, dbVars, outVars>>
      /\ UNCHANGED <<outcome, quiet, removed, cut, failed>> /\ codes' = codes
      /\ disturbed' = disturbed
      /\ UNCHANGED <<pc, callVars, found, listing, families, seen, notices>>
  BY CommandFacts, CallFacts DEF IInv, GetIndex
<1>2. PICK s \in Sid : s = sid[r]
  BY <1>1, CallFacts DEF IInv
<1>3. ~found[r] /\ ops[r] \cap {"getSession", "delSession", "delIndex"} = {}
  BY <1>1 DEF IInv, CallsInv, CallOK, Loads
<1>4. /\ CallsTyped' /\ Others(r) /\ KeepsCall(r) /\ KeepsWork(r) /\ pc'[r] = pc[r]
      /\ found'[r] = found[r]
      /\ ops'[r] = (ops[r] \ {"getIndex"}) \cup (IF s \in sidIndex THEN {"getSession"} ELSE {})
  BY <1>1, <1>2 DEF IInv, TypeOK, CallsTyped, GetIndex, Others, Keeps, KeepsCall, KeepsWork
<1>5. CallOK(r) /\ RowOf(r) /\ RecordedOf(r) /\ ToldOf(r) /\ QuietOf(r)
  BY DEF IInv, CallsInv, RowsInv, RecordedInv, ToldInv, QuietInv
<1>6. CallOK(r)'
  <2>1. AtPoint(r)'
    BY <1>1, <1>4, <1>5 DEF KeepsCall, CallOK, AtPoint, CommandsAt
  <2>2. Locals(r)' /\ Work(r)'
    BY <1>1, <1>4, <1>5 DEF KeepsCall, KeepsWork, CallOK, Locals, Work
  <2>3. Loads(r)'
    BY <1>1, <1>3, <1>4, <1>5 DEF KeepsCall, CallOK, Loads, Grants
  <2> QED BY <2>1, <2>2, <2>3 DEF CallOK
<1>7. RowOf(r)' /\ RecordedOf(r)' /\ ListedOf(r)'
  BY <1>1, <1>4, <1>5 DEF KeepsCall, KeepsWork, RowOf, RecordedOf, Recorded, ListedOf, Grants
<1>8. ToldOf(r)' /\ SelectOf(r)' /\ QuietOf(r)'
  BY <1>1, <1>4, <1>5 DEF KeepsCall, KeepsWork, ToldOf, SelectOf, QuietOf
<1>9. StartsLogin(r) /\ GrantsOnly
  BY <1>1, <1>4, NothingGranted DEF KeepsCall, StartsLogin, GrantsBy
<1>10. TypeOK' /\ RestInv' /\ SessionsSame
  <2>1. codes' \in [Code -> {"unissued", "reserved", "stored", "delivered", "used"}]
        /\ disturbed' \subseteq Sid
    BY <1>1 DEF IInv, TypeOK
  <2> QED
    BY <1>1, <1>4, <1>6, <1>7, <1>8, <1>9, <2>1, LookingStep DEF SelfOK, SelfCalm
<1>11. \A x \in Sid : ~Relying(r, x)' /\ (Ending(r, x)' => Ending(r, x)) /\ ~Completing(r, x)
  BY <1>1, <1>3, <1>4 DEF Relying, Ending, Completing, KeepsCall
<1>12. ASSUME NEW x \in Sid \ disturbed', NEW q \in Req
       PROVE  Ending(r, x)' => ~Relying(q, x)'
  <2>1. q # r => (Relying(q, x)' <=> Relying(q, x))
    BY <1>4 DEF Others, Keeps, KeepsCall, Relying
  <2> QED
    BY <1>1, <1>11, <2>1 DEF IInv, SessionsInv, ExclusionInv
<1>13. (\A x \in Sid \ disturbed' : Ended(x) => Ended(x)') => DeletionOf(r)'
  <2>1. Victim(r)' = s /\ ~Deletes(r)'
    BY <1>1, <1>2, <1>3, <1>4 DEF Victim, Deletes, KeepsCall
  <2>2. Missed(r)' => s \notin sidIndex
    BY <1>1, <1>4 DEF Missed
  <2>3. s \in handed \ disturbed /\ s \notin sidIndex => Ended(s)
    BY DEF IInv, SessionsInv, EndedOf
  <2> QED BY <1>1, <2>1, <2>2, <2>3 DEF DeletionOf
<1>14. FreshOf(r)'
  BY <1>1, <1>4 DEF FreshOf, KeepsCall
<1>15. SessionsInv'
  BY <1>4, <1>10, <1>11, <1>12, <1>13, <1>14, SessionsMoved
<1> QED
  BY <1>10, <1>15 DEF IInv, RestInv

\* The sid of a new session is nobody else's.
LEMMA LoginStep ==
  ASSUME IInv, NEW r \in Req, NEW s \in Sid, NEW o \in Sid \cup {NoSid}, NEW k \in Code \cup {NoCode},
         Login(r, s, o, k)
  PROVE  IInv'
<1>1. /\ authSessions[s] = "none" /\ ssoSessions[s] = "absent" /\ s \notin sidIndex
      /\ \A q \in Req : sid[q] # s
      /\ o \in handed \cup {NoSid}
      /\ k # NoCode => codes[k] = "unissued" /\ SidOf[k] = s
      /\ codes' = IF k = NoCode THEN codes ELSE [codes EXCEPT ![k] = "reserved"]
      /\ Call(r, "login", "create", {"setSession", "setIndex", "createRow"}, s, o, k)
      /\ UNCHANGED <<ssoSessions, sidIndex, sidRefreshFamilies, family, dbVars, outVars>>
      /\ UNCHANGED <<disturbed, outcome, quiet, removed, cut, failed>>
  BY DEF Login
<1>2. /\ CallsTyped' /\ Others(r)
      /\ pc[r] = "idle" /\ pc'[r] = "create" /\ kind'[r] = "login"
      /\ ops'[r] = {"setSession", "setIndex", "createRow"}
      /\ sid'[r] = s /\ other'[r] = o /\ code'[r] = k /\ member'[r] = member[r]
      /\ found'[r] = found[r] /\ KeepsWork(r)
  BY <1>1, CallMoves, TypeParts DEF IInv
<1>3. /\ member[r] = NoMember /\ found[r] = FALSE /\ ops[r] = {} /\ NoWork(r) /\ r \notin quiet
  BY <1>2, IdleFacts
<1>4. NoWork(r)'
  BY <1>2, <1>3 DEF NoWork, KeepsWork
<1>5. s \notin handed /\ outcome[s] = "open"
  BY <1>1 DEF IInv, RowsInv
<1>6. CallOK(r)'
  BY <1>1, <1>2, <1>3, <1>4 DEF NoWork, CallOK, AtPoint, Locals, Loads, Work, KindsAt, CommandsAt, Grants
<1>7. RowOf(r)' /\ RecordedOf(r)' /\ ListedOf(r)' /\ ToldOf(r)' /\ SelectOf(r)' /\ QuietOf(r)'
  BY <1>1, <1>2, <1>3, <1>4, <1>5 DEF NoWork, RowOf, RecordedOf, ListedOf, ToldOf, SelectOf,
                                      QuietOf, Grants
<1>8. codes' \in [Code -> {"unissued", "reserved", "stored", "delivered", "used"}]
      /\ \A x \in Code : codes'[x] \in {"stored", "delivered", "used"} => codes'[x] = codes[x]
  BY <1>1 DEF IInv, TypeOK
<1>9. StartsLogin(r) /\ GrantsOnly
  <2>1. ~GrantsBy(r)'
    BY <1>2 DEF GrantsBy
  <2> QED BY <1>1, <1>2, <1>8, <2>1, NothingGranted DEF StartsLogin
<1>10. TypeOK' /\ RestInv' /\ SessionsSame
  <2>1. disturbed' \subseteq Sid
    BY <1>1 DEF IInv, TypeOK
  <2> QED
    BY <1>1, <1>2, <1>6, <1>7, <1>8, <1>9, <2>1, LookingStep DEF SelfOK, SelfCalm
<1>11. ASSUME NEW q \in Req PROVE ~Ending(q, s)'
  <2>1. q = r => ~Ending(q, s)'
    BY <1>2 DEF Ending
  <2>2. pc[q] = "dropPrevious" => other[q] # s
    BY <1>5, CallFacts DEF IInv, RowsInv, RowOf
  <2>3. ~Ending(q, s)
    BY <1>1, <2>2 DEF Ending
  <2> QED BY <1>2, <2>1, <2>3 DEF Others, Keeps, KeepsCall, Ending
<1>12. \A x \in Sid : ~Ending(r, x)' /\ (Relying(r, x)' => x = s) /\ ~Completing(r, x)
  BY <1>2, <1>3 DEF Ending, Relying, Completing
<1>13. FreshOf(r)' /\ DeletionOf(r)'
  BY <1>1, <1>2, <1>5 DEF FreshOf, DeletionOf, Victim
<1>14. SessionsInv'
  BY <1>2, <1>5, <1>10, <1>11, <1>12, <1>13, SessionsMoved
<1> QED
  BY <1>10, <1>14 DEF IInv, RestInv

\* The login turns to the session it replaces.
LEMMA PreviousStep == ASSUME IInv, NEW r \in Req, Previous(r) PROVE IInv'
<1> DEFINE there == other[r] # NoSid /\ ssoSessions[other[r]] # "absent"
           cmds == IF there THEN {"delSession", "delIndex"} ELSE {}
<1>1. /\ pc[r] = "create" /\ ops[r] = {} /\ kind[r] = "login"
      /\ Await(r, "dropPrevious", cmds)
      /\ IF there THEN Disturbed(r, other[r]) ELSE UNCHANGED disturbed
      /\ UNCHANGED <<ssoSessions, sidIndex, sidRefreshFamilies, family, dbVars, outVars>>
      /\ UNCHANGED <<outcome, quiet, removed, cut, failed>> /\ codes' = codes
  BY CallFacts DEF IInv, Previous, Resumes, Working
<1>2. /\ CallsTyped' /\ Others(r) /\ KeepsCall(r) /\ KeepsWork(r)
      /\ pc'[r] = "dropPrevious" /\ ops'[r] = cmds /\ found'[r] = found[r]
  BY <1>1, AwaitMoves, TypeParts DEF IInv
<1>3. /\ sid[r] \in Sid /\ sid[r] \notin handed /\ other[r] \in handed \cup {NoSid}
      /\ handed \subseteq Sid
  BY <1>1, CallFacts DEF IInv, TypeOK, RowsInv, RowOf
<1>4. disturbed \subseteq disturbed' /\ disturbed' \subseteq Sid
  BY <1>1, <1>3 DEF IInv, TypeOK, Disturbed
<1>5. CallOK(r) /\ RowOf(r) /\ QuietOf(r) /\ FreshOf(r)
  BY DEF IInv, CallsInv, RowsInv, QuietInv, SessionsInv
<1>6. NoWork(r)'
  BY <1>1, <1>2, <1>5 DEF CallOK, Work, NoWork, KeepsWork
<1>7. CallOK(r)'
  BY <1>1, <1>2, <1>3, <1>5, <1>6 DEF KeepsCall, NoWork, CallOK, AtPoint, Locals, Loads, Work,
                                     KindsAt, CommandsAt, Grants
<1>8. RowOf(r)' /\ RecordedOf(r)' /\ ListedOf(r)' /\ ToldOf(r)' /\ SelectOf(r)' /\ QuietOf(r)'
  BY <1>1, <1>2, <1>5, <1>6 DEF KeepsCall, NoWork, RowOf, RecordedOf, ListedOf, ToldOf, SelectOf,
                                QuietOf, Grants
<1>9. StartsLogin(r) /\ GrantsOnly
  BY <1>1, <1>2, NothingGranted DEF KeepsCall, StartsLogin, GrantsBy
<1>10. TypeOK' /\ RestInv' /\ SessionsSame
  <2>1. codes' \in [Code -> {"unissued", "reserved", "stored", "delivered", "used"}]
    BY <1>1 DEF IInv, TypeOK
  <2> QED
    BY <1>1, <1>2, <1>4, <1>7, <1>8, <1>9, <2>1, LookingStep DEF SelfOK, SelfCalm
<1>11. ASSUME NEW x \in Sid \ disturbed', NEW q \in Req
       PROVE  /\ Ending(r, x)' => ~Relying(q, x)'
              /\ Relying(r, x)' => ~Ending(q, x)' /\ ~(x \in handed /\ ssoSessions[x] = "absent")
  <2>1. Ending(r, x)' <=> x = other[r]
    BY <1>2 DEF Ending, KeepsCall
  <2>2. Relying(r, x)' <=> x = sid[r]
    BY <1>1, <1>2, <1>5 DEF Relying, KeepsCall, CallOK, Loads
  <2>3. CASE q = r
    BY <1>3, <2>1, <2>2, <2>3
  <2>4. CASE q # r
    <3>1. (Ending(q, x)' <=> Ending(q, x)) /\ (Relying(q, x)' <=> Relying(q, x))
      BY <1>2, <2>4 DEF Others, Keeps, KeepsCall, Ending, Relying
    <3>2. x = other[r] => ~Relying(q, x)
      <4>1. CASE there
        BY <1>1, <2>4, <4>1 DEF Disturbed
      <4>2. CASE ~there
        BY <1>1, <1>3, <4>2 DEF IInv, SessionsInv, ExclusionInv
      <4> QED BY <4>1, <4>2
    <3>3. x = sid[r] => ~Ending(q, x)
      <4>1. x = sid[r] => Relying(r, x)
        BY <1>1 DEF Relying
      <4> QED BY <1>4, <4>1 DEF IInv, SessionsInv, ExclusionInv
    <3> QED BY <1>3, <2>1, <2>2, <3>1, <3>2, <3>3
  <2> QED BY <2>3, <2>4
<1>12. FreshOf(r)' /\ \A x \in Sid : ~Completing(r, x)
  BY <1>1, <1>2, <1>4, <1>5 DEF FreshOf, Completing, KeepsCall
<1>13. DeletionOf(r)'
  BY <1>1, <1>2, <1>3 DEF DeletionOf, Victim, Deletes, Missed, KeepsCall
<1>14. SessionsInv'
  BY <1>2, <1>10, <1>11, <1>12, <1>13, SessionsMoved
<1> QED
  BY <1>10, <1>14 DEF IInv, RestInv

\* A revocation turns to its target, and disturbs it if somebody relies on it.
LEMMA RevokeSessionBySidStep == ASSUME IInv, NEW r \in Req, RevokeSessionBySid(r) PROVE IInv'
<1>1. PICK s \in Sid : s = (IF kind[r] = "portal" THEN other[r] ELSE sid[r]) /\ authSessions[s] # "none"
  <2>1. pc[r] = "load" /\ kind[r] \in {"logout", "portal"}
    BY DEF RevokeSessionBySid, Resumes
  <2> QED
    BY <2>1, CallFacts DEF IInv, RowsInv, RowOf
<1>2. /\ pc[r] = "load" /\ ops[r] = {} /\ kind[r] \in {"logout", "portal"}
      /\ Disturbed(r, s)
      /\ UNCHANGED <<ssoSessions, sidIndex, sidRefreshFamilies, family, dbVars, outVars>>
      /\ UNCHANGED <<outcome, quiet, removed, cut, failed>> /\ codes' = codes
      /\ UNCHANGED <<kind, other, code, member, listing, families, seen, notices>>
  BY <1>1 DEF RevokeSessionBySid, Resumes, Working
<1>3. /\ CallsTyped' /\ Others(r) /\ KeepsWork(r)
      /\ pc'[r] = "find" /\ ops'[r] = {"getIndex", "getClients"} /\ sid'[r] = s /\ found'[r] = FALSE
      /\ kind'[r] = kind[r] /\ other'[r] = other[r] /\ code'[r] = code[r] /\ member'[r] = member[r]
  BY <1>1, <1>2 DEF IInv, TypeOK, CallsTyped, RevokeSessionBySid, Others, Keeps, KeepsCall, KeepsWork
<1>4. disturbed \subseteq disturbed' /\ disturbed' \subseteq Sid
  BY <1>2 DEF IInv, TypeOK, Disturbed
<1>5. CallOK(r) /\ RowOf(r) /\ QuietOf(r)
  BY DEF IInv, CallsInv, RowsInv, QuietInv
<1>6. NoWork(r)'
  BY <1>2, <1>3, <1>5 DEF CallOK, Work, NoWork, KeepsWork
<1>7. CallOK(r)'
  BY <1>2, <1>3, <1>5, <1>6 DEF NoWork, CallOK, AtPoint, Locals, Loads, Work, KindsAt, CommandsAt, Grants
<1>8. RowOf(r)' /\ RecordedOf(r)' /\ ListedOf(r)' /\ ToldOf(r)' /\ SelectOf(r)' /\ QuietOf(r)'
  BY <1>1, <1>2, <1>3, <1>5, <1>6 DEF NoWork, RowOf, RecordedOf, ListedOf, ToldOf, SelectOf,
                                      QuietOf, Grants
<1>9. StartsLogin(r) /\ GrantsOnly
  BY <1>2, <1>3, NothingGranted DEF StartsLogin, GrantsBy
<1>10. TypeOK' /\ RestInv' /\ SessionsSame
  <2>1. codes' \in [Code -> {"unissued", "reserved", "stored", "delivered", "used"}]
    BY <1>2 DEF IInv, TypeOK
  <2> QED
    BY <1>2, <1>3, <1>4, <1>7, <1>8, <1>9, <2>1, LookingStep DEF SelfOK, SelfCalm
<1>11. ASSUME NEW x \in Sid \ disturbed', NEW q \in Req
       PROVE  ~Relying(r, x)' /\ (Ending(r, x)' => ~Relying(q, x)')
  <2>1. ~Relying(r, x)' /\ (Ending(r, x)' => x = s)
    BY <1>2, <1>3 DEF Relying, Ending
  <2>2. q # r => ~Relying(q, s) \/ s \in disturbed'
    BY <1>2 DEF Disturbed
  <2>3. q # r => (Relying(q, x)' <=> Relying(q, x))
    BY <1>3 DEF Others, Keeps, KeepsCall, Relying
  <2> QED BY <2>1, <2>2, <2>3
<1>12. FreshOf(r)' /\ \A x \in Sid : ~Completing(r, x)
  BY <1>2, <1>3 DEF FreshOf, Completing
<1>13. DeletionOf(r)'
  BY <1>3 DEF DeletionOf, Victim, Deletes, Missed
<1>14. SessionsInv'
  BY <1>3, <1>10, <1>11, <1>12, <1>13, SessionsMoved
<1> QED
  BY <1>10, <1>14 DEF IInv, RestInv

-----------------------------------------------------------------------------
(* Revocations that have looked for their session *)

\* The session was not found; the services are told all the same.
LEMMA NotFoundStep == ASSUME IInv, NEW r \in Req, NotFound(r) PROVE IInv'
<1>1. /\ pc[r] = "find" /\ ops[r] = {} /\ ~found[r] /\ kind[r] \in {"logout", "portal"}
      /\ Await(r, "notify", {"markRevoked"})
      /\ UNCHANGED <<ssoSessions, sidIndex, sidRefreshFamilies, family, dbVars, outVars>>
      /\ UNCHANGED <<outcome, quiet, removed, cut, failed>> /\ codes' = codes
      /\ disturbed' = disturbed
  BY CallFacts DEF IInv, NotFound, Resumes, Working
<1>2. PICK s \in Sid : s = sid[r]
  BY <1>1, CallFacts DEF IInv
<1>3. /\ CallsTyped' /\ Others(r) /\ KeepsCall(r) /\ KeepsWork(r)
      /\ pc'[r] = "notify" /\ ops'[r] = {"markRevoked"} /\ found'[r] = found[r]
  BY <1>1, AwaitMoves, TypeParts DEF IInv
<1>4. CallOK(r) /\ RowOf(r) /\ RecordedOf(r) /\ ToldOf(r) /\ QuietOf(r) /\ DeletionOf(r)
  BY DEF IInv, CallsInv, RowsInv, RecordedInv, ToldInv, QuietInv, SessionsInv
<1>5. CallOK(r)'
  <2>1. AtPoint(r)'
    BY <1>1, <1>3 DEF KeepsCall, AtPoint, KindsAt, CommandsAt
  <2>2. Locals(r)' /\ Work(r)' /\ Loads(r)'
    BY <1>1, <1>3, <1>4 DEF KeepsCall, KeepsWork, CallOK, Locals, Work, Loads, Grants
  <2> QED BY <2>1, <2>2 DEF CallOK
<1>6. RowOf(r)' /\ RecordedOf(r)' /\ ListedOf(r)'
  BY <1>1, <1>3, <1>4 DEF KeepsCall, KeepsWork, RowOf, RecordedOf, Recorded, ListedOf, Grants
<1>7. ToldOf(r)' /\ SelectOf(r)' /\ QuietOf(r)'
  BY <1>1, <1>3, <1>4 DEF KeepsCall, KeepsWork, ToldOf, SelectOf, QuietOf
<1>8. StartsLogin(r) /\ GrantsOnly
  BY <1>1, <1>3, NothingGranted DEF KeepsCall, StartsLogin, GrantsBy
<1>9. TypeOK' /\ RestInv' /\ SessionsSame
  <2>1. codes' \in [Code -> {"unissued", "reserved", "stored", "delivered", "used"}]
        /\ disturbed' \subseteq Sid
    BY <1>1 DEF IInv, TypeOK
  <2> QED
    BY <1>1, <1>3, <1>5, <1>6, <1>7, <1>8, <2>1, LookingStep DEF SelfOK, SelfCalm
<1>10. \A x \in Sid : ~Relying(r, x)' /\ (Ending(r, x)' => Ending(r, x)) /\ ~Completing(r, x)
  BY <1>1, <1>3 DEF Relying, Ending, Completing, KeepsCall
<1>11. ASSUME NEW x \in Sid \ disturbed', NEW q \in Req
       PROVE  Ending(r, x)' => ~Relying(q, x)'
  <2>1. q # r => (Relying(q, x)' <=> Relying(q, x))
    BY <1>3 DEF Others, Keeps, KeepsCall, Relying
  <2> QED
    BY <1>1, <1>10, <2>1 DEF IInv, SessionsInv, ExclusionInv
<1>12. (\A x \in Sid \ disturbed' : Ended(x) => Ended(x)') => DeletionOf(r)'
  <2>1. Victim(r) = s /\ Victim(r)' = s /\ ~Deletes(r)' /\ Missed(r) /\ "delSession" \notin ops[r]
    BY <1>1, <1>2, <1>3 DEF Victim, Deletes, Missed, KeepsCall
  <2>2. s \in handed \ disturbed => Ended(s)
    BY <1>4, <2>1 DEF DeletionOf
  <2> QED BY <1>1, <2>1, <2>2 DEF DeletionOf
<1>13. FreshOf(r)'
  BY <1>1, <1>3 DEF FreshOf, KeepsCall
<1>14. SessionsInv'
  BY <1>3, <1>9, <1>10, <1>11, <1>12, <1>13, SessionsMoved
<1> QED
  BY <1>9, <1>14 DEF IInv, RestInv

\* The families of the session are read: all the live ones are among them.
LEMMA ListFamiliesStep == ASSUME IInv, NEW r \in Req, ListFamilies(r) PROVE IInv'
<1>1. /\ pc[r] = "find" /\ ops[r] = {} /\ found[r] /\ kind[r] \in {"logout", "portal"}
      /\ UNCHANGED <<ssoSessions, sidIndex, sidRefreshFamilies, family, dbVars, outVars>>
      /\ UNCHANGED <<outcome, quiet, removed, cut, failed>> /\ codes' = codes
      /\ disturbed' = disturbed
      /\ UNCHANGED <<callVars, found, listing, seen, notices>>
  BY CallFacts DEF IInv, ListFamilies, Resumes, Working
<1>2. PICK s \in Sid : s = sid[r]
  BY <1>1, CallFacts DEF IInv
<1>3. /\ CallsTyped' /\ Others(r) /\ KeepsCall(r)
      /\ pc'[r] = "kill" /\ ops'[r] = {"delSession", "delIndex"} /\ found'[r] = found[r]
      /\ families'[r] = sidRefreshFamilies[s]
  BY <1>1, <1>2 DEF IInv, TypeOK, CallsTyped, ListFamilies, Others, Keeps, KeepsCall, KeepsWork
<1>4. CallOK(r) /\ RowOf(r) /\ RecordedOf(r) /\ ToldOf(r) /\ QuietOf(r)
  BY DEF IInv, CallsInv, RowsInv, RecordedInv, ToldInv, QuietInv
<1>5. CallOK(r)'
  <2>1. AtPoint(r)'
    BY <1>1, <1>3 DEF KeepsCall, AtPoint, KindsAt, CommandsAt
  <2>2. Locals(r)' /\ Work(r)' /\ Loads(r)'
    BY <1>1, <1>3, <1>4 DEF KeepsCall, CallOK, Locals, Work, Loads, Grants
  <2> QED BY <2>1, <2>2 DEF CallOK
<1>6. RowOf(r)' /\ RecordedOf(r)'
  BY <1>1, <1>3, <1>4 DEF KeepsCall, RowOf, RecordedOf, Recorded, Grants
<1>7. ListedOf(r)'
  BY <1>1, <1>2, <1>3 DEF IInv, ListedInv, ListedOf, KeepsCall
<1>8. ToldOf(r)' /\ SelectOf(r)' /\ QuietOf(r)'
  BY <1>1, <1>3, <1>4 DEF KeepsCall, ToldOf, SelectOf, QuietOf
<1>9. StartsLogin(r) /\ GrantsOnly
  BY <1>1, <1>3, NothingGranted DEF KeepsCall, StartsLogin, GrantsBy
<1>10. TypeOK' /\ RestInv' /\ SessionsSame
  <2>1. codes' \in [Code -> {"unissued", "reserved", "stored", "delivered", "used"}]
        /\ disturbed' \subseteq Sid
    BY <1>1 DEF IInv, TypeOK
  <2> QED
    BY <1>1, <1>3, <1>5, <1>6, <1>7, <1>8, <1>9, <2>1, LookingStep DEF SelfOK, SelfCalm
<1>11. \A x \in Sid : ~Relying(r, x)' /\ (Ending(r, x)' => Ending(r, x)) /\ ~Completing(r, x)
  BY <1>1, <1>3 DEF Relying, Ending, Completing, KeepsCall
<1>12. ASSUME NEW x \in Sid \ disturbed', NEW q \in Req
       PROVE  Ending(r, x)' => ~Relying(q, x)'
  <2>1. q # r => (Relying(q, x)' <=> Relying(q, x))
    BY <1>3 DEF Others, Keeps, KeepsCall, Relying
  <2> QED
    BY <1>1, <1>11, <2>1 DEF IInv, SessionsInv, ExclusionInv
<1>13. FreshOf(r)' /\ DeletionOf(r)'
  BY <1>1, <1>3 DEF FreshOf, DeletionOf, Deletes, Missed, KeepsCall
<1>14. SessionsInv'
  BY <1>3, <1>10, <1>11, <1>12, <1>13, SessionsMoved
<1> QED
  BY <1>10, <1>14 DEF IInv, RestInv

\* Record, index and families are gone, and so is the list of the families: nobody who
\* relies on the session is left to miss it.
LEMMA KilledStep == ASSUME IInv, NEW r \in Req, Killed(r) PROVE IInv'
<1>1. /\ pc[r] = "kill" /\ ops[r] = {} /\ families[r] = {} /\ seen[r] = {}
      /\ kind[r] \in {"logout", "portal"}
      /\ Await(r, "notify", {"markRevoked"})
      /\ sidRefreshFamilies' = [sidRefreshFamilies EXCEPT ![sid[r]] = {}]
      /\ UNCHANGED <<ssoSessions, sidIndex, codes, family, dbVars, outVars>>
      /\ UNCHANGED <<disturbed, outcome, quiet, removed, cut, failed>>
  BY CallFacts DEF IInv, Killed, Resumes, Working
<1>2. PICK s \in Sid : s = sid[r]
  BY <1>1, CallFacts DEF IInv
<1>3. /\ CallsTyped' /\ Others(r) /\ KeepsCall(r) /\ KeepsWork(r)
      /\ pc'[r] = "notify" /\ ops'[r] = {"markRevoked"} /\ found'[r] = found[r]
  BY <1>1, AwaitMoves, TypeParts DEF IInv
<1>4. /\ TypeOK'
      /\ \A x \in Sid : sidRefreshFamilies'[x] = IF x = s THEN {} ELSE sidRefreshFamilies[x]
  <2>1. StoresTyped' /\ HistoryTyped'
    BY <1>1, <1>2 DEF IInv, TypeOK, StoresTyped, HistoryTyped
  <2> QED BY <1>1, <1>2, <1>3, <2>1, TypeParts DEF IInv, TypeOK
<1>5. /\ CallOK(r) /\ RowOf(r) /\ RecordedOf(r) /\ ListedOf(r) /\ ToldOf(r) /\ QuietOf(r)
      /\ DeletionOf(r)
  BY DEF IInv, CallsInv, RowsInv, RecordedInv, ListedInv, ToldInv, QuietInv, SessionsInv
<1>6. s \notin disturbed => AllDead(s) /\ (s \in handed => ssoSessions[s] = "absent")
  <2>1. Deletes(r) /\ Victim(r) = s
    BY <1>1, <1>2 DEF Deletes, Victim
  <2> QED BY <1>1, <1>2, <1>5, <2>1 DEF ListedOf, DeletionOf, AllDead
<1>7. CallOK(r)'
  <2>1. AtPoint(r)'
    BY <1>1, <1>3 DEF KeepsCall, AtPoint, KindsAt, CommandsAt
  <2>2. Locals(r)' /\ Work(r)' /\ Loads(r)'
    BY <1>1, <1>3, <1>5 DEF KeepsCall, KeepsWork, CallOK, Locals, Work, Loads, Grants
  <2> QED BY <2>1, <2>2 DEF CallOK
<1>8. RowOf(r)' /\ RecordedOf(r)'
  BY <1>1, <1>3, <1>5 DEF KeepsCall, KeepsWork, RowOf, RecordedOf, Recorded, Grants
<1>9. ToldOf(r)' /\ SelectOf(r)' /\ QuietOf(r)'
  BY <1>1, <1>3, <1>5 DEF KeepsCall, KeepsWork, ToldOf, SelectOf, QuietOf
<1>10. StartsLogin(r) /\ GrantsOnly
  BY <1>1, <1>3, NothingGranted DEF KeepsCall, StartsLogin, GrantsBy
<1>11. ListedInv'
  <2>1. \A k \in Code : SidOf[k] \notin disturbed' /\ family'[k] = "live" =>
                            k \in sidRefreshFamilies'[SidOf[k]]
    BY <1>1, <1>4, <1>6 DEF IInv, ListedInv, AllDead
  <2>2. \A x \in Sid : AllDead(x)' <=> AllDead(x)
    BY <1>1 DEF AllDead
  <2>3. ListedOf(r)'
    BY <1>1, <1>2, <1>3, <1>6, <2>2 DEF ListedOf, KeepsCall
  <2>4. ASSUME NEW q \in Req \ {r} PROVE ListedOf(q)'
    <3>1. Keeps(q) /\ ListedOf(q) /\ RowOf(q) /\ CallOK(q)
      BY <1>3 DEF Others, IInv, ListedInv, RowsInv, CallsInv
    <3>2. sid[q] = s /\ s \notin disturbed => ~Relying(q, s)
      BY <1>1, <1>2 DEF Ending, IInv, SessionsInv, ExclusionInv
    <3>3. (kind[q] = "refresh" /\ found[q]) \/ pc[q] = "index" => Relying(q, sid[q])
      BY <3>1, CallFacts DEF IInv, CallOK, Loads, Relying, Grants
    <3>4. kind[q] = "refresh" /\ "getSession" \in ops[q] => sid[q] \in handed
      BY <3>1 DEF RowOf, Grants
    <3>5. kind[q] = "refresh" \/ pc[q] \in {"index", "notify"} => sid[q] \in Sid
      BY CallFacts DEF IInv, Grants
    <3> QED
      BY <1>1, <1>4, <1>6, <2>2, <3>1, <3>2, <3>3, <3>4, <3>5 DEF ListedOf, Keeps, KeepsCall, KeepsWork
  <2> QED
    BY <1>1, <2>1, <2>2, <2>3, <2>4 DEF IInv, ListedInv
<1>12. RestInv'
  <2>1. /\ Grows /\ Hands(r) /\ ToldSame /\ QuietSame
        /\ \A k \in Code : Seen(k)' => Seen(k)
        /\ \A x \in Sid : \A k \in sidRefreshFamilies'[x] : k \in sidRefreshFamilies[x]
    BY <1>1, <1>4 DEF IInv, TypeOK, Grows, Hands, ToldSame, QuietSame, Seen
  <2>2. CallsInv' /\ SelectInv' /\ ToldInv'
    BY <1>3, <1>7, <1>9, <2>1, CallsKept, SelectKept, ToldKept DEF IInv
  <2>3. RowsInv'
    BY <1>1, <1>3, <1>4, <1>8, <1>10, <2>1, RowsKept DEF IInv
  <2>4. RecordedInv'
    BY <1>3, <1>4, <1>8, <2>1, RecordedKept DEF IInv
  <2>5. QuietInv' /\ QuietRemovalCuts'
    BY <1>1, <1>3, <1>9, <1>10, <2>1, QuietKept DEF IInv
  <2> QED
    BY <1>4, <1>11, <2>2, <2>3, <2>4, <2>5 DEF RestInv
<1>13. \A x \in Sid : ~Relying(r, x)' /\ (Ending(r, x)' => Ending(r, x)) /\ ~Completing(r, x)
  BY <1>1, <1>3 DEF Relying, Ending, Completing, KeepsCall
<1>14. ASSUME NEW x \in Sid \ disturbed', NEW q \in Req
       PROVE  Ending(r, x)' => ~Relying(q, x)'
  <2>1. q # r => (Relying(q, x)' <=> Relying(q, x))
    BY <1>3 DEF Others, Keeps, KeepsCall, Relying
  <2> QED
    BY <1>1, <1>13, <2>1 DEF IInv, SessionsInv, ExclusionInv
<1>15. FreshOf(r)' /\ DeletionOf(r)'
  <2>1. Victim(r)' = s /\ ~Deletes(r)'
    BY <1>1, <1>2, <1>3 DEF Victim, Deletes, KeepsCall
  <2> QED
    BY <1>1, <1>3, <1>6, <2>1 DEF FreshOf, DeletionOf, Ended, KeepsCall
<1>16. SessionsSame
  BY <1>1 DEF SessionsSame
<1>17. SessionsInv'
  BY <1>3, <1>4, <1>13, <1>14, <1>15, <1>16, SessionsMoved
<1> QED
  BY <1>12, <1>17 DEF IInv, RestInv

-----------------------------------------------------------------------------
(* Requests that complete: a session is handed over, replaced or ended *)

\* Nobody but the login that made it has to do with a session not yet handed over.
LEMMA HandedOver ==
  ASSUME IInv, NEW r \in Req, Hands(r), NEW s \in handed' \ handed, s \notin disturbed
  PROVE  /\ s \in Sid /\ s \in sidIndex /\ authSessions[s] # "revoked" /\ outcome[s] = "open"
         /\ \A q \in Req \ {r} : ~Relying(q, s)
         /\ \A q \in Req : pc[q] \in {"find", "kill", "notify", "load"} => sid[q] # s
         /\ \A q \in Req : pc[q] = "dropPrevious" => other[q] # s
<1>1. kind[r] = "login" /\ s = sid[r] /\ pc[r] # "create" /\ s \in Sid
  BY CallFacts DEF IInv, Hands
<1>2. s \in sidIndex /\ authSessions[s] # "revoked" /\ outcome[s] = "open"
  BY <1>1 DEF IInv, SessionsInv, FreshOf
<1>3. ASSUME NEW q \in Req \ {r} PROVE ~Relying(q, s)
  BY <1>1 DEF IInv, RowsInv, RowOf, Relying, Grants
<1>4. \A q \in Req : ~Ending(q, s)
  BY <1>1 DEF Relying, IInv, SessionsInv, ExclusionInv
<1>5. \A q \in Req : pc[q] = "load" => sid[q] # s
  BY DEF IInv, RowsInv, RowOf
<1> QED
  BY <1>1, <1>2, <1>3, <1>4, <1>5 DEF Ending

\* The records, when r is through with what it did to a session: how far it ended one is
\* true, and nobody is making that session.
LEMMA SessionsLeft ==
  ASSUME IInv, NEW r \in Req, TypeOK', Others(r), Hands(r), handed \subseteq handed',
         UNCHANGED <<ssoSessions, sidIndex, authSessions, disturbed>>,
         \A s \in Sid : ~Ending(r, s)' /\ (Relying(r, s)' => Relying(r, s)) /\ ~Completing(r, s),
         FreshOf(r)', DeletionOf(r)',
         \A s \in Sid \ disturbed : outcome'[s] # outcome[s] =>
             /\ \A q \in Req \ {r} : kind[q] = "login" => sid[q] # s
             /\ outcome'[s] = "replaced" => s \in handed /\ ssoSessions[s] = "absent"
             /\ outcome'[s] = "ended" /\ s \in handed' => Ended(s)
             /\ outcome'[s] = "revoked" /\ s \in handed' => ssoSessions[s] = "absent"
  PROVE  SessionsInv'
<1>1. ASSUME NEW q \in Req \ {r}
      PROVE  /\ Keeps(q) /\ Victim(q)' = Victim(q)
             /\ \A s \in Sid : /\ Ending(q, s)' <=> Ending(q, s)
                               /\ Relying(q, s)' <=> Relying(q, s)
                               /\ Completing(q, s)' <=> Completing(q, s)
  <2>1. Keeps(q)
    BY DEF Others
  <2>2. Victim(q)' = Victim(q)
    BY <2>1 DEF Keeps, KeepsCall, Victim
  <2> QED
    BY <2>1, <2>2 DEF Keeps, KeepsCall, Ending, Relying, Completing
<1>2. \A s \in Sid : Ended(s) => Ended(s)'
  BY <1>1 DEF Ended
<1>3. ExclusionInv'
  <2> SUFFICES ASSUME NEW s \in Sid \ disturbed
               PROVE  /\ \A p, q \in Req : Ending(p, s)' => ~Relying(q, s)'
                      /\ s \in handed' /\ ssoSessions[s] = "absent" => \A q \in Req : ~Relying(q, s)'
    BY DEF ExclusionInv
  <2>1. \A p, q \in Req : Ending(p, s)' => ~Relying(q, s)'
    BY <1>1 DEF IInv, SessionsInv, ExclusionInv
  <2>2. s \in handed /\ ssoSessions[s] = "absent" => \A q \in Req : ~Relying(q, s)'
    BY <1>1 DEF IInv, SessionsInv, ExclusionInv
  <2>3. s \in handed' \ handed => \A q \in Req : ~Relying(q, s)'
    <3>1. s \in handed' \ handed => ~Relying(r, s)'
      BY DEF Hands, Relying
    <3> QED BY <1>1, <3>1, HandedOver
  <2> QED BY <2>1, <2>2, <2>3
<1>4. ASSUME NEW q \in Req \ {r} PROVE FreshOf(q)' /\ DeletionOf(q)'
  <2>1. FreshOf(q) /\ DeletionOf(q) /\ Keeps(q)
    BY <1>1 DEF IInv, SessionsInv
  <2>2. kind[q] = "login" => sid[q] \in Sid
    BY CallFacts DEF IInv
  <2>3. FreshOf(q)'
    BY <2>1, <2>2 DEF Keeps, KeepsCall, FreshOf
  <2>4. (Deletes(q)' => Deletes(q)) /\ (Missed(q)' => Missed(q))
    BY <2>1 DEF Keeps, Deletes, Missed
  <2>5. ASSUME Victim(q) \in handed' \ handed, Victim(q) \notin disturbed
        PROVE  ~Deletes(q) /\ ~Missed(q)
    <3>1. pc[q] \notin {"find", "kill", "notify", "load", "dropPrevious"}
      BY <2>5, HandedOver DEF Victim
    <3>2. "delIndex" \notin ops[q]
      BY <3>1, CommandFacts DEF IInv
    <3> QED BY <3>1, <3>2 DEF Deletes, Missed
  <2>6. Victim(q) \in handed => Victim(q) \in Sid
    BY DEF IInv, TypeOK
  <2> QED
    BY <1>1, <1>2, <2>1, <2>3, <2>4, <2>5, <2>6 DEF DeletionOf, Keeps
<1>5. ASSUME NEW s \in Sid \ disturbed PROVE EndedOf(s)'
  <2>1. CASE s \in handed' \ handed
    <3>1. s \in sidIndex /\ authSessions[s] # "revoked" /\ outcome[s] = "open"
      BY <2>1, HandedOver
    <3> QED BY <1>2, <2>1, <3>1 DEF EndedOf
  <2>2. CASE s \notin handed' \ handed
    BY <1>2, <2>2 DEF IInv, SessionsInv, EndedOf
  <2> QED BY <2>1, <2>2
<1>6. \A s \in Sid : EndedOf(s)'
  BY <1>5 DEF EndedOf
<1> QED
  BY <1>3, <1>4, <1>6 DEF SessionsInv

\* A login or an authorization that returns, and hands its session over if it made one.
LEMMA ReplyStep ==
  ASSUME IInv, NEW r \in Req, Return(r), ops[r] = {},
         kind[r] \in {"login", "authorize"}, pc[r] # "create",
         handed' \in {handed, handed \cup {sid[r]}},
         codes' \in [Code -> {"unissued", "reserved", "stored", "delivered", "used"}],
         \A k \in Code : Seen(k)' => Seen(k) \/ Recorded(k)', GrantsOnly,
         UNCHANGED <<ssoSessions, sidIndex, sidRefreshFamilies, family, dbVars, tenantSessions, scope>>,
         UNCHANGED <<disturbed, removed, cut, failed>>,
         outcome' \in [Sid -> {"open", "replaced", "ended", "revoked"}],
         \A s \in Sid : outcome'[s] # outcome[s] =>
             /\ outcome'[s] = "replaced" /\ s \in handed
             /\ s \notin disturbed => ssoSessions[s] = "absent"
  PROVE  IInv'
<1>1. CallsTyped' /\ Returned(r) /\ Others(r) /\ r \notin quiet' /\ quiet' \subseteq quiet
  BY ReturnMoves, TypeParts DEF IInv, Returned
<1>2. sid[r] \in Sid /\ RowOf(r)
  BY CallFacts DEF IInv, RowsInv, Grants
<1>3. TypeOK'
  <2>1. StoresTyped' /\ HistoryTyped'
    BY <1>1, <1>2 DEF IInv, TypeOK, StoresTyped, HistoryTyped
  <2> QED BY <1>1, <2>1, TypeParts
<1>4. Hands(r) /\ handed \subseteq handed'
  BY <1>1, <1>2 DEF Hands, RowOf, Returned, Grants
<1>5. Grows /\ ListedSame /\ ToldSame /\ QuietSame
  BY <1>4 DEF IInv, TypeOK, Grows, ListedSame, ToldSame, QuietSame
<1>6. NoneHandedBack
  BY <1>4, HandedOver DEF NoneHandedBack
<1>7. StartsLogin(r) /\ SelfOK(r)'
  BY <1>1, ReturnedSelf DEF Returned, StartsLogin
<1>8. RestInv'
  <2>1. \A s \in Sid : outcome'[s] # "open" => outcome[s] # "open" \/ authSessions[s] # "none"
    BY DEF IInv, RowsInv
  <2> QED
    BY <1>1, <1>3, <1>4, <1>5, <1>6, <1>7, <2>1, RestStep
<1>9. \A s \in Sid : ~Ending(r, s)' /\ ~Relying(r, s)' /\ ~Completing(r, s)
  BY <1>1 DEF Returned, Ending, Relying, Completing
<1>10. FreshOf(r)' /\ DeletionOf(r)'
  BY <1>1, <1>3 DEF Returned, FreshOf, DeletionOf, Deletes, Missed
<1>11. \A s \in handed : \A q \in Req : kind[q] = "login" => sid[q] # s
  BY DEF IInv, RowsInv, RowOf
<1>12. SessionsInv'
  BY <1>1, <1>3, <1>4, <1>9, <1>10, <1>11, SessionsLeft
<1> QED
  BY <1>8, <1>12 DEF IInv, RestInv

\* The access check refuses: after a login the session is handed over all the same.
LEMMA DeniedStep == ASSUME IInv, NEW r \in Req, Denied(r) PROVE IInv'
<1>1. /\ Return(r) /\ ops[r] = {} /\ pc[r] \in {"access", "load"} /\ kind[r] \in {"login", "authorize"}
      /\ code[r] \in Code /\ codes' = [codes EXCEPT ![code[r]] = "unissued"]
      /\ handed' \in {handed, handed \cup {sid[r]}}
      /\ UNCHANGED <<ssoSessions, sidIndex, sidRefreshFamilies, family, dbVars, tenantSessions, scope>>
      /\ UNCHANGED <<disturbed, outcome, removed, cut, failed>>
  BY CallFacts DEF IInv, Denied, AtAccess, Resumes, Working, Grants
<1>2. /\ codes' \in [Code -> {"unissued", "reserved", "stored", "delivered", "used"}]
      /\ \A k \in Code : codes'[k] \in {"stored", "delivered", "used"} => codes'[k] = codes[k]
      /\ outcome' \in [Sid -> {"open", "replaced", "ended", "revoked"}]
  BY <1>1 DEF IInv, TypeOK
<1>3. GrantsOnly
  <2>1. Returned(r)
    BY <1>1, ReturnMoves, TypeParts DEF IInv
  <2> QED BY <1>2, <2>1, NothingGranted DEF Returned
<1>4. \A k \in Code : Seen(k)' => Seen(k)
  BY <1>1, <1>2 DEF Seen
<1> QED
  BY <1>1, <1>2, <1>3, <1>4, ReplyStep

\* The code goes out, with the place recorded; after a login the session is handed over.
LEMMA CodeReplyStep == ASSUME IInv, NEW r \in Req, CodeReply(r) PROVE IInv'
<1>1. /\ Return(r) /\ ops[r] = {} /\ pc[r] = "touch" /\ kind[r] \in {"login", "authorize"}
      /\ code[r] \in Code /\ sid[r] = SidOf[code[r]]
      /\ codes' = [codes EXCEPT ![code[r]] = "delivered"]
      /\ handed' = handed \cup {sid[r]}
      /\ UNCHANGED <<ssoSessions, sidIndex, sidRefreshFamilies, family, dbVars, tenantSessions, scope>>
      /\ UNCHANGED <<disturbed, outcome, removed, cut, failed>>
  BY CallFacts DEF IInv, CodeReply, Resumes, Working, Grants
<1>2. /\ codes' \in [Code -> {"unissued", "reserved", "stored", "delivered", "used"}]
      /\ \A k \in Code : k # code[r] => codes'[k] = codes[k]
      /\ outcome' \in [Sid -> {"open", "replaced", "ended", "revoked"}]
  BY <1>1 DEF IInv, TypeOK
<1>3. Returned(r)
  BY <1>1, ReturnMoves, TypeParts DEF IInv
<1>4. GrantsOnly
  <2> SUFFICES ASSUME NEW m, Granting(m)' PROVE Granting(m)
    BY DEF GrantsOnly
  <2>1. CASE m = MemberOf(code[r])
    <3>1. code[r] # NoCode
      BY <1>1
    <3> QED BY <1>1, <2>1, <3>1 DEF Granting
  <2>2. CASE \E k \in Code \ {code[r]} : MemberOf(k) = m /\ codes[k] \in {"stored", "delivered"}
    BY <2>2 DEF Granting
  <2>3. CASE \E q \in Req \ {r} : /\ code[q] # NoCode /\ MemberOf(code[q]) = m /\ GrantsBy(q)
    BY <2>3 DEF Granting, GrantsBy
  <2> QED
    BY <1>2, <1>3, <2>1, <2>2, <2>3 DEF Granting, GrantsBy, Returned, Others, Keeps, KeepsCall, MemberOf
<1>5. \A k \in Code : Seen(k)' => Seen(k) \/ Recorded(k)'
  <2>1. PlaceOf[code[r]] \in sessionClients[sid[r]]
    BY <1>1 DEF IInv, RecordedInv, RecordedOf
  <2> QED BY <1>1, <1>2, <2>1 DEF Seen, Recorded
<1> QED
  BY <1>1, <1>2, <1>4, <1>5, ReplyStep

\* The cookie is written: the session it replaces is gone.
LEMMA FinishStep == ASSUME IInv, NEW r \in Req, Finish(r) PROVE IInv'
<1>1. /\ pc[r] = "dropPrevious" /\ ops[r] = {} /\ kind[r] = "login"
      /\ UNCHANGED <<ssoSessions, sidIndex, sidRefreshFamilies, codes, family, dbVars, tenantSessions,
                     scope>>
      /\ UNCHANGED <<disturbed, removed, cut, failed>>
  BY CallFacts DEF IInv, Finish, Resumes, Working
<1>2. CallOK(r) /\ RowOf(r) /\ QuietOf(r) /\ FreshOf(r) /\ DeletionOf(r)
  BY DEF IInv, CallsInv, RowsInv, QuietInv, SessionsInv
<1>3. /\ sid[r] \in Sid /\ sid[r] \notin handed /\ handed \subseteq Sid
      /\ other[r] \in handed \cup {NoSid} /\ code[r] \in Code \cup {NoCode}
  BY <1>1, <1>2, CallFacts DEF IInv, TypeOK, RowOf
<1>4. /\ outcome' \in [Sid -> {"open", "replaced", "ended", "revoked"}]
      /\ \A s \in Sid : outcome'[s] # outcome[s] =>
             outcome'[s] = "replaced" /\ s = other[r] /\ s \in handed
  BY <1>3 DEF IInv, TypeOK, Finish
<1>5. other[r] \in handed \ disturbed => ssoSessions[other[r]] = "absent"
  <2>1. Victim(r) = other[r] /\ Deletes(r)
    BY <1>1 DEF Victim, Deletes
  <2> QED BY <1>2, <2>1 DEF DeletionOf
<1>6. CASE code[r] = NoCode
  <2>1. Return(r) /\ handed' = handed \cup {sid[r]}
    BY <1>6 DEF Finish
  <2>2. GrantsOnly
    <3>1. Returned(r)
      BY <2>1, ReturnMoves, TypeParts DEF IInv
    <3> QED BY <1>1, <3>1, NothingGranted DEF Returned
  <2>3. /\ codes' \in [Code -> {"unissued", "reserved", "stored", "delivered", "used"}]
        /\ \A k \in Code : Seen(k)' => Seen(k)
    BY <1>1 DEF IInv, TypeOK, Seen
  <2> QED
    BY <1>1, <1>4, <1>5, <2>1, <2>2, <2>3, ReplyStep
<1>7. CASE code[r] # NoCode
  <2>1. Await(r, "access", {}) /\ UNCHANGED <<handed, quiet>>
    BY <1>7 DEF Finish
  <2>2. /\ CallsTyped' /\ Others(r) /\ KeepsCall(r) /\ KeepsWork(r)
        /\ pc'[r] = "access" /\ ops'[r] = {} /\ found'[r] = found[r]
    BY <2>1, AwaitMoves, TypeParts DEF IInv
  <2>3. TypeOK'
    <3>1. StoresTyped' /\ HistoryTyped'
      BY <1>1, <1>4, <2>1 DEF IInv, TypeOK, StoresTyped, HistoryTyped
    <3> QED BY <2>2, <3>1, TypeParts
  <2>4. NoWork(r)'
    BY <1>1, <1>2, <2>2 DEF CallOK, Work, NoWork, KeepsWork
  <2>5. CallOK(r)'
    BY <1>1, <1>2, <1>3, <1>7, <2>2, <2>4 DEF KeepsCall, NoWork, CallOK, AtPoint, Locals, Loads, Work,
                                               KindsAt, CommandsAt, Grants
  <2>6. RowOf(r)' /\ RecordedOf(r)' /\ ListedOf(r)' /\ ToldOf(r)' /\ SelectOf(r)' /\ QuietOf(r)'
    BY <1>1, <1>2, <2>1, <2>2, <2>4 DEF KeepsCall, NoWork, RowOf, RecordedOf, ListedOf, ToldOf,
                                        SelectOf, QuietOf, Grants
  <2>7. StartsLogin(r) /\ GrantsOnly
    <3>1. ~GrantsBy(r)'
      BY <1>1, <2>2 DEF KeepsCall, GrantsBy
    <3> QED BY <1>1, <2>2, <3>1, NothingGranted DEF KeepsCall, StartsLogin
  <2>8. RestInv' /\ Hands(r)
    <3>1. /\ Grows /\ Hands(r) /\ ListedSame /\ NoneHandedBack /\ ToldSame /\ QuietSame
          /\ \A k \in Code : Seen(k)' => Seen(k)
      BY <1>1, <1>4, <2>1 DEF IInv, TypeOK, Grows, Hands, ListedSame, NoneHandedBack, ToldSame, QuietSame,
                              Seen
    <3>2. \A s \in Sid : outcome'[s] # "open" => outcome[s] # "open" \/ authSessions[s] # "none"
      BY <1>4 DEF IInv, RowsInv
    <3> QED
      BY <1>1, <2>1, <2>2, <2>3, <2>5, <2>6, <2>7, <3>1, <3>2, RestStep DEF SelfOK, SelfCalm
  <2>9. \A s \in Sid : ~Ending(r, s)' /\ (Relying(r, s)' => Relying(r, s)) /\ ~Completing(r, s)
    BY <1>1, <2>2 DEF Ending, Relying, Completing, KeepsCall
  <2>10. FreshOf(r)' /\ DeletionOf(r)'
    BY <1>1, <1>2, <1>3, <1>4, <2>1, <2>2 DEF FreshOf, DeletionOf, Deletes, Missed, KeepsCall
  <2>11. \A s \in handed : \A q \in Req : kind[q] = "login" => sid[q] # s
    BY DEF IInv, RowsInv, RowOf
  <2>12. SessionsInv'
    BY <1>1, <1>4, <1>5, <2>1, <2>2, <2>3, <2>8, <2>9, <2>10, <2>11, SessionsLeft
  <2> QED BY <2>8, <2>12 DEF IInv, RestInv
<1> QED BY <1>6, <1>7

\* A revocation completes: the families are dead, the services told, the record gone.
LEMMA RevokedStep == ASSUME IInv, NEW r \in Req, Revoked(r) PROVE IInv'
<1>1. /\ pc[r] = "notify" /\ ops[r] = {} /\ notices[r] = {} /\ Return(r)
      /\ kind[r] \in {"logout", "portal"}
      /\ UNCHANGED <<redisVars, dbVars, outVars>> /\ UNCHANGED <<disturbed, removed, cut, failed>>
  BY CallFacts DEF IInv, Revoked, Resumes, Working, Notifying
<1>2. PICK s \in Sid : s = sid[r]
  BY <1>1, CallFacts DEF IInv
<1>3. /\ outcome' \in [Sid -> {"open", "replaced", "ended", "revoked"}]
      /\ \A x \in Sid : x # s => outcome'[x] = outcome[x]
      /\ outcome'[s] = IF found[r] \/ outcome[s] = "revoked" THEN "revoked" ELSE "ended"
  BY <1>2 DEF IInv, TypeOK, Revoked
<1>4. CallsTyped' /\ Returned(r) /\ Others(r) /\ r \notin quiet' /\ quiet' \subseteq quiet
  BY <1>1, ReturnMoves, TypeParts DEF IInv, Returned
<1>5. TypeOK'
  <2>1. StoresTyped' /\ HistoryTyped'
    BY <1>1, <1>3, <1>4 DEF IInv, TypeOK, StoresTyped, HistoryTyped
  <2> QED BY <1>4, <2>1, TypeParts
<1>6. RowOf(r) /\ ListedOf(r) /\ ToldOf(r) /\ DeletionOf(r)
  BY DEF IInv, RowsInv, ListedInv, ToldInv, SessionsInv
<1>7. /\ authSessions[s] # "none"
      /\ s \notin disturbed =>
             /\ found[r] => AllDead(s) /\ (s \in handed => ssoSessions[s] = "absent")
             /\ s \in handed => Ended(s)
             /\ \A k \in tenantSessions : SidOf[k] = s => <<ServiceOf(k), s>> \in failed
  <2>1. Victim(r) = s /\ Missed(r)
    BY <1>1, <1>2 DEF Victim, Missed
  <2>2. authSessions[s] # "none"
    BY <1>1, <1>2, <1>6 DEF RowOf
  <2>3. s \notin disturbed /\ found[r] =>
            AllDead(s) /\ (s \in handed => ssoSessions[s] = "absent")
    BY <1>1, <1>2, <1>6 DEF ListedOf
  <2>4. s \notin disturbed => (s \in handed => Ended(s))
    BY <1>1, <1>6, <2>1 DEF DeletionOf
  <2>5. s \notin disturbed => \A k \in tenantSessions : SidOf[k] = s => <<ServiceOf(k), s>> \in failed
    BY <1>1, <1>2, <1>6 DEF ToldOf
  <2> QED BY <2>2, <2>3, <2>4, <2>5
<1>8. StartsLogin(r) /\ SelfOK(r)' /\ Hands(r) /\ GrantsOnly
  BY <1>1, <1>4, ReturnedSelf, NothingGranted DEF Returned, StartsLogin, Hands
<1>9. ListedInv'
  <2>1. \A x \in Sid : AllDead(x)' <=> AllDead(x)
    BY <1>1 DEF AllDead
  <2>2. ASSUME NEW q \in Req \ {r} PROVE ListedOf(q)'
    <3>1. Keeps(q) /\ ListedOf(q)
      BY <1>4 DEF Others, IInv, ListedInv
    <3>2. pc[q] = "notify" => sid[q] \in Sid
      BY CallFacts DEF IInv
    <3> QED BY <1>1, <2>1, <3>1, <3>2 DEF ListedOf, Keeps, KeepsCall, KeepsWork
  <2>3. \A x \in Sid \ disturbed' : outcome'[x] = "revoked" => AllDead(x)'
    BY <1>1, <1>3, <1>7, <2>1 DEF IInv, ListedInv
  <2>4. \A k \in Code : SidOf[k] \notin disturbed' /\ family'[k] = "live" =>
                            k \in sidRefreshFamilies'[SidOf[k]]
    BY <1>1 DEF IInv, ListedInv
  <2> QED BY <1>8, <2>2, <2>3, <2>4 DEF ListedInv, SelfOK, SelfCalm
<1>10. ToldInv'
  <2>1. ASSUME NEW q \in Req \ {r} PROVE ToldOf(q)'
    BY <1>1, <1>4 DEF Others, Keeps, KeepsCall, KeepsWork, IInv, ToldInv, ToldOf, ServiceOf
  <2>2. \A x \in Sid \ disturbed' : \A k \in tenantSessions' :
           SidOf[k] = x /\ outcome'[x] \in {"ended", "revoked"} => <<ServiceOf(k), x>> \in failed'
    BY <1>1, <1>3, <1>7 DEF IInv, ToldInv, ServiceOf
  <2> QED BY <1>8, <2>1, <2>2 DEF ToldInv, SelfOK, SelfCalm, ServiceOf
<1>11. RestInv'
  <2>1. /\ Grows /\ QuietSame
        /\ \A k \in Code : Seen(k)' => Seen(k)
    BY <1>1 DEF IInv, TypeOK, Grows, QuietSame, Seen
  <2>2. CallsInv' /\ SelectInv'
    BY <1>4, <1>8, CallsKept, SelectKept DEF IInv, SelfOK, SelfCalm
  <2>3. RowsInv'
    BY <1>3, <1>4, <1>5, <1>7, <1>8, <2>1, RowsKept DEF IInv, SelfOK, SelfCalm
  <2>4. RecordedInv'
    BY <1>1, <1>4, <1>5, <1>8, <2>1, RecordedKept DEF IInv, SelfOK, SelfCalm
  <2>5. QuietInv' /\ QuietRemovalCuts'
    BY <1>1, <1>4, <1>8, <2>1, QuietKept DEF IInv, SelfOK
  <2> QED
    BY <1>5, <1>9, <1>10, <2>2, <2>3, <2>4, <2>5 DEF RestInv
<1>12. \A x \in Sid : ~Ending(r, x)' /\ ~Relying(r, x)' /\ ~Completing(r, x)
  BY <1>1, <1>4 DEF Returned, Ending, Relying, Completing
<1>13. FreshOf(r)' /\ DeletionOf(r)'
  BY <1>4, <1>5 DEF Returned, FreshOf, DeletionOf, Deletes, Missed
<1>14. s \notin disturbed => \A q \in Req : kind[q] = "login" => sid[q] # s
  <2>1. Ending(r, s)
    BY <1>1, <1>2 DEF Ending
  <2> QED BY <2>1 DEF IInv, SessionsInv, ExclusionInv, Relying
<1>15. SessionsInv'
  BY <1>1, <1>3, <1>4, <1>5, <1>7, <1>8, <1>12, <1>13, <1>14, SessionsLeft
<1> QED
  BY <1>11, <1>15 DEF IInv, RestInv

-----------------------------------------------------------------------------
(* Steps without a request *)

\* The idle limit passes: nothing that is gone comes back, and no row changes its meaning.
LEMMA IdleOutStep == ASSUME IInv, NEW s \in Sid, IdleOut(s) PROVE IInv'
<1>1. /\ ssoSessions' \in [Sid -> {"absent", "live", "idle"}]
      /\ authSessions' \in [Sid -> {"none", "active", "stale", "revoked"}]
      /\ \A x \in Sid : /\ ssoSessions'[x] = "absent" <=> ssoSessions[x] = "absent"
                        /\ authSessions'[x] = "none" <=> authSessions[x] = "none"
                        /\ authSessions'[x] = "revoked" <=> authSessions[x] = "revoked"
      /\ UNCHANGED <<sidIndex, sidRefreshFamilies, codes, family, sessionClients, serviceMembers>>
      /\ UNCHANGED <<outVars, pc, callVars, found, workVars>> /\ UNCHANGED ghostVars
  BY DEF IInv, TypeOK, IdleOut
<1>2. TypeOK'
  BY <1>1 DEF IInv, TypeOK
<1>3. CallsInv' /\ RecordedInv'
  BY <1>1 DEF IInv, CallsInv, CallOK, AtPoint, Locals, Loads, Work, RecordedInv, RecordedOf, Recorded,
              Seen
<1>4. RowsInv'
  <2>1. \A x \in handed' : authSessions'[x] # "none"
    BY <1>1 DEF IInv, TypeOK, RowsInv
  <2>2. ASSUME NEW r \in Req PROVE RowOf(r)'
    <3>1. RowOf(r)
      BY DEF IInv, RowsInv
    <3> QED BY <1>1, <3>1, CallFacts DEF IInv, RowOf
  <2> QED BY <1>1, <2>1, <2>2 DEF IInv, RowsInv
<1>5. SessionsInv'
  <2>1. \A x \in Sid : Ended(x) => Ended(x)'
    BY <1>1 DEF Ended, Completing, Victim
  <2>2. ExclusionInv'
    BY <1>1 DEF IInv, SessionsInv, ExclusionInv, Ending, Relying
  <2>3. ASSUME NEW r \in Req PROVE FreshOf(r)' /\ DeletionOf(r)'
    <3>1. FreshOf(r) /\ DeletionOf(r)
      BY DEF IInv, SessionsInv
    <3>2. (kind[r] = "login" => sid[r] \in Sid) /\ handed \subseteq Sid
      BY CallFacts DEF IInv, TypeOK
    <3>3. FreshOf(r)'
      BY <1>1, <3>1, <3>2 DEF FreshOf
    <3>4. Victim(r)' = Victim(r) /\ (Deletes(r)' <=> Deletes(r)) /\ (Missed(r)' <=> Missed(r))
      BY <1>1 DEF Victim, Deletes, Missed
    <3>5. DeletionOf(r)'
      BY <1>1, <2>1, <3>1, <3>2, <3>4 DEF DeletionOf
    <3> QED BY <3>3, <3>5
  <2>4. \A x \in Sid : EndedOf(x)'
    BY <1>1, <2>1 DEF IInv, SessionsInv, EndedOf
  <2> QED BY <2>2, <2>3, <2>4 DEF SessionsInv
<1>6. ListedInv'
  <2>1. ASSUME NEW r \in Req PROVE ListedOf(r)'
    <3>1. ListedOf(r)
      BY DEF IInv, ListedInv
    <3>2. kind[r] = "refresh" \/ pc[r] = "notify" => sid[r] \in Sid
      BY CallFacts DEF IInv, Grants
    <3> QED BY <1>1, <3>1, <3>2 DEF ListedOf, AllDead
  <2> QED BY <1>1, <2>1 DEF IInv, ListedInv, AllDead
<1>7. ToldInv' /\ SelectInv'
  BY <1>1 DEF IInv, ToldInv, ToldOf, SelectInv, SelectOf, ServiceOf, MemberOf
<1>8. QuietInv' /\ QuietRemovalCuts'
  BY <1>1 DEF IInv, QuietInv, QuietOf, Granting, QuietRemovalCuts, MemberOf, ServiceOf
<1> QED
  BY <1>2, <1>3, <1>4, <1>5, <1>6, <1>7, <1>8 DEF IInv

LEMMA StutterStep == ASSUME IInv, UNCHANGED vars PROVE IInv'
<1>1. TypeOK' /\ CallsInv' /\ RowsInv' /\ RecordedInv'
  BY DEF vars, IInv, TypeOK, CallsInv, CallOK, AtPoint, Locals, Loads, Work, RowsInv, RowOf,
         RecordedInv, RecordedOf, Recorded, Seen
<1>2. SessionsInv'
  BY DEF vars, IInv, SessionsInv, ExclusionInv, Ending, Relying, FreshOf, DeletionOf, Deletes,
         Missed, Victim, EndedOf, Ended, Completing
<1>3. ListedInv' /\ ToldInv' /\ SelectInv'
  BY DEF vars, IInv, ListedInv, ListedOf, AllDead, ToldInv, ToldOf, SelectInv, SelectOf,
         ServiceOf, MemberOf
<1>4. QuietInv' /\ QuietRemovalCuts'
  BY DEF vars, IInv, QuietInv, QuietOf, Granting, QuietRemovalCuts, MemberOf, ServiceOf
<1> QED
  BY <1>1, <1>2, <1>3, <1>4 DEF IInv

-----------------------------------------------------------------------------
(* The specification *)

\* Nobody is at work, nothing exists: the invariant holds at the start.
LEMMA InitIInv == Init => IInv
<1> SUFFICES ASSUME Init PROVE IInv
  OBVIOUS
<1> USE DEF Init
<1>1. TypeOK
  BY DEF TypeOK
<1>2. CallsInv
  BY DEF CallsInv, CallOK, AtPoint, Locals, Loads, Work, KindsAt, CommandsAt, Grants
<1>3. RowsInv /\ RecordedInv
  BY DEF RowsInv, RowOf, RecordedInv, RecordedOf, Recorded, Seen, Grants
<1>4. SessionsInv
  BY DEF SessionsInv, ExclusionInv, Ending, Relying, FreshOf, DeletionOf, Victim, EndedOf, Grants
<1>5. ListedInv /\ ToldInv /\ SelectInv
  BY DEF ListedInv, ListedOf, AllDead, ToldInv, ToldOf, SelectInv, SelectOf
<1>6. QuietInv /\ QuietRemovalCuts
  BY DEF QuietInv, QuietOf, QuietRemovalCuts
<1> QED
  BY <1>1, <1>2, <1>3, <1>4, <1>5, <1>6 DEF IInv

LEMMA CommandPreserves == ASSUME IInv, NEW r \in Req, Command(r) PROVE IInv'
<1>1. CASE \/ SetSession(r) \/ SetIndex(r) \/ CreateRow(r) \/ TouchRow(r) \/ RecordClient(r)
           \/ MarkRevoked(r) \/ DeleteSession(r) \/ DeleteIndex(r)
  BY <1>1, SetSessionStep, SetIndexStep, CreateRowStep, TouchRowStep, RecordClientStep,
     MarkRevokedStep, DeleteSessionStep, DeleteIndexStep
<1>2. CASE GetSession(r) \/ GetIndex(r) \/ GetClients(r) \/ AddFamily(r) \/ AddSid(r)
  BY <1>2, GetSessionStep, GetIndexStep, GetClientsStep, AddFamilyStep, AddSidStep
<1>3. CASE \E k \in Code : ReadFamily(r, k) \/ RevokeFamily(r, k)
  BY <1>3, ReadFamilyStep, RevokeFamilyStep
<1>4. CASE \E s \in Sid : ListMatching(r, s) \/ \E c \in Client : NoticeLost(r, c, s)
  BY <1>4, ListMatchingStep, NoticeStep
<1> QED
  BY <1>1, <1>2, <1>3, <1>4 DEF Command

LEMMA ResumePreserves == ASSUME IInv, NEW r \in Req, Resume(r) PROVE IInv'
<1>1. CASE \/ Previous(r) \/ Finish(r) \/ Unauthenticated(r) \/ Allowed(r) \/ Denied(r)
           \/ CodeSet(r) \/ CodeReply(r)
  BY <1>1, PreviousStep, FinishStep, UnauthenticatedStep, AllowedStep, DeniedStep, CodeSetStep,
     CodeReplyStep
<1>2. CASE \/ ExchangeRefused(r) \/ RefreshRefused(r) \/ Store(r) \/ TokenReply(r)
           \/ RevokeSessionBySid(r) \/ NoSessionToRevoke(r) \/ NotFound(r) \/ ListFamilies(r)
  BY <1>2, RefusedStep, RefreshRefusedStep, StoreStep, TokenReplyStep, RevokeSessionBySidStep,
     NotFoundStep, ListFamiliesStep
<1>3. CASE Killed(r) \/ Revoked(r) \/ RevokeClientAccess(r) \/ AccessCut(r)
  BY <1>3, KilledStep, RevokedStep, RevokeClientAccessStep, AccessCutStep
<1> QED
  BY <1>1, <1>2, <1>3 DEF Resume

LEMMA ArrivePreserves == ASSUME IInv, NEW r \in Req, Arrive(r) PROVE IInv'
<1>1. scope.sids \subseteq Sid /\ scope.codes \subseteq Code
  BY ConstantsAssumption DEF IInv, TypeOK
<1>2. CASE \E s \in scope.sids, o \in scope.sids \cup {NoSid}, k \in scope.codes \cup {NoCode} :
               Login(r, s, o, k)
  BY <1>1, <1>2, LoginStep
<1>3. CASE \E k \in scope.codes : Authorize(r, k) \/ Exchange(r, k) \/ Refresh(r, k)
  BY <1>1, <1>3, AuthorizeStep, ExchangeStep, RefreshStep
<1>4. CASE \E s \in scope.sids : Logout(r, s) \/ \E o \in scope.sids : PortalRevoke(r, o, s)
  BY <1>1, <1>4, LogoutStep, PortalRevokeStep
<1>5. CASE \E u \in User, p \in Place : RemoveServiceMember(r, u, p)
  BY <1>5, RemoveServiceMemberStep
<1> QED
  BY <1>2, <1>3, <1>4, <1>5 DEF Arrive

LEMMA NextIInv == IInv /\ [Next]_vars => IInv'
<1> SUFFICES ASSUME IInv, [Next]_vars PROVE IInv'
  OBVIOUS
<1>1. CASE \E r \in Req : Step(r) \/ Arrive(r)
  BY <1>1, CommandPreserves, ResumePreserves, ArrivePreserves DEF Step
<1>2. CASE Environment
  BY <1>2, NoticeStep, InviteServiceMemberStep, IdleOutStep, AbortStep DEF Environment
<1>3. CASE UNCHANGED vars
  BY <1>3, StutterStep
<1> QED
  BY <1>1, <1>2, <1>3 DEF Next

\* The invariant is inductive, for any number of requests, sessions, services and codes and
\* whatever may happen in a behaviour, sessions that idle out and requests that break off
\* between any two of their commands included.
THEOREM Invariance == Spec => []IInv
<1>1. Init => IInv
  BY InitIInv
<1>2. IInv /\ [Next]_vars => IInv'
  BY NextIInv
<1> QED
  BY <1>1, <1>2, PTL DEF Spec

\* Every variable of SsoSessions keeps its type.
THEOREM TypeCorrect == Spec => []TypeOK
<1>1. IInv => TypeOK
  BY DEF IInv
<1> QED
  BY <1>1, Invariance, PTL

\* A session whose row says revoked cannot be used any more, or its record is just being
\* deleted, unless somebody relied on it while it was being ended (markRevoked comes after
\* destroySsoSession, global-logout.ts:42-79).
THEOREM RevokedRowIsTrue == Spec => []RevokedRowMeansGone
<1>1. IInv => RevokedRowMeansGone
  <2> SUFFICES ASSUME IInv, NEW s \in handed \ disturbed, authSessions[s] = "revoked",
                      ssoSessions[s] = "live"
               PROVE  Deleting(s)
    BY DEF RevokedRowMeansGone
  <2>1. Ended(s)
    BY DEF IInv, TypeOK, SessionsInv, EndedOf
  <2> QED
    BY <2>1 DEF Ended, Completing, Deleting
<1> QED
  BY <1>1, Invariance, PTL

\* After a login the session it replaces opens nothing (routes/login.ts:94-96).
THEOREM ReplacementIsComplete == Spec => []ReplacedSessionIsGone
<1>1. IInv => ReplacedSessionIsGone
  BY DEF IInv, SessionsInv, EndedOf, ReplacedSessionIsGone
<1> QED
  BY <1>1, Invariance, PTL

\* After a global logout that no request overlapped every family of the session is dead, and
\* each service has lost its sessions unless its logout token failed (revokeSessionBySid,
\* global-logout.ts:42-79).
THEOREM LogoutReachesEverything == Spec => []QuietLogoutIsFinal
<1>1. IInv => QuietLogoutIsFinal
  BY DEF IInv, ListedInv, AllDead, ToldInv, QuietLogoutIsFinal
<1> QED
  BY <1>1, Invariance, PTL

\* After the removal of a member that met no grant in progress the member has no live token
\* and no service session there (revokeServiceMember, service-members.ts:61-81).
THEOREM RemovalReachesEverything == Spec => []QuietRemovalCuts
<1>1. IInv => QuietRemovalCuts
  BY DEF IInv
<1> QED
  BY <1>1, Invariance, PTL

\* A removal kills no family but the member's in that service and tenant (the filter of
\* revokeClientAccess, global-logout.ts:108-112).
THEOREM RemovalKillsNothingElse == Spec => RemovalIsSelective
<1>1. IInv => \A r \in Req : \A k \in Code :
                  kind[r] = "remove" /\ k \in seen[r] => MemberOf(k) = member[r]
  BY DEF IInv, SelectInv, SelectOf
<1>2. IInv => [\A r \in Req : \A k \in Code :
                   kind[r] = "remove" /\ RevokeFamily(r, k) => MemberOf(k) = member[r]]_vars
  BY <1>1 DEF RevokeFamily
<1> QED
  BY <1>2, Invariance, PTL DEF RemovalIsSelective

=============================================================================
