---------------------------- MODULE SsoSessions ----------------------------
(***************************************************************************)
(* SSO sessions of the authorization server and everything that ends them: *)
(* login, /authorize, the session checks of the token endpoint, global     *)
(* logout, revocation from the portal, and the removal of a member from a  *)
(* service (sso-session.ts, authorize.ts, global-logout.ts and             *)
(* service-members.ts of apps/auth-api/src/application/usecases).          *)
(*                                                                         *)
(* Requests run in several processes over one Redis and one identity       *)
(* database.  A request at a Promise.all has a set of outstanding commands *)
(* (ops, listing, families, seen, notices); each command is one action,    *)
(* and the actions of Resume run the code after the await.  A session      *)
(* record, its cookie and its sid are drawn together, so one name stands   *)
(* for the three.  A refresh-token family is named by the code it comes    *)
(* from and kept as coarsely as module TokenFamily keeps it: its token is  *)
(* active from "stored" on, in the family's set from "listed" on, and in   *)
(* the service's hands when "live".                                        *)
(*                                                                         *)
(* The absolute lifetime of a session is the TTL of its keys; behaviours   *)
(* are followed up to it.  The idle limit is checked on every load.        *)
(***************************************************************************)
EXTENDS Naturals, FiniteSets

CONSTANTS
    Req,        \* slots for requests running at the same time
    Sid,        \* SSO sessions that may be created
    User,
    Client,     \* services
    Place,      \* a service in a tenant
    Code,       \* authorization codes that may be issued
    UserOf,     \* the user a session is created for
    ClientOf,   \* the service of a place
    PlaceOf,    \* the place a code is issued for
    SidOf,      \* the session a code is issued from
    Scopes,     \* what may happen in a behaviour: the kinds of request that arrive,
                \* the sessions and codes they are about, and whether sessions
                \* idle out and requests break off
    NoSid, NoCode, NoMember

ASSUME ConstantsAssumption ==
    /\ UserOf \in [Sid -> User]
    /\ ClientOf \in [Place -> Client]
    /\ PlaceOf \in [Code -> Place]
    /\ SidOf \in [Code -> Sid]
    /\ \A x \in Scopes :
          /\ x.arrivals \subseteq {"login", "authorize", "exchange", "refresh", "logout", "portal", "remove"}
          /\ x.faults \subseteq {"idle", "abort"}
          /\ x.sids \subseteq Sid /\ x.codes \subseteq Code
    /\ NoSid \notin Sid /\ NoCode \notin Code
    /\ NoMember \notin User \X Place

VARIABLES
    ssoSessions,         \* Redis: the session record and whether it is past the idle limit
    sidIndex,            \* Redis: the sids that lead to their record
    sidRefreshFamilies,  \* Redis: sid -> families listed under it
    codes,               \* Redis: authorization codes
    family,              \* Redis: state of the family a code was exchanged for
    authSessions,        \* identity.auth_sessions: one row per sid
    sessionClients,      \* identity.auth_session_clients: sid -> places recorded
    serviceMembers,      \* identity.tenant_service_members: <<user, place>>
    tenantSessions,      \* the services' own sessions, by the code they came from
    handed,              \* sessions whose cookie reached the browser
    scope,               \* what may happen in this behaviour
    pc, kind,            \* where each request is and what it serves
    sid,                 \* its locals: the session it works on,
    other,               \*   the cookie it came with (login) or its target (portal),
    code,                \*   the code or family it works on,
    member,              \*   the membership it removes,
    found,               \*   whether the session was loaded,
    ops,                 \*   outstanding commands of its Promise.all,
    listing,             \*   sessions whose families are still to be listed,
    families,            \*   families still to be read for revocation,
    seen,                \*   families read, their tokens still to be set,
    notices,             \*   <<client, sid>> logout tokens to send, not yet answered
    disturbed,           \* history: sessions whose deletion was overlapped or cut short
    outcome,             \* history: how far a completed request ended a session
    quiet,               \* history: removals no grant overlapped so far
    removed,             \* history: memberships whose removal completed
    cut,                 \* history: those of them whose removal was quiet
    failed               \* history: logout tokens that did not get through

redisVars == <<ssoSessions, sidIndex, sidRefreshFamilies, codes, family>>
dbVars    == <<authSessions, sessionClients, serviceMembers>>
outVars   == <<tenantSessions, handed, scope>>
callVars  == <<kind, sid, other, code, member>>
workVars  == <<ops, listing, families, seen, notices>>
ghostVars == <<disturbed, outcome, quiet, removed, cut, failed>>
vars == <<redisVars, dbVars, outVars, pc, callVars, found, workVars, ghostVars>>

Kinds  == {"none", "login", "authorize", "exchange", "refresh", "logout", "portal", "remove"}
Points == {"idle", "create", "dropPrevious", "load", "access", "codeSet", "touch",
           "store", "index", "find", "kill", "notify", "affected", "cutAccess"}
Commands == {"setSession", "setIndex", "createRow", "touchRow", "recordClient",
             "getSession", "getIndex", "getClients", "delSession", "delIndex",
             "addFamily", "addSid", "markRevoked"}

TypeOK ==
    /\ ssoSessions \in [Sid -> {"absent", "live", "idle"}]
    /\ sidIndex \subseteq Sid
    /\ sidRefreshFamilies \in [Sid -> SUBSET Code]
    /\ codes \in [Code -> {"unissued", "reserved", "stored", "delivered", "used"}]
    /\ family \in [Code -> {"none", "stored", "listed", "live", "spent", "dead"}]
    /\ authSessions \in [Sid -> {"none", "active", "stale", "revoked"}]
    /\ sessionClients \in [Sid -> SUBSET Place]
    /\ serviceMembers \subseteq User \X Place
    /\ tenantSessions \subseteq Code /\ handed \subseteq Sid /\ scope \in Scopes
    /\ pc \in [Req -> Points] /\ kind \in [Req -> Kinds]
    /\ sid \in [Req -> Sid \cup {NoSid}] /\ other \in [Req -> Sid \cup {NoSid}]
    /\ code \in [Req -> Code \cup {NoCode}]
    /\ member \in [Req -> (User \X Place) \cup {NoMember}]
    /\ found \in [Req -> BOOLEAN] /\ ops \in [Req -> SUBSET Commands]
    /\ listing \in [Req -> SUBSET Sid]
    /\ families \in [Req -> SUBSET Code] /\ seen \in [Req -> SUBSET Code]
    /\ notices \in [Req -> SUBSET (Client \X Sid)]
    /\ disturbed \subseteq Sid
    /\ outcome \in [Sid -> {"open", "replaced", "ended", "revoked"}]
    /\ quiet \subseteq Req /\ cut \subseteq removed
    /\ removed \subseteq User \X Place
    /\ failed \subseteq Client \X Sid

Init ==
    /\ ssoSessions = [s \in Sid |-> "absent"] /\ sidIndex = {}
    /\ sidRefreshFamilies = [s \in Sid |-> {}]
    /\ codes = [k \in Code |-> "unissued"] /\ family = [k \in Code |-> "none"]
    /\ authSessions = [s \in Sid |-> "none"] /\ sessionClients = [s \in Sid |-> {}]
    /\ serviceMembers = User \X Place
    /\ tenantSessions = {} /\ handed = {} /\ scope \in Scopes
    /\ pc = [r \in Req |-> "idle"] /\ kind = [r \in Req |-> "none"]
    /\ sid = [r \in Req |-> NoSid] /\ other = [r \in Req |-> NoSid]
    /\ code = [r \in Req |-> NoCode] /\ member = [r \in Req |-> NoMember]
    /\ found = [r \in Req |-> FALSE] /\ ops = [r \in Req |-> {}]
    /\ listing = [r \in Req |-> {}] /\ families = [r \in Req |-> {}]
    /\ seen = [r \in Req |-> {}] /\ notices = [r \in Req |-> {}]
    /\ disturbed = {} /\ outcome = [s \in Sid |-> "open"]
    /\ quiet = {} /\ removed = {} /\ cut = {} /\ failed = {}

MemberOf(k)  == <<UserOf[SidOf[k]], PlaceOf[k]>>
ServiceOf(k) == ClientOf[PlaceOf[k]]

\* The session a request deletes: at a login the one of the cookie it came with.
Victim(r) == IF pc[r] = "dropPrevious" THEN other[r] ELSE sid[r]

\* r is taking session s away: it revokes it, replaces it, or found it too idle.
Ending(r, s) ==
    \/ pc[r] \in {"find", "kill", "notify"} /\ sid[r] = s
    \/ pc[r] = "dropPrevious" /\ other[r] = s
    \/ pc[r] = "load" /\ "delSession" \in ops[r] /\ sid[r] = s

\* r has read (or is creating) the record of s and may yet write or grant by it.
Relying(r, s) ==
    /\ sid[r] = s
    /\ \/ kind[r] = "login"
       \/ kind[r] \in {"authorize", "exchange", "refresh"} /\ found[r]

\* Ending s and relying on it at once is what disturbs the end of s.
Disturbed(r, s) ==
    disturbed' = disturbed \cup
        (IF \E q \in Req \ {r} : Relying(q, s) THEN {s} ELSE {})

-----------------------------------------------------------------------------
(* Control flow of one request *)

Notifying(r) == pc[r] \in {"notify", "cutAccess"}
Working(r) == \/ ops[r] # {} \/ listing[r] # {} \/ families[r] # {} \/ seen[r] # {}
              \/ Notifying(r) /\ notices[r] # {}

\* r is at this point and everything it awaited has come back.
Resumes(r, point) == pc[r] = point /\ ~Working(r)

Goto(r, point, cmds) ==
    /\ pc' = [pc EXCEPT ![r] = point]
    /\ ops' = [ops EXCEPT ![r] = cmds]

Return(r) ==
    /\ Goto(r, "idle", {})
    /\ kind' = [kind EXCEPT ![r] = "none"]
    /\ sid' = [sid EXCEPT ![r] = NoSid] /\ other' = [other EXCEPT ![r] = NoSid]
    /\ code' = [code EXCEPT ![r] = NoCode] /\ member' = [member EXCEPT ![r] = NoMember]
    /\ found' = [found EXCEPT ![r] = FALSE]
    /\ listing' = [listing EXCEPT ![r] = {}] /\ families' = [families EXCEPT ![r] = {}]
    /\ seen' = [seen EXCEPT ![r] = {}] /\ notices' = [notices EXCEPT ![r] = {}]
    /\ quiet' = quiet \ {r}

\* A request arrives in slot r.
Call(r, knd, point, cmds, s, o, k) ==
    /\ pc[r] = "idle"
    /\ Goto(r, point, cmds)
    /\ kind' = [kind EXCEPT ![r] = knd]
    /\ sid' = [sid EXCEPT ![r] = s] /\ other' = [other EXCEPT ![r] = o]
    /\ code' = [code EXCEPT ![r] = k]
    /\ UNCHANGED <<member, found, listing, families, seen, notices>>

\* r issues its next commands and changes nothing else of its own.
Await(r, point, cmds) ==
    /\ Goto(r, point, cmds)
    /\ UNCHANGED <<callVars, found, listing, families, seen, notices>>

Done(r, cmd) ==
    /\ cmd \in ops[r]
    /\ ops' = [ops EXCEPT ![r] = @ \ {cmd}]
    /\ UNCHANGED <<pc, callVars, listing, families, seen, notices>>

-----------------------------------------------------------------------------
(* Commands on the session record, its index and its row *)

\* The record is written whole, by createSsoSession and by touchSsoSession.
SetSession(r) ==
    /\ Done(r, "setSession")
    /\ ssoSessions' = [ssoSessions EXCEPT ![sid[r]] = "live"]
    /\ UNCHANGED <<sidIndex, sidRefreshFamilies, codes, family, dbVars, outVars, found, ghostVars>>

SetIndex(r) ==
    /\ Done(r, "setIndex")
    /\ sidIndex' = sidIndex \cup {sid[r]}
    /\ UNCHANGED <<ssoSessions, sidRefreshFamilies, codes, family, dbVars, outVars, found, ghostVars>>

CreateRow(r) ==
    /\ Done(r, "createRow")
    /\ authSessions' = [authSessions EXCEPT ![sid[r]] = "active"]
    /\ UNCHANGED <<redisVars, sessionClients, serviceMembers, outVars, found, ghostVars>>

\* last_seen_at moves; revoked_at is not touched.
TouchRow(r) ==
    /\ Done(r, "touchRow")
    /\ authSessions' = [authSessions EXCEPT ![sid[r]] = IF @ = "stale" THEN "active" ELSE @]
    /\ UNCHANGED <<redisVars, sessionClients, serviceMembers, outVars, found, ghostVars>>

\* Broken variant: the service is recorded without its tenant.
RecordClientOnly(r) ==
    /\ Done(r, "recordClient")
    /\ sessionClients' = [sessionClients EXCEPT ![sid[r]] = @ \cup {ServiceOf(code[r])}]
    /\ UNCHANGED <<redisVars, authSessions, serviceMembers, outVars, found, ghostVars>>

RecordClient(r) ==
    /\ Done(r, "recordClient")
    /\ sessionClients' = [sessionClients EXCEPT ![sid[r]] = @ \cup {PlaceOf[code[r]]}]
    /\ UNCHANGED <<redisVars, authSessions, serviceMembers, outVars, found, ghostVars>>

MarkRevoked(r) ==
    /\ Done(r, "markRevoked")
    /\ authSessions' = [authSessions EXCEPT ![sid[r]] =
                            IF @ \in {"active", "stale"} THEN "revoked" ELSE @]
    /\ UNCHANGED <<redisVars, sessionClients, serviceMembers, outVars, found, ghostVars>>

DeleteSession(r) ==
    /\ Done(r, "delSession")
    /\ ssoSessions' = [ssoSessions EXCEPT ![Victim(r)] = "absent"]
    /\ UNCHANGED <<sidIndex, sidRefreshFamilies, codes, family, dbVars, outVars, found, ghostVars>>

DeleteIndex(r) ==
    /\ Done(r, "delIndex")
    /\ sidIndex' = sidIndex \ {Victim(r)}
    /\ UNCHANGED <<ssoSessions, sidRefreshFamilies, codes, family, dbVars, outVars, found, ghostVars>>

\* loadSsoSessionByKey: an idle session is destroyed and counts as missing.
GetSession(r) ==
    LET s == sid[r] IN
    /\ "getSession" \in ops[r]
    /\ found' = [found EXCEPT ![r] = ssoSessions[s] = "live"]
    /\ ops' = [ops EXCEPT ![r] = (@ \ {"getSession"}) \cup
                   (IF ssoSessions[s] = "idle" THEN {"delSession", "delIndex"} ELSE {})]
    /\ disturbed' = disturbed \cup
           (IF \/ ssoSessions[s] = "live" /\ \E q \in Req \ {r} : Ending(q, s)
                  /\ kind[r] \in {"authorize", "exchange", "refresh"}
               \/ ssoSessions[s] = "idle" /\ \E q \in Req \ {r} : Relying(q, s)
            THEN {s} ELSE {})
    /\ UNCHANGED <<redisVars, dbVars, outVars, pc, callVars, listing, families, seen, notices,
                   outcome, quiet, removed, cut, failed>>

\* findSsoSessionBySid
GetIndex(r) ==
    /\ "getIndex" \in ops[r]
    /\ ops' = [ops EXCEPT ![r] = (@ \ {"getIndex"}) \cup
                   (IF sid[r] \in sidIndex THEN {"getSession"} ELSE {})]
    /\ UNCHANGED <<redisVars, dbVars, outVars, pc, callVars, found, listing, families, seen,
                   notices, ghostVars>>

\* findWithClients: whom the end of the session will be reported to.
GetClients(r) ==
    /\ "getClients" \in ops[r]
    /\ ops' = [ops EXCEPT ![r] = @ \ {"getClients"}]
    /\ notices' = [notices EXCEPT ![r] =
                       IF authSessions[sid[r]] = "none" THEN {}
                       ELSE {ClientOf[p] : p \in sessionClients[sid[r]]} \X {sid[r]}]
    /\ UNCHANGED <<redisVars, dbVars, outVars, pc, callVars, found, listing, families, seen,
                   ghostVars>>

-----------------------------------------------------------------------------
(* Login, from the point where MFA is passed: createSsoSession, then finish *)

\* o is the SSO cookie the browser came with, k the authorization it waits for.
Login(r, s, o, k) ==
    /\ authSessions[s] = "none" /\ ssoSessions[s] = "absent" /\ s \notin sidIndex
    /\ \A q \in Req : sid[q] # s
    /\ o \in handed \cup {NoSid}
    /\ k # NoCode => codes[k] = "unissued" /\ SidOf[k] = s
    /\ codes' = IF k = NoCode THEN codes ELSE [codes EXCEPT ![k] = "reserved"]
    /\ Call(r, "login", "create", {"setSession", "setIndex", "createRow"}, s, o, k)
    /\ UNCHANGED <<ssoSessions, sidIndex, sidRefreshFamilies, family, dbVars, outVars, ghostVars>>

\* Broken variant: the cookie is overwritten and the previous session forgotten.
PreviousKept(r) ==
    /\ Resumes(r, "create")
    /\ Await(r, "dropPrevious", {})
    /\ UNCHANGED <<redisVars, dbVars, outVars, ghostVars>>

\* The previous session is loaded and destroyed; an idle one is destroyed by the
\* load itself.
Previous(r) ==
    LET o == other[r]
        there == o # NoSid /\ ssoSessions[o] # "absent" IN
    /\ Resumes(r, "create")
    /\ Await(r, "dropPrevious", IF there THEN {"delSession", "delIndex"} ELSE {})
    /\ IF there THEN Disturbed(r, o) ELSE UNCHANGED disturbed
    /\ UNCHANGED <<redisVars, dbVars, outVars, outcome, quiet, removed, cut, failed>>

\* The cookie is written and the pending authorization, if any, resumed.
Finish(r) ==
    LET o == other[r] IN
    /\ Resumes(r, "dropPrevious")
    /\ outcome' = IF o = NoSid THEN outcome
                  ELSE [outcome EXCEPT ![o] = IF @ = "open" THEN "replaced" ELSE @]
    /\ IF code[r] = NoCode
       THEN Return(r) /\ handed' = handed \cup {sid[r]}
       ELSE Await(r, "access", {}) /\ UNCHANGED <<handed, quiet>>
    /\ UNCHANGED <<redisVars, dbVars, tenantSessions, scope, disturbed, removed, cut, failed>>

-----------------------------------------------------------------------------
(* GET /authorize *)

Authorize(r, k) ==
    /\ codes[k] = "unissued" /\ SidOf[k] \in handed
    /\ codes' = [codes EXCEPT ![k] = "reserved"]
    /\ Call(r, "authorize", "load", {"getSession"}, SidOf[k], NoSid, k)
    /\ UNCHANGED <<ssoSessions, sidIndex, sidRefreshFamilies, family, dbVars, outVars, ghostVars>>

\* Without a session the browser is sent to log in; the code was never drawn.
Unauthenticated(r) ==
    /\ Resumes(r, "load") /\ kind[r] = "authorize" /\ ~found[r]
    /\ codes' = [codes EXCEPT ![code[r]] = "unissued"]
    /\ Return(r)
    /\ UNCHANGED <<ssoSessions, sidIndex, sidRefreshFamilies, family, dbVars, outVars,
                   disturbed, outcome, removed, cut, failed>>

\* checkTenantAccess: the membership is necessary; the status of user, tenant and
\* contract may refuse too.
MayAccess(r) == MemberOf(code[r]) \in serviceMembers

AtAccess(r) ==
    \/ Resumes(r, "access")
    \/ Resumes(r, "load") /\ kind[r] \in {"authorize", "refresh"} /\ found[r]

Allowed(r) ==
    /\ AtAccess(r) /\ MayAccess(r)
    /\ Await(r, IF kind[r] = "refresh" THEN "store" ELSE "codeSet", {})
    /\ UNCHANGED <<redisVars, dbVars, outVars, ghostVars>>

Denied(r) ==
    /\ AtAccess(r) /\ kind[r] # "refresh"
    /\ codes' = [codes EXCEPT ![code[r]] = "unissued"]
    /\ Return(r)
    /\ handed' = IF kind[r] = "login" THEN handed \cup {sid[r]} ELSE handed
    /\ UNCHANGED <<ssoSessions, sidIndex, sidRefreshFamilies, family, dbVars, tenantSessions, scope,
                   disturbed, outcome, removed, cut, failed>>

\* Broken variant: the code goes out without the service being recorded.
CodeSetUnrecorded(r) ==
    /\ Resumes(r, "codeSet")
    /\ codes' = [codes EXCEPT ![code[r]] = "stored"]
    /\ Await(r, "touch", {"touchRow", "setSession"})
    /\ UNCHANGED <<ssoSessions, sidIndex, sidRefreshFamilies, family, dbVars, outVars, ghostVars>>

\* The code is stored, then touchSsoSession runs its three writes at once.
CodeSet(r) ==
    /\ Resumes(r, "codeSet")
    /\ codes' = [codes EXCEPT ![code[r]] = "stored"]
    /\ Await(r, "touch", {"touchRow", "setSession", "recordClient"})
    /\ UNCHANGED <<ssoSessions, sidIndex, sidRefreshFamilies, family, dbVars, outVars, ghostVars>>

\* The redirect carries the code, and after a login the cookie.
CodeReply(r) ==
    /\ Resumes(r, "touch")
    /\ codes' = [codes EXCEPT ![code[r]] = "delivered"]
    /\ handed' = handed \cup {sid[r]}
    /\ Return(r)
    /\ UNCHANGED <<ssoSessions, sidIndex, sidRefreshFamilies, family, dbVars, tenantSessions, scope,
                   disturbed, outcome, removed, cut, failed>>

-----------------------------------------------------------------------------
(* The token endpoint, as far as it depends on the session *)

\* The service redeems a code: GETDEL, then the session is loaded.
Exchange(r, k) ==
    /\ codes[k] = "delivered"
    /\ codes' = [codes EXCEPT ![k] = "used"]
    /\ Call(r, "exchange", "load", {"getSession"}, SidOf[k], NoSid, k)
    /\ UNCHANGED <<ssoSessions, sidIndex, sidRefreshFamilies, family, dbVars, outVars, ghostVars>>

\* No session, a user or tenant that is gone, or a code presented wrongly.
ExchangeRefused(r) ==
    /\ Resumes(r, "load") /\ kind[r] = "exchange"
    /\ Return(r)
    /\ UNCHANGED <<redisVars, dbVars, outVars, disturbed, outcome, removed, cut, failed>>

\* The service presents the family's token.  Consuming it puts the family out of
\* reach of the revocations that have read it.
Refresh(r, k) ==
    /\ family[k] = "live"
    /\ family' = [family EXCEPT ![k] = "spent"]
    /\ pc[r] = "idle" /\ Goto(r, "load", {"getSession"})
    /\ kind' = [kind EXCEPT ![r] = "refresh"]
    /\ sid' = [sid EXCEPT ![r] = SidOf[k]] /\ code' = [code EXCEPT ![r] = k]
    /\ seen' = [q \in Req |-> seen[q] \ {k}]
    /\ UNCHANGED <<ssoSessions, sidIndex, sidRefreshFamilies, codes, dbVars, outVars, ghostVars,
                   other, member, found, listing, families, notices>>

\* validateRefreshContext fails: the family is revoked.
RefreshRefused(r) ==
    /\ Resumes(r, "load") /\ kind[r] = "refresh"
    /\ family' = [family EXCEPT ![code[r]] = "dead"]
    /\ Return(r)
    /\ UNCHANGED <<ssoSessions, sidIndex, sidRefreshFamilies, codes, dbVars, outVars,
                   disturbed, outcome, removed, cut, failed>>

\* storeRefreshToken; a new family is listed under its sid as well.
Store(r) ==
    /\ \/ Resumes(r, "store")
       \/ Resumes(r, "load") /\ kind[r] = "exchange" /\ found[r]
    /\ family' = [family EXCEPT ![code[r]] = "stored"]
    /\ Await(r, "index", IF kind[r] = "exchange" THEN {"addFamily", "addSid"} ELSE {"addFamily"})
    /\ UNCHANGED <<ssoSessions, sidIndex, sidRefreshFamilies, codes, dbVars, outVars, ghostVars>>

AddFamily(r) ==
    /\ Done(r, "addFamily")
    /\ family' = [family EXCEPT ![code[r]] = "listed"]
    /\ UNCHANGED <<ssoSessions, sidIndex, sidRefreshFamilies, codes, dbVars, outVars, found, ghostVars>>

AddSid(r) ==
    /\ Done(r, "addSid")
    /\ sidRefreshFamilies' = [sidRefreshFamilies EXCEPT ![sid[r]] = @ \cup {code[r]}]
    /\ UNCHANGED <<ssoSessions, sidIndex, codes, family, dbVars, outVars, found, ghostVars>>

\* The tokens reach the service, which keeps its own session for them.
TokenReply(r) ==
    /\ Resumes(r, "index")
    /\ family' = [family EXCEPT ![code[r]] = IF @ = "listed" THEN "live" ELSE @]
    /\ tenantSessions' = IF kind[r] = "exchange" THEN tenantSessions \cup {code[r]}
                         ELSE tenantSessions
    /\ Return(r)
    /\ UNCHANGED <<ssoSessions, sidIndex, sidRefreshFamilies, codes, dbVars, handed, scope,
                   disturbed, outcome, removed, cut, failed>>

-----------------------------------------------------------------------------
(* Ending a session: POST /logout, POST /sessions/revoke, revokeSessionBySid *)

Logout(r, s) ==
    /\ s \in handed
    /\ Call(r, "logout", "load", {"getSession"}, s, NoSid, NoCode)
    /\ UNCHANGED <<redisVars, dbVars, outVars, ghostVars>>

\* From the portal, with the cookie of session o: a session of the same user that
\* has a row and is not o.
PortalRevoke(r, o, s) ==
    /\ o \in handed /\ authSessions[s] # "none"
    /\ UserOf[s] = UserOf[o] /\ s # o
    /\ Call(r, "portal", "load", {"getSession"}, o, s, NoCode)
    /\ UNCHANGED <<redisVars, dbVars, outVars, ghostVars>>

RevokeSessionBySid(r) ==
    LET s == IF kind[r] = "portal" THEN other[r] ELSE sid[r] IN
    /\ Resumes(r, "load") /\ kind[r] \in {"logout", "portal"} /\ found[r]
    /\ Goto(r, "find", {"getIndex", "getClients"})
    /\ sid' = [sid EXCEPT ![r] = s]
    /\ found' = [found EXCEPT ![r] = FALSE]
    /\ Disturbed(r, s)
    /\ UNCHANGED <<redisVars, dbVars, outVars, kind, other, code, member, listing, families, seen,
                   notices, outcome, quiet, removed, cut, failed>>

NoSessionToRevoke(r) ==
    /\ Resumes(r, "load") /\ kind[r] \in {"logout", "portal"} /\ ~found[r]
    /\ Return(r)
    /\ UNCHANGED <<redisVars, dbVars, outVars, disturbed, outcome, removed, cut, failed>>

\* Found or not, the services are told; only a session that is found is deleted.
NotFound(r) ==
    /\ Resumes(r, "find") /\ ~found[r]
    /\ Await(r, "notify", {"markRevoked"})
    /\ UNCHANGED <<redisVars, dbVars, outVars, ghostVars>>

\* Broken variant: the row is marked along with the deletions instead of after them.
ListFamiliesAndMark(r) ==
    /\ Resumes(r, "find") /\ found[r]
    /\ Goto(r, "kill", {"delSession", "delIndex", "markRevoked"})
    /\ families' = [families EXCEPT ![r] = sidRefreshFamilies[sid[r]]]
    /\ UNCHANGED <<redisVars, dbVars, outVars, callVars, found, listing, seen, notices, ghostVars>>

ListFamilies(r) ==
    /\ Resumes(r, "find") /\ found[r]
    /\ Goto(r, "kill", {"delSession", "delIndex"})
    /\ families' = [families EXCEPT ![r] = sidRefreshFamilies[sid[r]]]
    /\ UNCHANGED <<redisVars, dbVars, outVars, callVars, found, listing, seen, notices, ghostVars>>

\* revokeRefreshTokenFamily in two halves: the tokens are read, then set.
ReadFamily(r, k) ==
    /\ k \in families[r]
    /\ families' = [families EXCEPT ![r] = @ \ {k}]
    /\ seen' = [seen EXCEPT ![r] = IF family[k] \in {"listed", "live"} THEN @ \cup {k} ELSE @]
    /\ UNCHANGED <<redisVars, dbVars, outVars, pc, callVars, found, ops, listing, notices, ghostVars>>

RevokeFamily(r, k) ==
    /\ k \in seen[r]
    /\ seen' = [seen EXCEPT ![r] = @ \ {k}]
    /\ family' = [family EXCEPT ![k] = "dead"]
    /\ UNCHANGED <<ssoSessions, sidIndex, sidRefreshFamilies, codes, dbVars, outVars, pc, callVars,
                   found, ops, listing, families, notices, ghostVars>>

Killed(r) ==
    /\ Resumes(r, "kill")
    /\ sidRefreshFamilies' = [sidRefreshFamilies EXCEPT ![sid[r]] = {}]
    /\ Await(r, "notify", {"markRevoked"})
    /\ UNCHANGED <<ssoSessions, sidIndex, codes, family, dbVars, outVars, ghostVars>>

Revoked(r) ==
    LET s == sid[r] IN
    /\ Resumes(r, "notify")
    /\ outcome' = [outcome EXCEPT ![s] =
           IF found[r] THEN "revoked" ELSE IF @ = "revoked" THEN @ ELSE "ended"]
    /\ Return(r)
    /\ UNCHANGED <<redisVars, dbVars, outVars, disturbed, removed, cut, failed>>

-----------------------------------------------------------------------------
(* Back-channel logout, as the services answer it *)

\* At the removal of a member a session is reported once its families are done.
Sendable(r, c, s) ==
    /\ Notifying(r) /\ <<c, s>> \in notices[r] /\ s \notin listing[r]
    /\ \A k \in families[r] \cup seen[r] : SidOf[k] # s

\* The service deletes its sessions of that sid, whatever their tenant.
NoticeTaken(r, c, s) ==
    /\ Sendable(r, c, s)
    /\ notices' = [notices EXCEPT ![r] = @ \ {<<c, s>>}]
    /\ tenantSessions' = {k \in tenantSessions : ~(ServiceOf(k) = c /\ SidOf[k] = s)}
    /\ UNCHANGED <<redisVars, dbVars, handed, scope, pc, callVars, found, ops, listing, families, seen,
                   ghostVars>>

\* Broken variant: no timeout; only a service that has failed before is given up.
NoticeAwaited(r, c, s) ==
    /\ Sendable(r, c, s) /\ <<c, s>> \in failed
    /\ notices' = [notices EXCEPT ![r] = @ \ {<<c, s>>}]
    /\ UNCHANGED <<redisVars, dbVars, outVars, pc, callVars, found, ops, listing, families, seen,
                   ghostVars>>

\* It refuses, is switched off, or does not answer before the timeout.
NoticeLost(r, c, s) ==
    /\ Sendable(r, c, s)
    /\ notices' = [notices EXCEPT ![r] = @ \ {<<c, s>>}]
    /\ failed' = failed \cup {<<c, s>>}
    /\ UNCHANGED <<redisVars, dbVars, outVars, pc, callVars, found, ops, listing, families, seen,
                   disturbed, outcome, quiet, removed, cut>>

-----------------------------------------------------------------------------
(* Members of a service: DELETE and POST /admin/service-members *)

\* A grant for member m that has passed, or will never meet, the access check.
Granting(m) ==
    \/ \E q \in Req : /\ code[q] # NoCode /\ MemberOf(code[q]) = m
                      /\ \/ kind[q] = "exchange" \/ pc[q] \in {"codeSet", "touch", "store", "index"}
    \/ \E k \in Code : MemberOf(k) = m /\ codes[k] \in {"stored", "delivered"}

RemoveServiceMember(r, u, p) ==
    /\ pc[r] = "idle" /\ Goto(r, "affected", {})
    /\ kind' = [kind EXCEPT ![r] = "remove"]
    /\ member' = [member EXCEPT ![r] = <<u, p>>]
    /\ serviceMembers' = serviceMembers \ {<<u, p>>}
    /\ quiet' = IF Granting(<<u, p>>) THEN quiet ELSE quiet \cup {r}
    /\ UNCHANGED <<redisVars, authSessions, sessionClients, outVars, sid, other, code, found,
                   listing, families, seen, notices, disturbed, outcome, removed, cut, failed>>

\* listActiveByUser, narrowed to the sessions that entered this place.
Affected(m) ==
    {s \in Sid : UserOf[s] = m[1] /\ authSessions[s] = "active" /\ m[2] \in sessionClients[s]}

\* A session whose row is stale or revoked is passed over.
PassedOver(m) ==
    \E k \in Code : /\ MemberOf(k) = m /\ SidOf[k] \notin Affected(m)
                    /\ family[k] = "live" \/ k \in tenantSessions

\* Broken variant: the membership goes, the tokens stay.
RevokeClientAccessLater(r) ==
    /\ Resumes(r, "affected")
    /\ Await(r, "cutAccess", {})
    /\ UNCHANGED <<redisVars, dbVars, outVars, ghostVars>>

RevokeClientAccess(r) ==
    LET m == member[r] IN
    /\ Resumes(r, "affected")
    /\ Goto(r, "cutAccess", {})
    /\ listing' = [listing EXCEPT ![r] = Affected(m)]
    /\ notices' = [notices EXCEPT ![r] = {ClientOf[m[2]]} \X Affected(m)]
    /\ quiet' = IF PassedOver(m) THEN quiet \ {r} ELSE quiet
    /\ UNCHANGED <<redisVars, dbVars, outVars, callVars, found, families, seen,
                   disturbed, outcome, removed, cut, failed>>

\* Broken variant: every family of the session goes.
ListAll(r, s) ==
    /\ s \in listing[r]
    /\ listing' = [listing EXCEPT ![r] = @ \ {s}]
    /\ families' = [families EXCEPT ![r] = @ \cup sidRefreshFamilies[s]]
    /\ UNCHANGED <<redisVars, dbVars, outVars, pc, callVars, found, ops, seen, notices, ghostVars>>

\* Of the families of a session only those of this service and tenant go.
ListMatching(r, s) ==
    /\ s \in listing[r]
    /\ listing' = [listing EXCEPT ![r] = @ \ {s}]
    /\ families' = [families EXCEPT ![r] = @ \cup
                       {k \in sidRefreshFamilies[s] : PlaceOf[k] = member[r][2]}]
    /\ UNCHANGED <<redisVars, dbVars, outVars, pc, callVars, found, ops, seen, notices, ghostVars>>

AccessCut(r) ==
    /\ Resumes(r, "cutAccess")
    /\ removed' = removed \cup ({member[r]} \ serviceMembers)
    /\ cut' = IF r \in quiet THEN cut \cup {member[r]} ELSE cut
    /\ Return(r)
    /\ UNCHANGED <<redisVars, dbVars, outVars, disturbed, outcome, failed>>

InviteServiceMember(u, p) ==
    /\ "remove" \in scope.arrivals /\ <<u, p>> \notin serviceMembers
    /\ serviceMembers' = serviceMembers \cup {<<u, p>>}
    /\ removed' = removed \ {<<u, p>>} /\ cut' = cut \ {<<u, p>>}
    /\ quiet' = {r \in quiet : member[r] # <<u, p>>}
    /\ UNCHANGED <<redisVars, authSessions, sessionClients, outVars, pc, callVars, found, workVars,
                   disturbed, outcome, failed>>

-----------------------------------------------------------------------------
(* The environment *)

\* The idle limit passes without a visit.
IdleOut(s) ==
    /\ "idle" \in scope.faults
    /\ ssoSessions[s] = "live" \/ authSessions[s] = "active"
    /\ ssoSessions' = [ssoSessions EXCEPT ![s] = IF @ = "live" THEN "idle" ELSE @]
    /\ authSessions' = [authSessions EXCEPT ![s] = IF @ = "active" THEN "stale" ELSE @]
    /\ UNCHANGED <<sidIndex, sidRefreshFamilies, codes, family, sessionClients, serviceMembers,
                   outVars, pc, callVars, found, workVars, ghostVars>>

\* The process stops, or a command is rejected and the rest of the handler with it.
\* A session left without its index is beyond the reach of every later revocation.
Abort(r) ==
    /\ "abort" \in scope.faults /\ pc[r] # "idle"
    /\ disturbed' = disturbed \cup
           (IF "delSession" \in ops[r] /\ "delIndex" \notin ops[r] THEN {Victim(r)} ELSE {})
    /\ codes' = IF pc[r] \in {"create", "dropPrevious", "load", "access", "codeSet"}
                   /\ kind[r] \in {"login", "authorize"} /\ code[r] # NoCode
                THEN [codes EXCEPT ![code[r]] = "unissued"] ELSE codes
    /\ Return(r)
    /\ UNCHANGED <<ssoSessions, sidIndex, sidRefreshFamilies, family, dbVars, outVars,
                   outcome, removed, cut, failed>>

-----------------------------------------------------------------------------
Command(r) ==
    \/ SetSession(r) \/ SetIndex(r) \/ CreateRow(r) \/ TouchRow(r) \/ RecordClient(r)
    \/ MarkRevoked(r) \/ DeleteSession(r) \/ DeleteIndex(r)
    \/ GetSession(r) \/ GetIndex(r) \/ GetClients(r) \/ AddFamily(r) \/ AddSid(r)
    \/ \E k \in Code : ReadFamily(r, k) \/ RevokeFamily(r, k)
    \/ \E s \in Sid : ListMatching(r, s) \/ \E c \in Client : NoticeLost(r, c, s)

Resume(r) ==
    \/ Previous(r) \/ Finish(r)
    \/ Unauthenticated(r) \/ Allowed(r) \/ Denied(r) \/ CodeSet(r) \/ CodeReply(r)
    \/ ExchangeRefused(r) \/ RefreshRefused(r) \/ Store(r) \/ TokenReply(r)
    \/ RevokeSessionBySid(r) \/ NoSessionToRevoke(r) \/ NotFound(r) \/ ListFamilies(r)
    \/ Killed(r) \/ Revoked(r) \/ RevokeClientAccess(r) \/ AccessCut(r)

\* What a request does by itself, the timeout of a logout token included.
Step(r) == Command(r) \/ Resume(r)

Arrive(r) ==
    /\ \/ \E s \in scope.sids, o \in scope.sids \cup {NoSid}, k \in scope.codes \cup {NoCode} : Login(r, s, o, k)
       \/ \E k \in scope.codes : Authorize(r, k) \/ Exchange(r, k) \/ Refresh(r, k)
       \/ \E s \in scope.sids : Logout(r, s) \/ \E o \in scope.sids : PortalRevoke(r, o, s)
       \/ \E u \in User, p \in Place : RemoveServiceMember(r, u, p)
    /\ kind'[r] \in scope.arrivals

Environment ==
    \/ \E r \in Req, c \in Client, s \in Sid : NoticeTaken(r, c, s)
    \/ \E u \in User, p \in Place : InviteServiceMember(u, p)
    \/ \E s \in Sid : IdleOut(s)
    \/ \E r \in Req : Abort(r)

Next == (\E r \in Req : Step(r) \/ Arrive(r)) \/ Environment

Spec == Init /\ [][Next]_vars

\* A request that has arrived is carried on; nothing obliges a service to answer.
FairSpec == Spec /\ \A r \in Req : WF_vars(Step(r))

-----------------------------------------------------------------------------
(* Properties *)

Deleting(s) == \E r \in Req : "delSession" \in ops[r] /\ Victim(r) = s

\* A session whose row says revoked can no longer be used, provided no request relied
\* on it while it was being ended: markRevoked (global-logout.ts:65) comes after
\* destroySsoSession, so a logout that breaks off in between stays listed and can be
\* repeated from the portal.
RevokedRowMeansGone ==
    \A s \in handed \ disturbed :
        authSessions[s] = "revoked" => ssoSessions[s] # "live" \/ Deleting(s)

\* A logout that nothing relied-on overlapped is final: every family of the session is
\* dead, and every service that entered through it has lost its sessions, unless its
\* logout token did not get through (revokeSessionBySid, global-logout.ts:42-79).
QuietLogoutIsFinal ==
    \A s \in Sid \ disturbed : \A k \in Code :
        SidOf[k] = s =>
            /\ outcome[s] = "revoked" => family[k] # "live"
            /\ outcome[s] \in {"ended", "revoked"} /\ k \in tenantSessions
                   => <<ServiceOf(k), s>> \in failed

\* A login leaves no trace of the session it replaces (routes/login.ts:94-96): its
\* cookie opens nothing any more.
ReplacedSessionIsGone ==
    \A s \in Sid \ disturbed : outcome[s] = "replaced" => ssoSessions[s] # "live"

\* When the removal of a member met no grant in progress, no token and no session of
\* the service remain to the member there (revokeServiceMember, service-members.ts:61-81).
QuietRemovalCuts ==
    \A k \in Code :
        MemberOf(k) \in cut /\ SidOf[k] \notin disturbed =>
            /\ family[k] # "live"
            /\ k \in tenantSessions => <<ServiceOf(k), SidOf[k]>> \in failed

\* Removing a member kills no family but those of that member in that service and
\* tenant (the filter of revokeClientAccess, global-logout.ts:108-112).
RemovalIsSelective ==
    [][\A r \in Req : \A k \in Code :
          kind[r] = "remove" /\ RevokeFamily(r, k) => MemberOf(k) = member[r]]_vars

\* Every request ends, a logout too whose services never answer
\* (AbortSignal.timeout, global-logout.ts:151).
EveryRequestEnds == \A r \in Req : pc[r] # "idle" ~> pc[r] = "idle"

\* Global logout deletes the SSO session (docs/design/10-logout-design.md:15).
LogoutIsFinal == \A s \in Sid : outcome[s] = "revoked" => ssoSessions[s] = "absent"

\* Removing a member revokes the families of that service and tenant at once
\* (docs/design/10-logout-design.md:18): none is usable while the removal stands.
RemovalIsImmediate == \A k \in Code : MemberOf(k) \in removed => family[k] # "live"

=============================================================================
