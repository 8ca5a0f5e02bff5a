--------------------------- MODULE TenantSessions ---------------------------
(***************************************************************************)
(* Tenant sessions of a service's web server: login through the            *)
(* authorization server, the session middleware, the relay of API calls    *)
(* with its token refresh, logout and back-channel logout                  *)
(* (packages/oidc-client/src and packages/web-core/src).                   *)
(*                                                                         *)
(* One browser talks to one tenant of the service.  Requests of several    *)
(* tabs, and the logout notices of the authorization server, run in        *)
(* several processes over one Redis.  Each awaited command is one action;  *)
(* a request at a Promise.all has a set of outstanding commands (ops).     *)
(*                                                                         *)
(* A login, its pre-auth record (id, state, nonce, code verifier), the     *)
(* code it is answered with and the session it ends in are drawn one for   *)
(* one, so one name stands for them all.  The tokens of a session are a    *)
(* generation: 0 from the code, one more per refresh.  A family at the     *)
(* authorization server is kept as coarsely as in module TokenFamily: its  *)
(* newest generation and whether it is alive.  The absolute lifetime of a  *)
(* session is the TTL of its keys; behaviours are followed up to it.       *)
(***************************************************************************)
EXTENDS Naturals, FiniteSets

CONSTANTS
    Req,         \* slots for requests running at the same time
    Session,     \* tenant sessions that may be created
    Sid,         \* SSO sessions
    SidOf,       \* the SSO session a tenant session comes from
    MaxGen,      \* bound: refreshes followed per session
    MaxAttempts, \* REFRESH_WAIT_ATTEMPTS
    Arrivals,    \* the kinds of request that arrive in this instance
    Faults,      \* what may go wrong in it
    MaxCalls,    \* bound: requests that arrive in a behaviour
    MaxFaults,   \* bound: how often something goes wrong in it
    Initial,     \* the session the browser starts with, or NoSession
    NoSession, Absent

ASSUME TenantAssumption ==
    /\ SidOf \in [Session -> Sid] /\ Sid # {}
    /\ MaxGen \in Nat /\ MaxAttempts \in Nat \ {0} /\ MaxFaults \in Nat /\ MaxCalls \in Nat
    /\ Initial \in Session \cup {NoSession}
    /\ Arrivals \subseteq {"login", "callback", "api", "session", "logout", "backchannel"}
    /\ Faults \subseteq {"abort", "lapse", "lost", "skew", "time", "preAuth"}
    /\ NoSession \notin Session /\ "keep" \notin Session
    /\ Absent \notin [gen : 0 .. MaxGen, age : {"fresh", "old", "idle"}]

VARIABLES
    sessions,       \* Redis: tenant-session records
    sessionsBySid,  \* Redis: sid -> sessions listed under it
    preAuth,        \* Redis: pre-auth records
    refreshLocks,   \* Redis: sessions whose refresh lock is set
    cookie, preAuthCookie,  \* the browser's cookies
    login,          \* how far the browser is with a login
    family,         \* the authorization server's side of a session
    due,            \* generations below it are due for a refresh
    faults,         \* how often something may still go wrong
    call,           \* the requests being served
    left,           \* how many may still arrive
    ended,          \* history: sessions deleted, or replaced by a login
    marks           \* history: what went wrong with a session

vars == <<sessions, sessionsBySid, preAuth, refreshLocks, cookie, preAuthCookie,
          login, faults, family, due, call, left, ended, marks>>

Gens    == 0 .. MaxGen
Records == [gen : Gens, age : {"fresh", "old", "idle"}]
Ids     == Session \cup {NoSession}
Commands == ({"set", "add", "delete", "remove"} \X Session) \cup ({"deleteSid"} \X Sid)
Points  == {"idle", "load", "dropIdle", "touch", "touchSet", "discover", "preAuth",
            "exchange", "verify", "existing", "dropExisting", "create", "logout",
            "dropLogout", "ensure", "reload", "dropReload", "refresh", "save",
            "dropRejected", "unlock", "wait", "dropWait", "fetch", "members",
            "dropSid", "respond"}
Calls == [pc : Points, kind : {"none"} \cup Arrivals,
          cookie : Ids, pre : Ids,          \* the cookies it came with
          login : Ids, denied : BOOLEAN,    \* login it begins or answers, and an error answer
          sid : Sid,                        \* the subject of a logout notice
          id : Ids, gen : Gens,             \* its copy of the session,
          forced : BOOLEAN,                 \*   with accessTokenExpiresAt = 0
          retried : BOOLEAN, failed : BOOLEAN,
          tries : 0 .. MaxAttempts, ops : SUBSET Commands,
          next : Ids \cup {"keep"}]         \* the session cookie of its response

\* The type invariant: the stores and the requests keep their shape.
TypeOK ==
    /\ sessions \in [Session -> Records \cup {Absent}]
    /\ sessionsBySid \in [Sid -> SUBSET Session]
    /\ preAuth \subseteq Session /\ refreshLocks \subseteq Session
    /\ cookie \in Ids /\ preAuthCookie \in Ids
    /\ login \in [Session -> {"none", "begun", "sent", "exchanged"}]
    /\ family \in [Session -> [head : Gens, alive : BOOLEAN]]
    /\ due \in [Session -> Gens] /\ faults \in 0 .. MaxFaults
    /\ left \in 0 .. MaxCalls
    /\ call \in [Req -> Calls]
    /\ ended \subseteq Session
    /\ marks \subseteq {"lapse", "lost", "overlap", "revived", "reuse", "replay"} \X Session

Idle == [pc |-> "idle", kind |-> "none", cookie |-> NoSession, pre |-> NoSession,
         login |-> NoSession, denied |-> FALSE, sid |-> CHOOSE d \in Sid : TRUE,
         id |-> NoSession, gen |-> 0, forced |-> FALSE, retried |-> FALSE,
         failed |-> FALSE, tries |-> 0, ops |-> {}, next |-> "keep"]

Init ==
    /\ sessions = [s \in Session |-> IF s = Initial THEN [gen |-> 0, age |-> "fresh"] ELSE Absent]
    /\ sessionsBySid = [d \in Sid |-> {s \in Session : s = Initial /\ SidOf[s] = d}]
    /\ preAuth = {} /\ refreshLocks = {}
    /\ cookie = Initial /\ preAuthCookie = NoSession
    /\ login = [s \in Session |-> IF s = Initial THEN "exchanged" ELSE "none"]
    /\ family = [s \in Session |-> [head |-> 0, alive |-> s = Initial]]
    /\ faults = MaxFaults
    /\ due = [s \in Session |-> 0]
    /\ call = [r \in Req |-> Idle] /\ left = MaxCalls /\ ended = {} /\ marks = {}

Marked(s) == {m[1] : m \in {n \in marks : n[2] = s}}

stores   == <<sessions, sessionsBySid, preAuth, refreshLocks>>
browser  == <<cookie, preAuthCookie, login, faults>>
provider == <<family, due>>
history  == <<ended, marks>>

\* Request r goes on as c.
Go(r, c) == call' = [call EXCEPT ![r] = c] /\ left' = left
At(r, p) == call[r].pc = p /\ call[r].ops = {}

\* All a response carries.
Answer(c) == [Idle EXCEPT !.pc = "respond", !.kind = c.kind, !.login = c.login,
                          !.failed = c.failed, !.next = c.next]
Reply(r, c) == Go(r, Answer(c))

\* Steps that change nothing but the request's own state.
Continue(r, c) == Go(r, c) /\ UNCHANGED <<stores, browser, provider, history>>
Finish(r, c)   == Continue(r, Answer(c))

\* Something goes wrong; otherwise all is Well.
Fault(f) == f \in Faults /\ faults > 0 /\ faults' = faults - 1
Well     == faults' = faults

----------------------------------------------------------------------------
(***************************************************************************)
(* session.ts: the commands on a session's two keys.                       *)
(***************************************************************************)
\* Broken variant: the new session is not listed under its sid.
CreateOpsUnlisted(s) == {<<"set", s>>}

CreateOps(s)  == {<<"set", s>>, <<"add", s>>}
DestroyOps(s) == {<<"delete", s>>, <<"remove", s>>}
SidOps(d)     == {<<"delete", s>> : s \in sessionsBySid[d]} \cup {<<"deleteSid", d>>}

\* r holds a copy of s, or is creating s, and may yet write its record.
MayWrite(r, s) ==
    \/ <<"set", s>> \in call[r].ops
    \/ /\ call[r].id = s
       /\ \/ call[r].pc \in {"touch", "touchSet", "ensure", "reload", "dropReload",
                             "refresh", "save"}
          \/ call[r].pc = "unlock" /\ ~call[r].retried /\ ~call[r].failed
          \/ call[r].pc = "fetch" /\ ~call[r].retried

Done(r, o) == Go(r, [call[r] EXCEPT !.ops = @ \ {o}])

SetRecord(r) == \E s \in Session :
    /\ <<"set", s>> \in call[r].ops
    /\ sessions' = [sessions EXCEPT ![s] = [gen |-> 0, age |-> "fresh"]]
    /\ Done(r, <<"set", s>>)
    /\ UNCHANGED <<sessionsBySid, preAuth, refreshLocks, browser, provider, history>>

AddToSid(r) == \E s \in Session :
    /\ <<"add", s>> \in call[r].ops
    /\ sessionsBySid' = [sessionsBySid EXCEPT ![SidOf[s]] = @ \cup {s}]
    /\ Done(r, <<"add", s>>)
    /\ UNCHANGED <<sessions, preAuth, refreshLocks, browser, provider, history>>

\* A copy that may still be written back makes the deletion an overlapped one.
DeleteRecord(r) == \E s \in Session :
    /\ <<"delete", s>> \in call[r].ops
    /\ sessions' = [sessions EXCEPT ![s] = Absent]
    /\ ended' = ended \cup {s}
    /\ marks' = marks \cup {m \in {<<"revived", s>>} : \E q \in Req : MayWrite(q, s)}
    /\ Done(r, <<"delete", s>>)
    /\ UNCHANGED <<sessionsBySid, preAuth, refreshLocks, browser, provider>>

RemoveFromSid(r) == \E s \in Session :
    /\ <<"remove", s>> \in call[r].ops
    /\ sessionsBySid' = [sessionsBySid EXCEPT ![SidOf[s]] = @ \ {s}]
    /\ Done(r, <<"remove", s>>)
    /\ UNCHANGED <<sessions, preAuth, refreshLocks, browser, provider, history>>

\* A session listed since the notice read the list loses its entry.
DeleteSid(r) == \E d \in Sid :
    /\ <<"deleteSid", d>> \in call[r].ops
    /\ sessionsBySid' = [sessionsBySid EXCEPT ![d] = {}]
    /\ marks' = marks \cup {<<"revived", s>> : s \in {t \in sessionsBySid[d] :
                   /\ sessions[t] # Absent \/ \E q \in Req : MayWrite(q, t)
                   /\ <<"delete", t>> \notin call[r].ops}}
    /\ Done(r, <<"deleteSid", d>>)
    /\ UNCHANGED <<sessions, preAuth, refreshLocks, browser, provider, ended>>

----------------------------------------------------------------------------
(***************************************************************************)
(* Arrivals.                                                               *)
(***************************************************************************)
Arrive(r, k, c) ==
    /\ k \in Arrivals /\ call[r] = Idle /\ left > 0
    /\ call' = [call EXCEPT ![r] = [c EXCEPT !.kind = k]]
    /\ left' = left - 1

FromBrowser == [Idle EXCEPT !.pc = "load", !.cookie = cookie, !.pre = preAuthCookie]

BeginLogin(r) == \E s \in Session :
    /\ login[s] = "none" /\ login' = [login EXCEPT ![s] = "begun"]
    /\ Arrive(r, "login", [FromBrowser EXCEPT !.login = s])
    /\ UNCHANGED <<stores, cookie, preAuthCookie, faults, provider, history>>

\* The browser returns from the authorization server; a reload sends it again.
Callback(r) == \E s \in Session, d \in BOOLEAN :
    /\ login[s] \in {"sent", "exchanged"}
    /\ Arrive(r, "callback", [FromBrowser EXCEPT !.login = s, !.denied = d])
    /\ UNCHANGED <<stores, browser, provider, history>>

\* A call of the API, or the SPA asking who is logged in.
ApiCall(r) == \E k \in {"api", "session"} :
    /\ cookie # NoSession /\ Arrive(r, k, FromBrowser)
    /\ UNCHANGED <<stores, browser, provider, history>>

Logout(r) ==
    /\ cookie # NoSession /\ Arrive(r, "logout", FromBrowser)
    /\ UNCHANGED <<stores, browser, provider, history>>

\* The authorization server revokes the families of a sid before it sends the notice.
Backchannel(r) == \E d \in Sid :
    /\ \E s \in Session : SidOf[s] = d /\ family[s].alive
    /\ Arrive(r, "backchannel", [Idle EXCEPT !.pc = "members", !.sid = d])
    /\ family' = [s \in Session |->
                    IF SidOf[s] = d THEN [family[s] EXCEPT !.alive = FALSE] ELSE family[s]]
    /\ UNCHANGED <<stores, browser, due, history>>

----------------------------------------------------------------------------
(***************************************************************************)
(* middleware.ts: every request of the browser passes tenantContext.       *)
(***************************************************************************)

\* What a handler starts with: the callback goes by its cookies, the others by
\* the session the middleware put into the context.
Enter(c) ==
    LET bare == [c EXCEPT !.id = NoSession, !.gen = 0]
        held == [c EXCEPT !.cookie = NoSession, !.pre = NoSession]
    IN IF c.kind = "login" THEN [bare EXCEPT !.pc = "discover"]
       ELSE IF c.kind = "callback" THEN [bare EXCEPT !.pc = "preAuth"]
       ELSE IF c.id = NoSession \/ c.kind = "session" THEN Answer(c)
       ELSE [held EXCEPT !.pc = IF c.kind = "logout" THEN "logout" ELSE "ensure"]

LoadSession(r) ==
    /\ At(r, "load")
    /\ LET c == call[r]
           rec == sessions[c.cookie]
           held == [c EXCEPT !.id = c.cookie, !.gen = rec.gen]
       IN Continue(r,
            IF c.cookie = NoSession THEN Enter(c)
            ELSE IF rec = Absent THEN Enter([c EXCEPT !.next = NoSession])
            ELSE IF rec.age = "idle" THEN [c EXCEPT !.pc = "dropIdle", !.ops = DestroyOps(c.cookie)]
            ELSE IF rec.age = "old" THEN [held EXCEPT !.pc = "touch"]
            ELSE Enter(held))

DropIdle(r) ==
    /\ At(r, "dropIdle") /\ Continue(r, Enter([call[r] EXCEPT !.next = NoSession]))

\* Broken variant: no second read.
TouchGetStale(r) ==
    /\ At(r, "touch") /\ Continue(r, [call[r] EXCEPT !.pc = "touchSet"])

\* touchSession reads the record again and falls back to the copy it was given.
TouchGet(r) ==
    /\ At(r, "touch")
    /\ LET rec == sessions[call[r].id]
       IN Continue(r, [call[r] EXCEPT !.pc = "touchSet",
                                !.gen = IF rec = Absent THEN @ ELSE rec.gen])

SaveSession(s, g) == sessions' = [sessions EXCEPT ![s] = [gen |-> g, age |-> "fresh"]]

TouchSet(r) ==
    /\ At(r, "touchSet")
    /\ SaveSession(call[r].id, call[r].gen)
    /\ Go(r, Enter(call[r]))
    /\ UNCHANGED <<sessionsBySid, preAuth, refreshLocks, browser, provider, history>>

----------------------------------------------------------------------------
(***************************************************************************)
(* routes.ts: /auth/login, /auth/callback, /auth/logout and the notice.    *)
(***************************************************************************)
DiscoveryFails(r) ==
    /\ At(r, "discover") /\ Fault("lost")
    /\ Reply(r, [call[r] EXCEPT !.failed = TRUE])
    /\ UNCHANGED <<stores, cookie, preAuthCookie, login, provider, history>>

SetPreAuth(r) ==
    /\ At(r, "discover")
    /\ preAuth' = preAuth \cup {call[r].login}
    /\ Reply(r, call[r])
    /\ UNCHANGED <<sessions, sessionsBySid, refreshLocks, browser, provider, history>>

\* Broken variant: the record is read and left to its TTL.
TakePreAuthKept(r) ==
    /\ At(r, "preAuth")
    /\ IF call[r].pre \in preAuth /\ call[r].pre = call[r].login /\ ~call[r].denied
         THEN Continue(r, [call[r] EXCEPT !.pc = "exchange"])
         ELSE Finish(r, call[r])

\* The record is taken out whatever comes next; the checks of the answer follow.
TakePreAuth(r) ==
    /\ At(r, "preAuth")
    /\ preAuth' = preAuth \ {call[r].pre}
    /\ IF /\ call[r].pre \in preAuth
          /\ call[r].pre = call[r].login
          /\ ~call[r].denied
         THEN Go(r, [call[r] EXCEPT !.pc = "exchange"])
         ELSE Reply(r, call[r])
    /\ UNCHANGED <<sessions, sessionsBySid, refreshLocks, browser, provider, history>>

\* External: the token endpoint.  A code sent twice costs the family.
ExchangeCode(r) ==
    /\ At(r, "exchange")
    /\ LET s == call[r].login IN
       IF login[s] = "sent"
         THEN /\ login' = [login EXCEPT ![s] = "exchanged"]
              /\ family' = [family EXCEPT ![s].alive = TRUE]
              /\ marks' = marks
              /\ \/ Well /\ Go(r, [call[r] EXCEPT !.pc = "verify"])
                 \/ Fault("lost") /\ Reply(r, call[r])
         ELSE /\ family' = [family EXCEPT ![s].alive = FALSE]
              /\ marks' = marks \cup {<<"replay", s>>}
              /\ login' = login /\ Well /\ Reply(r, call[r])
    /\ UNCHANGED <<stores, cookie, preAuthCookie, due, ended>>

VerifyIdToken(r) ==
    /\ At(r, "verify")
    /\ \/ Well /\ Go(r, [call[r] EXCEPT !.pc = "existing"])
       \/ Fault("lost") /\ Reply(r, call[r])     \* the key set is out of reach
    /\ UNCHANGED <<stores, cookie, preAuthCookie, login, provider, history>>

CreateSession(c) == [c EXCEPT !.pc = "create", !.ops = CreateOps(c.login)]

\* Broken variant: the previous session is left to its TTL.
LoadExistingKept(r) ==
    /\ At(r, "existing") /\ Continue(r, CreateSession(call[r]))

\* The session of the cookie the request came with, idle or not, is destroyed.
LoadExisting(r) ==
    /\ At(r, "existing")
    /\ LET c == call[r] IN
       Continue(r, IF c.cookie # NoSession /\ sessions[c.cookie] # Absent
               THEN [c EXCEPT !.pc = "dropExisting", !.ops = DestroyOps(c.cookie)]
               ELSE CreateSession(c))

DropExisting(r) ==
    /\ At(r, "dropExisting") /\ Continue(r, CreateSession(call[r]))

Created(r) ==
    /\ At(r, "create") /\ Reply(r, [call[r] EXCEPT !.next = call[r].login])
    /\ ended' = ended \cup ({call[r].cookie} \ {NoSession})
    /\ UNCHANGED <<stores, browser, provider, marks>>

\* A revocation that fails is logged and the session destroyed all the same.
RevokeAndDestroy(r) ==
    /\ At(r, "logout")
    /\ LET s == call[r].id IN
       /\ \/ Well /\ family' = [family EXCEPT ![s].alive = FALSE]
          \/ Fault("lost") /\ family' = family
       /\ Go(r, [call[r] EXCEPT !.pc = "dropLogout", !.ops = DestroyOps(s)])
    /\ UNCHANGED <<stores, cookie, preAuthCookie, login, due, history>>

\* A form of an earlier session does not carry this session's csrfToken.
CsrfMismatch(r) ==
    /\ call[r].pc \in {"logout", "ensure"} /\ ~call[r].retried
    /\ Finish(r, call[r])

DropLogout(r) ==
    /\ At(r, "dropLogout") /\ Finish(r, [call[r] EXCEPT !.next = NoSession])

SidMembers(r) ==
    /\ At(r, "members")
    /\ Continue(r, [call[r] EXCEPT !.pc = "dropSid", !.ops = SidOps(call[r].sid)])

DropSid(r) ==
    /\ At(r, "dropSid") /\ Finish(r, call[r])

\* The response reaches the browser with its Set-Cookie headers.
Respond(r) ==
    /\ At(r, "respond")
    /\ LET c == call[r] IN
       /\ cookie' = IF c.next = "keep" THEN cookie ELSE c.next
       /\ preAuthCookie' = CASE c.kind = "login" /\ ~c.failed -> c.login
                             [] c.kind = "callback" -> NoSession
                             [] OTHER -> preAuthCookie
       /\ login' = IF c.kind = "login" /\ ~c.failed
                     THEN [login EXCEPT ![c.login] = "sent"] ELSE login
       /\ Go(r, Idle)
    /\ UNCHANGED <<stores, faults, provider, history>>

----------------------------------------------------------------------------
(***************************************************************************)
(* api-client.ts: the relay of /api/* and the refresh of its access token. *)
(***************************************************************************)
NeedsRefresh(s, g) == g < due[s]

\* ensureFreshAccessToken up to the lock.
EnsureFresh(r) ==
    /\ At(r, "ensure")
    /\ LET c == call[r] IN
       IF ~c.forced /\ ~NeedsRefresh(c.id, c.gen)
         THEN Go(r, [c EXCEPT !.pc = "fetch"]) /\ UNCHANGED refreshLocks
         ELSE IF c.id \in refreshLocks
           THEN Go(r, [c EXCEPT !.pc = "wait"]) /\ UNCHANGED refreshLocks
           ELSE /\ refreshLocks' = refreshLocks \cup {c.id}
                /\ Go(r, [c EXCEPT !.pc = "reload"])
    /\ UNCHANGED <<sessions, sessionsBySid, preAuth, browser, provider, history>>

\* Broken variant: the copy read before the lock is used.
ReloadSkipped(r) ==
    /\ At(r, "reload") /\ Continue(r, [call[r] EXCEPT !.pc = "refresh"])

\* With the lock: a record that is gone is replaced by the copy.
Reload(r) ==
    /\ At(r, "reload")
    /\ LET c == call[r]
           rec == sessions[c.id]
           latest == [c EXCEPT !.gen = rec.gen, !.forced = FALSE]
       IN Continue(r,
            IF rec = Absent THEN [c EXCEPT !.pc = "refresh"]
            ELSE IF rec.age = "idle" THEN [c EXCEPT !.pc = "dropReload", !.ops = DestroyOps(c.id)]
            ELSE [latest EXCEPT !.pc = IF NeedsRefresh(c.id, rec.gen) THEN "refresh" ELSE "unlock"])

DropReload(r) ==
    /\ At(r, "dropReload") /\ Continue(r, [call[r] EXCEPT !.pc = "refresh"])

\* External: the token endpoint rotates the newest token and takes any other for stolen.
Rotate(s, g) ==
    /\ g = family[s].head /\ family[s].alive /\ g < MaxGen
    /\ family' = [family EXCEPT ![s].head = g + 1]

Refresh(r) ==
    /\ At(r, "refresh")
    /\ LET c == call[r]
           s == c.id
           newest == c.gen = family[s].head /\ family[s].alive IN
       \/ /\ newest /\ Rotate(s, c.gen) /\ marks' = marks /\ Well
          /\ Go(r, [c EXCEPT !.pc = "save", !.gen = @ + 1, !.forced = FALSE])
       \/ /\ ~newest /\ Well
          /\ family' = [family EXCEPT ![s].alive = FALSE]
          /\ marks' = marks \cup {m \in {<<"reuse", s>>} : family[s].alive}
          /\ Go(r, [c EXCEPT !.pc = "dropRejected", !.failed = TRUE, !.ops = DestroyOps(s)])
       \/ /\ Fault("lost") /\ (Rotate(s, c.gen) \/ family' = family)
          /\ marks' = marks \cup {<<"lost", s>>}
          /\ Go(r, [c EXCEPT !.pc = "unlock", !.failed = TRUE])
    /\ UNCHANGED <<stores, cookie, preAuthCookie, login, due, ended>>

\* A touch that has read the record and not yet written it is overlapped.
Save(r) ==
    /\ At(r, "save")
    /\ SaveSession(call[r].id, call[r].gen)
    /\ marks' = marks \cup {m \in {<<"overlap", call[r].id>>} :
                   \E q \in Req : call[q].pc = "touchSet" /\ call[q].id = call[r].id}
    /\ Go(r, [call[r] EXCEPT !.pc = "unlock"])
    /\ UNCHANGED <<sessionsBySid, preAuth, refreshLocks, browser, provider, ended>>

DropRejected(r) ==
    /\ At(r, "dropRejected") /\ Continue(r, [call[r] EXCEPT !.pc = "unlock"])

\* The lock has no owner: the finally clause deletes whatever is there.
Unlock(r) ==
    /\ At(r, "unlock")
    /\ refreshLocks' = refreshLocks \ {call[r].id}
    /\ IF call[r].failed THEN Reply(r, call[r])
                         ELSE Go(r, [call[r] EXCEPT !.pc = "fetch"])
    /\ UNCHANGED <<sessions, sessionsBySid, preAuth, browser, provider, history>>

\* Broken variant: the rounds are not counted.
WaitForever(r) ==
    /\ At(r, "wait")
    /\ LET rec == sessions[call[r].id]
       IN Continue(r,
            IF rec = Absent THEN Answer(call[r])
            ELSE IF rec.age = "idle" THEN [call[r] EXCEPT !.pc = "dropWait", !.ops = DestroyOps(call[r].id)]
            ELSE IF NeedsRefresh(call[r].id, rec.gen) THEN call[r]
            ELSE [call[r] EXCEPT !.pc = "fetch", !.gen = rec.gen])

\* One round of waitForRefresh: sleep, read, give up after the last.
Wait(r) ==
    /\ At(r, "wait")
    /\ LET c == call[r]
           rec == sessions[c.id]
       IN Continue(r,
            IF c.tries = MaxAttempts \/ rec = Absent THEN Answer(c)
            ELSE IF rec.age = "idle" THEN [c EXCEPT !.pc = "dropWait", !.ops = DestroyOps(c.id)]
            ELSE IF NeedsRefresh(c.id, rec.gen) THEN [c EXCEPT !.tries = @ + 1]
            ELSE [c EXCEPT !.pc = "fetch", !.gen = rec.gen, !.forced = FALSE, !.tries = 0])

DropWait(r) ==
    /\ At(r, "dropWait") /\ Finish(r, call[r])

\* apiFetch: an answer that the token has expired is tried once more, with accessTokenExpiresAt = 0.
Fetch(r) ==
    /\ At(r, "fetch")
    /\ \/ Reply(r, call[r]) /\ Well
       \/ /\ Fault("skew") /\ ~call[r].retried /\ call[r].gen < MaxGen
          /\ Go(r, [call[r] EXCEPT !.pc = "ensure", !.retried = TRUE, !.forced = TRUE])
    /\ UNCHANGED <<stores, cookie, preAuthCookie, login, provider, history>>

----------------------------------------------------------------------------
(***************************************************************************)
(* Time and failures.                                                      *)
(***************************************************************************)

\* A minute goes by without a touch, or half an hour.
Age(s) == \E age \in {"old", "idle"} :
    /\ Fault("time") /\ sessions[s] # Absent /\ sessions[s].age \notin {age, "idle"}
    /\ sessions' = [sessions EXCEPT ![s].age = age]
    /\ UNCHANGED <<sessionsBySid, preAuth, refreshLocks, cookie, preAuthCookie, login, provider, call, left, history>>

\* The newest access token comes within the refresh margin of its end.
TokenDue(s) ==
    /\ family[s].alive /\ due[s] <= family[s].head /\ due[s] < MaxGen
    /\ due' = [due EXCEPT ![s] = @ + 1]
    /\ UNCHANGED <<stores, browser, family, call, left, history>>

\* The lock outlives its ten seconds.
LockExpires(s) ==
    /\ Fault("lapse") /\ s \in refreshLocks
    /\ refreshLocks' = refreshLocks \ {s}
    /\ marks' = marks \cup {<<"lapse", s>>}
    /\ UNCHANGED <<sessions, sessionsBySid, preAuth, cookie, preAuthCookie, login, provider, call, left, ended>>

PreAuthExpires(s) ==
    /\ Fault("preAuth") /\ s \in preAuth /\ preAuth' = preAuth \ {s}
    /\ UNCHANGED <<sessions, sessionsBySid, refreshLocks, cookie, preAuthCookie, login, provider, call, left, history>>

\* A request breaks off: its process dies, or a command of the store fails.
Abort(r) ==
    /\ Fault("abort") /\ call[r] # Idle
    /\ Go(r, Idle)
    /\ marks' = marks \cup {<<"revived", o[2]>> : o \in {p \in call[r].ops : p[1] # "deleteSid"}}
                      \cup {m \in {<<"lost", call[r].id>>} : call[r].pc \in {"refresh", "save"}}
    /\ UNCHANGED <<stores, cookie, preAuthCookie, login, provider, ended>>

----------------------------------------------------------------------------
Step(r) ==
    \/ SetRecord(r) \/ AddToSid(r) \/ DeleteRecord(r) \/ RemoveFromSid(r) \/ DeleteSid(r)
    \/ LoadSession(r) \/ DropIdle(r) \/ TouchGet(r) \/ TouchSet(r)
    \/ DiscoveryFails(r) \/ SetPreAuth(r) \/ TakePreAuth(r) \/ ExchangeCode(r)
    \/ VerifyIdToken(r) \/ LoadExisting(r) \/ DropExisting(r) \/ Created(r)
    \/ RevokeAndDestroy(r) \/ CsrfMismatch(r) \/ DropLogout(r)
    \/ SidMembers(r) \/ DropSid(r) \/ Respond(r)
    \/ EnsureFresh(r) \/ Reload(r) \/ DropReload(r) \/ Refresh(r) \/ Save(r)
    \/ DropRejected(r) \/ Unlock(r) \/ Wait(r) \/ DropWait(r) \/ Fetch(r)

Next ==
    \/ \E r \in Req :
         \/ BeginLogin(r) \/ Callback(r) \/ ApiCall(r) \/ Logout(r) \/ Backchannel(r)
         \/ Step(r) \/ Abort(r)
    \/ \E s \in Session : Age(s) \/ TokenDue(s) \/ LockExpires(s) \/ PreAuthExpires(s)

Spec == Init /\ [][Next]_vars

\* A request that is being served goes on: every await of it comes back.
FairSpec == Spec /\ \A r \in Req : WF_vars(Step(r))

----------------------------------------------------------------------------
(***************************************************************************)
(* Properties.                                                             *)
(***************************************************************************)

\* A session that was logged out, rejected, too idle or replaced by a new login
\* stays gone, unless a request that had read it was still running: touchSession
\* and ensureFreshAccessToken write their copy back when the record is missing.
EndedIsFinal ==
    \A s \in ended : "revived" \notin Marked(s) => sessions[s] = Absent

\* A stored session nobody is creating or destroying is listed under its sid, so
\* a back-channel logout finds it; createSession and destroySession write the
\* record and the list in either order.  The stores keep their types meanwhile.
ListedWhileStored ==
    /\ TypeOK
    /\ \A s \in Session :
          /\ sessions[s] # Absent /\ "revived" \notin Marked(s)
          /\ \A r \in Req : \A o \in call[r].ops : o[2] # s
          => s \in sessionsBySid[SidOf[s]]

\* The web server never costs itself a family by sending a refresh token twice,
\* however requests overlap, as long as no lock lapsed, no answer was lost, no
\* touch overlapped a refresh and no session was revived.
ReuseNeedsFault ==
    \A s \in Session : "reuse" \in Marked(s) =>
        Marked(s) \cap {"lapse", "lost", "overlap", "revived"} # {}

\* However often the browser sends a callback, a code is redeemed once: the
\* pre-auth record is taken out in one command.
CodeSentOnce == \A s \in Session : "replay" \notin Marked(s)

\* A stored session never goes back to older tokens, with the same exceptions:
\* touchSession writes what it read, not what it was given.
TokensNeverRollBack ==
    [][\A s \in Session :
         /\ sessions[s] # Absent /\ sessions'[s] # Absent
         /\ sessions'[s].gen < sessions[s].gen
         => Marked(s) \cap {"lapse", "overlap", "revived"} # {}]_vars

\* Every request is answered or breaks off: those who wait for another's refresh
\* give up after REFRESH_WAIT_ATTEMPTS rounds.
EveryRequestEnds == \A r \in Req : call[r] # Idle ~> call[r] = Idle
=============================================================================
