------------------------------ MODULE Accounts ------------------------------
(***************************************************************************)
(* Accounts of the authorization server: the password login with its       *)
(* second factor, the authorization requests that wait for a login, the    *)
(* users table, and the invitation and removal of a service's members      *)
(* (apps/auth-api: usecases login, mfa, pending-authorization and          *)
(* service-members, routes login, authorize and admin).                    *)
(*                                                                         *)
(* Requests of several browsers and of a service run in several processes  *)
(* over one Redis, one PostgreSQL and Cognito.  Each awaited command is    *)
(* one action.  What follows a login in the session store (the new SSO     *)
(* session, the end of the previous one, the code it is answered with) is  *)
(* the subject of module SsoSessions and one step here.                    *)
(*                                                                         *)
(* What a call to Cognito may come to is in module Cognito.  An e-mail     *)
(* address is the mailbox it names in one of its spellings.                *)
(***************************************************************************)
EXTENDS Naturals, Sequences, FiniteSets, Cognito

CONSTANTS
    Req,           \* slots for requests running at the same time
    Person,        \* Cognito accounts, named by their sub
    Email,         \* spellings of e-mail addresses
    EmailOf,       \* the address of an account
    Lower,         \* lower(email)
    UserId,        \* ids of rows of users
    Pending,       \* mid: logins waiting for their second factor
    Rid,           \* authorization requests waiting for a login
    MaxAttempts,   \* MFA_MAX_ATTEMPTS
    MaxSecrets,    \* bound: TOTP secrets issued to a person
    MaxCalls,      \* bound: requests that arrive in a behaviour
    MaxFaults,     \* bound: how often something goes wrong in it
    Starts,        \* what the tables and stores hold when it begins
    NoSub, NoRid, NoUser, NoLogin, Absent

VARIABLES
    users,         \* PostgreSQL: users
    mfaMethods,    \* PostgreSQL: user_mfa_methods
    members,       \* PostgreSQL: tenant_service_members of one tenant and client
    mfaPending,    \* Redis: logins waiting for their second factor
    requests,      \* Redis: authorizationRequests
    cognito,       \* per account, its TOTP secrets
    challenges,    \* Cognito: open challenge sessions
    call,          \* the requests being served
    left, faults,  \* how many requests and faults may still come
    logins,        \* history: mids drawn, and for whom
    proved,        \* history: logins whose code Cognito accepted
    guesses,       \* history: wrong codes Cognito has seen for a challenge
    sessions,      \* history: users whose SSO session a login ended in
    answered,      \* history: how often an authorization request was resumed
    disturbed,     \* history: logins with two requests at once, or with one cut off
    raced          \* history: mailboxes two requests were about to insert

vars == <<users, mfaMethods, members, mfaPending, requests, cognito, challenges,
          call, left, faults, logins, proved, guesses, sessions, answered,
          disturbed, raced>>

tables   == <<users, mfaMethods, members>>
stores   == <<mfaPending, requests>>
provider == <<cognito, challenges>>
history  == <<logins, proved, guesses, sessions, answered, disturbed, raced>>

Subs    == Person \cup {NoSub}
Secrets == 0 .. MaxSecrets
Users   == [sub : Subs, email : Email, active : BOOLEAN]
MfaPending == [kind : {"totp_challenge", "totp_setup"}, person : Person,
               rid : Rid \cup {NoRid}, attempts : 0 .. MaxAttempts,
               secret : Secrets,     \* encryptedSecret, 0 for null
               aged : BOOLEAN]       \* the secret is past TOTP_SETUP_TTL_SECONDS
Points  == {"idle", "storeRequest", "csrf", "loadRequest", "authenticate", "storePending",
            "load", "respond", "bump", "dropFailed", "dropDone", "associate",
            "saveSetup", "verify", "enable", "bySub", "byEmail", "link", "create",
            "recordMethod", "createSession", "consume", "resume",
            "contract", "findInvited", "upsert", "findUser", "remove"}
Kinds   == {"none", "authorize", "login", "challenge", "begin", "setup", "invite", "revoke"}
Calls == [pc : Points, kind : Kinds, mid : Pending \cup {NoLogin},
          rid : Rid \cup {NoRid}, sub : Subs, email : Email,
          code : Secrets, renew : BOOLEAN,
          pending : MfaPending \cup {Absent},   \* the record it has read
          user : UserId \cup {NoUser}]

\* The rows a behaviour begins with are what earlier logins and invitations left:
\* one per mailbox, for they did not race, and one per account.
ASSUME AccountsAssumption ==
    /\ EmailOf \in [Person -> Email] /\ DOMAIN Lower = Email /\ Email # {}
    /\ MaxAttempts \in Nat \ {0} /\ MaxSecrets \in Nat \ {0}
    /\ MaxCalls \in Nat /\ MaxFaults \in Nat
    /\ NoSub \notin Person /\ NoRid \notin Rid /\ NoUser \notin UserId
    /\ NoLogin \notin Pending /\ Absent \notin Users /\ Absent \notin MfaPending
    /\ \A s \in Starts :
          /\ s.users \in [UserId -> Users \cup {Absent}]
          /\ \A u, v \in UserId : u # v /\ s.users[u] # Absent /\ s.users[v] # Absent =>
                /\ Lower[s.users[u].email] # Lower[s.users[v].email]
                /\ s.users[u].sub # s.users[v].sub \/ s.users[u].sub = NoSub
          /\ s.pending \in [Pending -> MfaPending \cup {Absent}]
          /\ \A p \in Pending : s.pending[p] # Absent => s.pending[p].attempts = 0
          /\ s.enrolled \subseteq Person

\* One type invariant: the tables, the stores and the requests keep their shape.
TypeOK ==
    /\ users \in [UserId -> Users \cup {Absent}]
    /\ mfaMethods \subseteq UserId /\ members \subseteq UserId
    /\ mfaPending \in [Pending -> MfaPending \cup {Absent}]
    /\ requests \subseteq Rid
    /\ cognito \in [Person -> [issued : Secrets, candidate : Secrets,
                               verified : Secrets, enrolled : Secrets]]
    /\ challenges \subseteq Pending
    /\ call \in [Req -> Calls]
    /\ left \in 0 .. MaxCalls /\ faults \in 0 .. MaxFaults
    /\ logins \in [Pending -> MfaPending \cup {Absent}]
    /\ proved \subseteq Pending /\ disturbed \subseteq Pending
    /\ guesses \in [Pending -> Nat]
    /\ sessions \in [Pending -> Seq(UserId)]
    /\ answered \in [Rid -> Nat]
    /\ raced \subseteq {Lower[e] : e \in Email}

Idle == [pc |-> "idle", kind |-> "none", mid |-> NoLogin, rid |-> NoRid, sub |-> NoSub,
         email |-> CHOOSE e \in Email : TRUE, code |-> 0, renew |-> FALSE,
         pending |-> Absent, user |-> NoUser]

\* A secret a pending login holds is the one Cognito has as its candidate.
Init == \E s \in Starts :
    /\ users = s.users /\ mfaPending = s.pending /\ logins = s.pending
    /\ mfaMethods = {u \in UserId : users[u] # Absent /\ users[u].sub \in s.enrolled}
    /\ members = {}
    /\ requests = {q \in Rid : \E p \in Pending : mfaPending[p] # Absent /\ mfaPending[p].rid = q}
    /\ cognito = [x \in Person |->
                    LET own == {mfaPending[p].secret : p \in
                                 {t \in Pending : mfaPending[t] # Absent /\ mfaPending[t].person = x}}
                        n == IF 1 \in own \/ x \in s.enrolled THEN 1 ELSE 0
                    IN NewAccount(n, x \in s.enrolled)]
    /\ challenges = {p \in Pending : mfaPending[p] # Absent /\ mfaPending[p].kind = "totp_challenge"}
    /\ call = [r \in Req |-> Idle] /\ left = MaxCalls /\ faults = MaxFaults
    /\ proved = {} /\ disturbed = {} /\ raced = {}
    /\ guesses = [p \in Pending |-> 0] /\ sessions = [p \in Pending |-> <<>>]
    /\ answered = [q \in Rid |-> 0]

At(r, p) == call[r].pc = p

\* Request r goes on as c; Finish: it is answered, or ends in an exception.
Go(r, c)       == call' = [call EXCEPT ![r] = c] /\ left' = left
Continue(r, c) == Go(r, c) /\ UNCHANGED <<tables, stores, provider, history>>
Finish(r)      == Continue(r, Idle)

Fault == faults > 0 /\ faults' = faults - 1
Well  == faults' = faults

\* An outcome of a call to Cognito, as long as faults are left for it.
Proceed(o) == IF o.fault THEN Fault ELSE Well

----------------------------------------------------------------------------
(***************************************************************************)
(* Arrivals.                                                               *)
(***************************************************************************)
Arrive(r, c) ==
    /\ call[r] = Idle /\ left > 0
    /\ call' = [call EXCEPT ![r] = c] /\ left' = left - 1
    /\ Well /\ UNCHANGED <<tables, stores, provider>>

Drawn == {p \in Pending : logins[p] # Absent}

\* GET /authorize of a browser without an SSO session.
Authorize(r) == \E q \in Rid :
    /\ q \notin requests /\ answered[q] = 0
    /\ \A t \in Req : call[t].rid # q
    /\ q \notin {logins[p].rid : p \in Drawn}
    /\ Arrive(r, [Idle EXCEPT !.pc = "storeRequest", !.kind = "authorize", !.rid = q])
    /\ UNCHANGED history

StorePendingAuthorization(r) ==
    /\ At(r, "storeRequest") /\ requests' = requests \cup {call[r].rid} /\ Go(r, Idle)
    /\ Well /\ UNCHANGED <<tables, mfaPending, provider, history>>

\* POST /login: from the portal (no rid) or for an authorization request.
PostLogin(r) == \E x \in Person, q \in requests \cup {NoRid} :
    /\ Arrive(r, [Idle EXCEPT !.pc = "csrf", !.kind = "login", !.sub = x, !.rid = q])
    /\ UNCHANGED history

\* Two requests for one login at a time disturb it.
ForLogin(r, p, c) ==
    /\ Arrive(r, [c EXCEPT !.mid = p])
    /\ disturbed' = disturbed \cup {t \in {p} : \E q \in Req : call[q].mid = p}
    /\ UNCHANGED <<logins, proved, guesses, sessions, answered, raced>>

\* GET /api/login/mfa-setup.
GetSetup(r) == \E p \in Drawn, renew \in BOOLEAN :
    ForLogin(r, p, [Idle EXCEPT !.pc = "load", !.kind = "begin", !.renew = renew])

\* POST /login/challenge and POST /login/mfa-setup, with a code of a secret
\* the person holds or with a wrong one.
PostCode(r) == \E p \in Drawn, k \in {"challenge", "setup"} :
    \E n \in 0 .. cognito[logins[p].person].issued :
        ForLogin(r, p, [Idle EXCEPT !.pc = "csrf", !.kind = k, !.code = n])

InviteServiceMember(r) == \E e \in Email :
    /\ Arrive(r, [Idle EXCEPT !.pc = "contract", !.kind = "invite", !.email = e])
    /\ UNCHANGED history

RevokeServiceMember(r) == \E u \in UserId :
    /\ Arrive(r, [Idle EXCEPT !.pc = "contract", !.kind = "revoke", !.user = u])
    /\ UNCHANGED history

\* rejectInvalidCsrf, the first step of every form.
CheckCsrf(r) == /\ At(r, "csrf") /\ Well
                /\ \/ Continue(r, [call[r] EXCEPT !.pc = IF call[r].kind = "login"
                                                        THEN "loadRequest" ELSE "load"])
                   \/ Finish(r)

----------------------------------------------------------------------------
(***************************************************************************)
(* login.ts: the password, and the record that waits for the second        *)
(* factor.                                                                 *)
(***************************************************************************)
LoadPendingAuthorization(r) ==
    /\ At(r, "loadRequest") /\ Well
    /\ IF call[r].rid \in requests \cup {NoRid}
       THEN Continue(r, [call[r] EXCEPT !.pc = "authenticate"])
       ELSE Finish(r)

\* Every error ends the request: the login page is shown again.
Authenticate(r) ==
    /\ At(r, "authenticate")
    /\ \E o \in AuthenticateOutcomes(cognito[call[r].sub]) :
        /\ Proceed(o)
        /\ IF o.answer \notin {"totp_required", "authenticated"} THEN Finish(r)
           ELSE Continue(r, [call[r] EXCEPT !.pc = "storePending", !.sub = NoSub, !.rid = NoRid,
                  !.pending = [kind |-> IF o.answer = "totp_required" THEN "totp_challenge"
                                        ELSE "totp_setup",
                               person |-> call[r].sub, rid |-> call[r].rid,
                               attempts |-> 0, secret |-> 0, aged |-> FALSE]])

\* Nobody knows the challenge session before its login is stored.
StorePending(r) == \E p \in Pending :
    /\ At(r, "storePending") /\ logins[p] = Absent
    /\ mfaPending' = [mfaPending EXCEPT ![p] = call[r].pending]
    /\ logins' = [logins EXCEPT ![p] = call[r].pending]
    /\ challenges' = challenges \cup {t \in {p} : call[r].pending.kind = "totp_challenge"}
    /\ Go(r, Idle) /\ Well
    /\ UNCHANGED <<tables, requests, cognito, proved, guesses, sessions, answered, disturbed, raced>>

----------------------------------------------------------------------------
(***************************************************************************)
(* mfa.ts.                                                                 *)
(***************************************************************************)
\* loadKind, and what each of the three handlers makes of the record.
LoadKind(r) ==
    /\ At(r, "load") /\ Well
    /\ LET c == call[r]
           rec == mfaPending[c.mid]
           kind == IF c.kind = "challenge" THEN "totp_challenge" ELSE "totp_setup"
           alive == rec.secret # 0 /\ ~rec.aged
           held(p) == Continue(r, [c EXCEPT !.pc = p, !.pending = rec])
       IN IF rec = Absent \/ rec.kind # kind THEN Finish(r)
          ELSE CASE c.kind = "challenge" -> held("respond")
                 [] c.kind = "begin" -> IF alive /\ ~c.renew THEN Finish(r) ELSE held("associate")
                 [] c.kind = "setup" -> IF alive THEN held("verify") ELSE Finish(r)

\* Broken variant: one more wrong code than the limit.
AfterMismatchLate(c) ==
    IF c.pending.attempts + 1 > MaxAttempts
    THEN [c EXCEPT !.pc = "dropFailed"]
    ELSE [c EXCEPT !.pc = "bump", !.pending.attempts = @ + 1]

\* Broken variant: no limit at all.
AfterMismatchUnlimited(c) == [c EXCEPT !.pc = "bump", !.pending.attempts = @ + 1]

AfterMismatch(c) ==
    IF c.pending.attempts + 1 >= MaxAttempts
    THEN [c EXCEPT !.pc = "dropFailed"]
    ELSE [c EXCEPT !.pc = "bump", !.pending.attempts = @ + 1]

\* A code Cognito accepts uses the challenge up even when the login fails after it.
RespondToTotp(r) ==
    /\ At(r, "respond")
    /\ LET c == call[r]
           x == c.pending.person
           open == c.mid \in challenges
           right == Matches(cognito[x], c.code)
       IN \E o \in RespondToTotpOutcomes(cognito[x], open, c.code) :
            /\ Proceed(o)
            /\ guesses' = IF open /\ ~right THEN [guesses EXCEPT ![c.mid] = @ + 1] ELSE guesses
            /\ challenges' = IF o.open THEN challenges ELSE challenges \ {c.mid}
            /\ proved' = IF o.answer = "authenticated" THEN proved \cup {c.mid} ELSE proved
            /\ Go(r, CASE o.answer = "authenticated" -> [c EXCEPT !.pc = "dropDone"]
                       [] o.answer = "code_mismatch" -> AfterMismatch(c)
                       [] OTHER -> [c EXCEPT !.pc = "dropFailed"])
            /\ UNCHANGED <<tables, stores, cognito, logins, sessions, answered, disturbed, raced>>

\* updatePending keeps the TTL and does not bring a deleted record back.
UpdatePending(r) ==
    /\ At(r, "bump") /\ Well
    /\ mfaPending' = [mfaPending EXCEPT ![call[r].mid] = IF @ = Absent THEN Absent ELSE call[r].pending]
    /\ Go(r, Idle)
    /\ UNCHANGED <<tables, requests, provider, history>>

\* deletePending: after an error the request is over, after a right code the
\* user is looked up.
DeletePending(r) ==
    /\ call[r].pc \in {"dropFailed", "dropDone"} /\ Well
    /\ mfaPending' = [mfaPending EXCEPT ![call[r].mid] = Absent]
    /\ Go(r, IF At(r, "dropFailed") THEN Idle
             ELSE [Idle EXCEPT !.pc = "bySub", !.kind = call[r].kind, !.mid = call[r].mid,
                               !.rid = call[r].pending.rid, !.sub = call[r].pending.person,
                               !.email = EmailOf[call[r].pending.person]])
    /\ UNCHANGED <<tables, requests, provider, history>>

\* With the answer lost the record keeps a secret that Cognito has replaced.
AssociateSoftwareToken(r) ==
    /\ At(r, "associate")
    /\ LET c == call[r]
           x == c.pending.person
       IN \E o \in AssociateOutcomes(cognito[x]) :
            /\ o.account.issued <= MaxSecrets /\ Proceed(o)
            /\ cognito' = [cognito EXCEPT ![x] = o.account]
            /\ Go(r, IF o.answer # "secret" THEN Idle
                     ELSE [c EXCEPT !.pc = "saveSetup", !.pending.secret = o.account.issued,
                                    !.pending.aged = FALSE])
            /\ UNCHANGED <<tables, stores, challenges, history>>

\* savePending writes the record read at the start, whatever became of it since.
SavePending(r) ==
    /\ At(r, "saveSetup") /\ Well
    /\ mfaPending' = [mfaPending EXCEPT ![call[r].mid] = call[r].pending]
    /\ Go(r, Idle)
    /\ UNCHANGED <<tables, requests, provider, history>>

\* A wrong code leaves the record as it is.
VerifySoftwareToken(r) ==
    /\ At(r, "verify")
    /\ LET c == call[r]
           x == c.pending.person
       IN \E o \in VerifyOutcomes(cognito[x], c.code) :
            /\ Proceed(o)
            /\ cognito' = [cognito EXCEPT ![x] = o.account]
            /\ Go(r, CASE o.answer = "verified" -> [c EXCEPT !.pc = "enable"]
                       [] o.answer = "code_mismatch" -> Idle
                       [] OTHER -> [c EXCEPT !.pc = "dropFailed"])
            /\ UNCHANGED <<tables, stores, challenges, history>>

\* Broken variant: the login goes on although the authenticator was not enabled.
EnableTotpUnchecked(r) ==
    /\ At(r, "enable")
    /\ LET c == call[r]
           x == c.pending.person
       IN \E o \in EnableOutcomes(cognito[x]) :
            /\ Proceed(o)
            /\ cognito' = [cognito EXCEPT ![x] = o.account]
            /\ proved' = IF o.answer = "enabled" THEN proved \cup {c.mid} ELSE proved
            /\ Go(r, [c EXCEPT !.pc = "dropDone"])
            /\ UNCHANGED <<tables, stores, challenges, logins, guesses, sessions, answered, disturbed, raced>>

EnableTotp(r) ==
    /\ At(r, "enable")
    /\ LET c == call[r]
           x == c.pending.person
       IN \E o \in EnableOutcomes(cognito[x]) :
            /\ Proceed(o)
            /\ cognito' = [cognito EXCEPT ![x] = o.account]
            /\ proved' = IF o.answer = "enabled" THEN proved \cup {c.mid} ELSE proved
            /\ Go(r, [c EXCEPT !.pc = IF o.answer = "enabled" THEN "dropDone" ELSE "dropFailed"])
            /\ UNCHANGED <<tables, stores, challenges, logins, guesses, sessions, answered, disturbed, raced>>

----------------------------------------------------------------------------
(***************************************************************************)
(* The users table: what login and invitation share.                       *)
(***************************************************************************)
Rows == {u \in UserId : users[u] # Absent}

\* Broken variant: addresses are compared as they are spelled.
ByEmailSpelled(e) == {u \in Rows : users[u].email = e}

BySub(x)   == {u \in Rows : users[u].sub = x}
ByEmail(e) == {u \in Rows : Lower[users[u].email] = Lower[e]}

\* finishLogin goes on with an active user only.
Resolved(c, u, active) == IF active THEN [c EXCEPT !.pc = "recordMethod", !.user = u] ELSE Idle

FindUserByCognitoSub(r) ==
    /\ At(r, "bySub") /\ Well
    /\ IF BySub(call[r].sub) = {}
       THEN Continue(r, [call[r] EXCEPT !.pc = "byEmail"])
       ELSE \E u \in BySub(call[r].sub) : Continue(r, Resolved(call[r], u, users[u].active))

\* A row of another account is left alone, and its user counts as disabled.
\* Of two rows the first that PostgreSQL returns is taken.
FindUserByEmail(r) ==
    /\ At(r, "byEmail") /\ Well
    /\ IF ByEmail(call[r].email) = {}
       THEN Continue(r, [call[r] EXCEPT !.pc = "create"])
       ELSE \E u \in ByEmail(call[r].email) :
               IF users[u].sub # NoSub THEN Finish(r)
               ELSE Continue(r, [call[r] EXCEPT !.pc = "link", !.user = u])

\* Broken variant: the update does not ask for an unlinked row.
LinkCognitoSubAnyRow(r) ==
    /\ At(r, "link") /\ Well
    /\ LET u == call[r].user
           x == call[r].sub
       IN IF BySub(x) # {} THEN Finish(r)
          ELSE /\ users' = [users EXCEPT ![u].sub = x]
               /\ Go(r, Resolved(call[r], u, users[u].active))
               /\ UNCHANGED <<mfaMethods, members, stores, provider, history>>

\* The row may have been linked meanwhile, or the sub given to another row: an exception.
LinkCognitoSub(r) ==
    /\ At(r, "link") /\ Well
    /\ LET u == call[r].user
           x == call[r].sub
       IN IF users[u].sub # NoSub \/ BySub(x) # {} THEN Finish(r)
          ELSE /\ users' = [users EXCEPT ![u].sub = x]
               /\ Go(r, Resolved(call[r], u, users[u].active))
               /\ UNCHANGED <<mfaMethods, members, stores, provider, history>>

\* createUser, for a first login or an invitation (no sub).  email and
\* cognito_sub are UNIQUE as they are spelled: a duplicate is an exception.
CreateUser(r) ==
    /\ At(r, "create") /\ Well
    /\ LET c == call[r]
           rivals == {t \in Req \ {r} : call[t].pc = "create" /\ Lower[call[t].email] = Lower[c.email]}
       IN IF \E u \in Rows : users[u].email = c.email \/ (c.sub # NoSub /\ users[u].sub = c.sub)
          THEN Finish(r)
          ELSE \E u \in UserId \ Rows :
            /\ users' = [users EXCEPT ![u] = [sub |-> c.sub, email |-> c.email, active |-> TRUE]]
            /\ raced' = raced \cup {Lower[call[t].email] : t \in rivals}
            /\ Go(r, IF c.kind = "invite" THEN [c EXCEPT !.pc = "upsert", !.user = u]
                     ELSE Resolved(c, u, TRUE))
            /\ UNCHANGED <<mfaMethods, members, stores, provider, logins, proved, guesses,
                           sessions, answered, disturbed>>

----------------------------------------------------------------------------
(***************************************************************************)
(* finishLogin, and finish of routes/login.ts.                             *)
(***************************************************************************)
RecordMfaMethod(r) ==
    /\ At(r, "recordMethod") /\ Well
    /\ mfaMethods' = mfaMethods \cup {call[r].user}
    /\ Go(r, [call[r] EXCEPT !.pc = "createSession"])
    /\ UNCHANGED <<users, members, stores, provider, history>>

\* createSsoSession, then the end of the browser's previous session and its cookie.
CreateSsoSession(r) ==
    /\ At(r, "createSession") /\ Well
    /\ sessions' = [sessions EXCEPT ![call[r].mid] = Append(@, call[r].user)]
    /\ Go(r, IF call[r].rid = NoRid THEN Idle ELSE [call[r] EXCEPT !.pc = "consume"])
    /\ UNCHANGED <<tables, stores, provider, logins, proved, guesses, answered, disturbed, raced>>

\* Broken variant: the request is read and stays.
ConsumeKept(r) ==
    /\ At(r, "consume") /\ Well
    /\ IF call[r].rid \in requests
       THEN Continue(r, [call[r] EXCEPT !.pc = "resume"])
       ELSE Finish(r)

\* GETDEL: of two logins for one request the second goes to the portal.
ConsumePendingAuthorization(r) ==
    /\ At(r, "consume") /\ Well
    /\ IF call[r].rid \in requests
       THEN /\ requests' = requests \ {call[r].rid}
            /\ Go(r, [call[r] EXCEPT !.pc = "resume"])
            /\ UNCHANGED <<tables, mfaPending, provider, history>>
       ELSE Finish(r)

\* The client and the tenant are looked up again; with either gone the answer
\* is an error, otherwise what authorizeWithSession finds.
ResumePendingAuthorization(r) ==
    /\ At(r, "resume") /\ Well
    /\ answered' = [answered EXCEPT ![call[r].rid] = @ + 1]
    /\ Go(r, Idle)
    /\ UNCHANGED <<tables, stores, provider, logins, proved, guesses, sessions, disturbed, raced>>

----------------------------------------------------------------------------
(***************************************************************************)
(* service-members.ts.                                                     *)
(***************************************************************************)
\* The tenant exists and has a contract with the client, or not.
ResolveContractedTenant(r) ==
    /\ At(r, "contract") /\ Well
    /\ \/ Continue(r, [call[r] EXCEPT !.pc = IF call[r].kind = "invite" THEN "findInvited" ELSE "findUser"])
       \/ Finish(r)

FindInvited(r) ==
    /\ At(r, "findInvited") /\ Well
    /\ IF ByEmail(call[r].email) = {}
       THEN Continue(r, [call[r] EXCEPT !.pc = "create"])
       ELSE \E u \in ByEmail(call[r].email) : Continue(r, [call[r] EXCEPT !.pc = "upsert", !.user = u])

UpsertServiceMembership(r) ==
    /\ At(r, "upsert") /\ Well
    /\ members' = members \cup {call[r].user}
    /\ Go(r, Idle)
    /\ UNCHANGED <<users, mfaMethods, stores, provider, history>>

FindUserById(r) ==
    /\ At(r, "findUser") /\ Well
    /\ IF users[call[r].user] = Absent THEN Finish(r)
       ELSE Continue(r, [call[r] EXCEPT !.pc = "remove"])

\* removeServiceMembership; revokeClientAccess, which follows it, is in SsoSessions.
RemoveServiceMembership(r) ==
    /\ At(r, "remove") /\ Well
    /\ members' = members \ {call[r].user}
    /\ Go(r, Idle)
    /\ UNCHANGED <<users, mfaMethods, stores, provider, history>>

----------------------------------------------------------------------------
(***************************************************************************)
(* Time and failures.                                                      *)
(***************************************************************************)
\* A record's TTL, the lifetime of Cognito's challenge, the age of a secret.
PendingLapses == \E p \in Pending :
    /\ Fault /\ mfaPending[p] # Absent
    /\ mfaPending' = [mfaPending EXCEPT ![p] = Absent]
    /\ UNCHANGED <<tables, requests, provider, call, left, history>>

RequestLapses == \E q \in requests :
    /\ Fault /\ requests' = requests \ {q}
    /\ UNCHANGED <<tables, mfaPending, provider, call, left, history>>

ChallengeLapses == \E p \in challenges :
    /\ Fault /\ challenges' = challenges \ {p}
    /\ UNCHANGED <<tables, stores, cognito, call, left, history>>

SecretAges == \E p \in Pending :
    /\ Fault /\ mfaPending[p] # Absent /\ mfaPending[p].secret # 0 /\ ~mfaPending[p].aged
    /\ mfaPending' = [mfaPending EXCEPT ![p].aged = TRUE]
    /\ UNCHANGED <<tables, requests, provider, call, left, history>>

\* The process dies, or a command of the request throws.
Abort(r) ==
    /\ call[r] # Idle /\ Fault /\ Go(r, Idle)
    /\ disturbed' = disturbed \cup ({call[r].mid} \cap Pending)
    /\ UNCHANGED <<tables, stores, provider, logins, proved, guesses, sessions, answered, raced>>

Step(r) ==
    \/ Authorize(r) \/ StorePendingAuthorization(r) \/ PostLogin(r) \/ GetSetup(r) \/ PostCode(r)
    \/ InviteServiceMember(r) \/ RevokeServiceMember(r) \/ CheckCsrf(r)
    \/ LoadPendingAuthorization(r) \/ Authenticate(r) \/ StorePending(r)
    \/ LoadKind(r) \/ RespondToTotp(r) \/ UpdatePending(r) \/ DeletePending(r)
    \/ AssociateSoftwareToken(r) \/ SavePending(r) \/ VerifySoftwareToken(r) \/ EnableTotp(r)
    \/ FindUserByCognitoSub(r) \/ FindUserByEmail(r) \/ LinkCognitoSub(r) \/ CreateUser(r)
    \/ RecordMfaMethod(r) \/ CreateSsoSession(r)
    \/ ConsumePendingAuthorization(r) \/ ResumePendingAuthorization(r)
    \/ ResolveContractedTenant(r) \/ FindInvited(r) \/ UpsertServiceMembership(r)
    \/ FindUserById(r) \/ RemoveServiceMembership(r) \/ Abort(r)

Next == (\E r \in Req : Step(r))
        \/ PendingLapses \/ RequestLapses \/ ChallengeLapses \/ SecretAges

Spec == Init /\ [][Next]_vars

----------------------------------------------------------------------------
(***************************************************************************)
(* Properties.                                                             *)
(***************************************************************************)
\* An SSO session is earned (login.ts finishLogin, mfa.ts): it belongs to the row
\* linked to the account that logged in, the second factor is on record, and
\* Cognito accepted a code of that very login.  A challenge ends in one session
\* at most, even when its form is sent twice at once; an enrolment does so
\* unless two requests for it overlapped or one was cut off, because its record
\* is read and deleted in two steps and a renewal writes it back.
SessionsAreEarned == \A p \in Pending :
    /\ \A i \in DOMAIN sessions[p] :
          /\ p \in proved
          /\ users[sessions[p][i]].sub = logins[p].person
          /\ sessions[p][i] \in mfaMethods
    /\ Len(sessions[p]) > 1 => logins[p].kind = "totp_setup" /\ p \in disturbed

\* Wrong codes are counted (mfa.ts completeTotpChallenge): Cognito sees at most
\* MFA_MAX_ATTEMPTS of them for one login, and a login at rest has them all on
\* record, unless requests for it overlapped or one was cut off.
GuessesAreCounted == \A p \in Pending \ disturbed :
    /\ guesses[p] <= MaxAttempts
    /\ mfaPending[p] # Absent /\ (\A r \in Req : call[r].mid # p)
         => mfaPending[p].attempts = guesses[p]

\* One row per mailbox (login.ts resolveUser, service-members.ts): an invitation
\* and a first login find each other's row however the address is spelled.  Only
\* two insertions at the same time, spelled differently, may both succeed, since
\* the UNIQUE constraint of the table is on the spelling.
OneRowPerMailbox == \A u, v \in Rows :
    u # v /\ Lower[users[u].email] = Lower[users[v].email] => Lower[users[u].email] \in raced

\* A row's link to an account is for good (pg-identity-repository.ts
\* linkCognitoSub): no row is ever given to another account or dropped, and no
\* account is ever linked to two rows, whichever logins race for an invited row.
LinkIsForever ==
    [][/\ \A u \in UserId : users[u] # Absent /\ users[u].sub # NoSub => users'[u] = users[u]
       /\ \A u, v \in UserId : u # v /\ users'[u] # Absent /\ users'[v] # Absent
                                  => users'[u].sub # users'[v].sub \/ users'[u].sub = NoSub]_vars

\* An authorization request is answered once (login.ts finish,
\* consumePendingAuthorization), in however many tabs it is logged in for.
AnsweredOnce == \A q \in Rid : answered[q] <= 1 /\ (q \in requests => answered[q] = 0)
=============================================================================
