# Verification of the multi-domain SSO system

TLA+ specifications, TLC models and TLAPS proofs for the system in `src/`: an
OpenID Connect provider (`apps/auth-api`, with the pages of `apps/auth-web`), the
backends-for-frontend (BFFs) of two services (`apps/crm-web`, `apps/cms-web` on
`packages/oidc-client` and `packages/web-core`) and their resource APIs
(`apps/crm-api`, `apps/cms-api` on `packages/api-core`). All are Node processes,
possibly several of each, that share state only through Redis and Postgres and talk
HTTP.

`PROJECT.json` lists components, runs, the lines each definition stands for,
mutants, findings, hazards and theorems. This file explains them.

## 1. Inventory

### Parts, state and operations

| Part | State | Operations that change it | Module |
|---|---|---|---|
| Token endpoint (`usecases/token.ts`, `refresh-tokens.ts`) | Redis: `authorizationCodes`, `refreshTokens`, `refreshTokenFamilies`, `sidRefreshFamilies` | exchange a code, rotate a refresh token, detect reuse and replay, `POST /oauth/revoke`, revoke a family | `TokenEndpoint`, `TokenFamily` |
| SSO sessions (`sso-session.ts`, `authorize.ts`) | Redis: `ssoSessions`, `sidIndex`; Postgres: `auth_sessions`, `auth_session_clients` | create, touch, destroy; issue a code; replace the previous session at a new login | `SsoSessions` |
| Logout and revocation (`global-logout.ts`, routes `logout`, `sessions`) | the above, and logout tokens sent to services | global logout, revocation from the portal, selective revocation for one member of one service and tenant | `SsoSessions` |
| Login and MFA (`login.ts`, `mfa.ts`, `pending-authorization.ts`) | Redis: `mfaPending`, `authorizationRequests`, CSRF records; Postgres: `users`, `user_mfa_methods`; Cognito | password step, TOTP challenge, TOTP set-up and renewal, linking or creating the user, resuming the parked request | `Accounts`, `Cognito` |
| Service membership (`service-members.ts`) | Postgres: `tenant_service_members`, `users` | invite, remove | `Accounts`, `SsoSessions` |
| TOTP set-up page (`mfa-setup.route.tsx`) | per tab: secret shown, countdown, error | show, count down, renew, submit | `MfaSetupPage` |
| BFF sessions (`oidc-client/session.ts`, `routes.ts`, `middleware.ts`) | Redis: `sessions`, `sessionsBySid`, `preAuth`; cookies | login, callback, touch, tenant logout, back-channel logout | `TenantSessions` |
| BFF token refresh (`oidc-client/api-client.ts`) | Redis: `refreshLocks`, the tokens in a session | refresh under a lock, wait for another's refresh, forced refresh after a 401 | `TenantSessions` |
| Tenant of a sign-in (`web-core/config.ts`, `provider.ts`, `authorization-request.ts`, `issue-tokens.ts`, `redirect-template.ts`, `return-to.ts`) | the data bound to pre-auth record, code and tokens | resolve a host, validate a request, bind a code, verify claims | `SignIn` |
| Resource API (`api-core`, `crm-api`, `cms-api`) | Postgres of each service: members, overrides, records | first access, invite, change role, replace overrides, remove, write records | `ResourceApi` |
| Stores (`kv-store.ts`, `redis-store.ts`) | one key of a store | the calls of the three ports | `KvStores` |
| Repositories (`memory-*`, `pg-*`) | users, assignments, session rows, members | the calls of the ports | `Repositories` |
| Key cache (`jwks.ts`) | per process: cached keys, times, request in flight | verify, forced fetch | `JwksCache` |
| Provisioning (`tools/provision`) | roles, tables and seed rows of three databases | one run, statement by statement | `Provision` |
| Members page (`web-ui/features/members`) | editor, selection, writes under way | open, choose, save, change role, remove, invite | `MembersConsole` |

### How the parts interact

A browser without a service session is sent by the BFF to `/authorize`. With an SSO
session, `/authorize` checks the membership, stores a code and records the service
on the session; without one it parks the request and the browser logs in first. The
BFF's callback exchanges the code, which starts a refresh-token family, and creates
a BFF session. The BFF refreshes the access token as it runs out, and each refresh
asks again for session, user, tenant and membership. Logout at the provider revokes
the families listed under the sid, deletes the session and sends each recorded
service a logout token; the service deletes its sessions of that sid. The resource
API's member administration calls the provider's admin API, which changes the
membership and cuts the access that depends on it.

### What is hard

* Every `await` lets any other request of any process run. Read-modify-write over
  Redis is nowhere protected except by GETDEL (codes, refresh tokens, parked
  requests, pre-auth records) and by the BFF's refresh lock; Postgres is used at READ
  COMMITTED, mostly one statement at a time, with UNIQUE constraints as the last word.
* The commands of a `Promise.all` run in either order, and a handler may stop with
  any subset of them done.
* One logical change spans Redis, Postgres, Cognito and other services. There is no
  transaction over them; order is the only protection.
* Records come back: several handlers write back a whole record they read earlier.
* Keys run out by themselves (TTL), the refresh lock included.
* Calls to services may never be answered, or be answered after they took effect.
* Tests run on in-memory stores and repositories that are not the production ones.

`hazards` lists these at their lines, with the properties that catch them.

### What makes each part correct

* Token endpoint: one grant per code and per token; one exchangeable token per
  family; revocation reaches every token a client holds; nothing dead comes back.
* Sessions and logout: after a logout neither session nor token nor service session
  is usable; a listed session can be revoked; every request ends.
* Membership: removal cuts what it names, at once, and nothing else.
* Login: a session is earned by a password and a code of that very login; wrong codes
  are counted; a person has one row, linked for good; a parked request is answered once.
* BFF: an ended session stays ended; tokens never go back; a refresh token is not sent
  twice; a notice finds every session.
* Sign-in: what begins on a tenant's host ends there.
* Resource API: a member has the role and the overrides an administrator gave last;
  nothing is done that was not permitted; the two servers agree.
* Surroundings: what tests run on behaves like what production runs on; keys follow a
  rotation; provisioning converges; a save changes only what was chosen.

## 2. Modules

| Module | Stands for | Proofs |
|---|---|---|
| `TokenEndpoint`, `MCTokenEndpoint` | `token.ts`, `refresh-tokens.ts` at the grain of single Redis commands | `TokenEndpointProofs` |
| `TokenFamily` | what a refresh-token family promises, abstractly | `TokenEndpointProofs` |
| `SsoSessions`, `MCSsoSessions` | sessions, `/authorize`, logout, portal, removal of members, notices | `SsoSessionsProofs` |
| `TenantSessions`, `MCTenantSessions` | sessions of a BFF and its token refresh | `TenantSessionsProofs` |
| `Accounts`, `Cognito`, `MCAccounts` | login with its second factor, users, invitations; what Cognito answers | `AccountsProofs` |
| `MfaSetupPage` | the page that shows the QR code, next to the server's renewal | `MfaSetupPageProofs` |
| `SignIn`, `MCSignIn` | hosts, URIs, codes, claims and doors of a sign-in | `SignInProofs` |
| `ResourceApi`, `MCResourceApi` | tenant context, members, permissions, records | `ResourceApiProofs` |
| `KvStores`, `Repositories`, `JwksCache`, `Provision`, `MembersConsole`, `MCSurroundings` | the parts around the protocol | `SurroundingsProofs` |

### Conventions

A request is a slot `r \in Req` with a program point. One action is one awaited
command and the synchronous code up to the next await. What a later line reads from
an earlier await is local to the request (variables indexed by `r` in the two oldest
modules, the record `call[r]` in the others). Properties speak of history variables
(named *history* at their declaration) only to know what already happened; no action
of the program is guarded by one (`Repositories` alone stops a comparison when the
two sides have come apart). An action named *Broken variant* is a plausible mistake
in the definition below it and takes no part in `Next`: each property is shown to
fail when the definition is replaced by one.

Where the code gives no guarantee in some overlap or after some fault, a history
variable records that very event at the step where it happens, and the property
excludes it. So each property names the complete list of ways in which the code can
go wrong; TLC shows that there is no other.

Modules that share no state and are checked together form a *sum*: a variable `part`
chooses one of them at the start, the others stay as they begin. Where they have
symmetric sets these take the same model values, so that one permutation acts on all.

### TokenEndpoint

State: the four stores. A stored token record carries a status and fields fixed at
its creation, so `refreshTokens` keeps the status and `familyOf`, `origin` the rest.
A family id is drawn with the first token, whose name it shares. `holder` says which
client a token was *sent* to, `parent` which token it was rotated from.

Actions follow the handlers: `ExchangeCode` (GETDEL, binding checks), `ExchangeLoad`
(session, user, tenant), `CreateStore`, `CreateIndexFamily` / `CreateIndexSid` (the
two adds of a `Promise.all`), `Remember` (used record, reply); `Consume` (GETDEL),
`ReuseWriteBack`, `RotateWriteBack`, `RefreshSession`, `RefreshAccess`,
`RotateStore`, `RotateIndex` (reply); `RevokeMembers`, `RevokeGet`, `RevokeSet`,
`RevokeDone`; `ReplayRemember`; `RevokeToken` (RFC 7009); `RevokeListed` and
`ForgetSid` (how logout uses the families); expiry of each store's keys (`KeyGoes`); `Abort`
(the process stops or a command is rejected) at every point.

What the session store and the database answer is an input: at every check the
request may be refused. `SsoSessions` makes those answers precise.

### TokenFamily and refinement

A family is `none`, `live`, `spent` or `dead`; it opens with its first token, its
head is spent, a spent family is renewed with a fresh head, and it closes from
`live` or `spent`. `ImplementsTokenFamily` maps the stores to it (a family is live
when it has an active record, spent while the request that took the record can still
store its successor). TLC checks that every step of `TokenEndpoint` is a step of
`TokenFamily` or leaves its state alone.

### SsoSessions

State: `ssoSessions`, `sidIndex`, `sidRefreshFamilies`, `codes`, `family` in Redis;
the row (`authSessions`), its services (`sessionClients`) and `serviceMembers` in
Postgres; `tenantSessions` in the BFFs; the cookies handed out. A refresh-token
family is kept as coarsely as `TokenFamily` keeps it, plus whether it is listed.

A request at a `Promise.all` has the set of its outstanding commands (`ops`,
`listing`, `families`, `seen`, `notices`); each is an action, and the *resume*
actions (`Previous`, `Finish`, `Allowed`, `CodeSet`, `Store`, `ListFamilies`,
`Killed`, `Revoked`, ...) run the code after the await. `Login` is the end of a
login (`createSsoSession` and `finish`); `Authorize`, `Exchange`, `Refresh`,
`Logout`, `PortalRevoke`, `RemoveServiceMember` are the requests;
`InviteServiceMember` gives the membership back. `Scopes` lists the situations of an
instance; a behaviour is in one of them, which says which requests arrive, which
faults happen (sessions idling out, requests breaking off) and how many sessions and
codes there are.

Abstractions. A session record, its cookie and its sid are drawn together and share
a name. Absolute lifetime is the keys' TTL; behaviours are followed up to it. The
status of user, tenant and contract is a refusal that may happen at a check.
Revocation of the Cognito token, audit records, CSRF and environment tracking are
left out: nothing the properties speak of reads them. A rejected command ends the
handler at once; the commands of the same `Promise.all` that still take effect are
those that took effect before it. A revocation that has read a family whose token is
then consumed does not reach the successor (the race `TokenEndpoint` shows), so
`seen` loses it.

### TenantSessions

One browser at one tenant of a service, several tabs, several processes, one Redis.
State: `sessions`, `sessionsBySid`, `preAuth`, `refreshLocks`, the browser's two
cookies, and the authorization server's side of each session as `TokenFamily` has it
(newest generation, alive). A login, its pre-auth record, the code it is answered
with and the session it ends in are drawn one for one and share a name.

Requests: `BeginLogin` (`/auth/login`), `Callback`, `ApiCall` (an API call of a page,
or `/auth/session`), `Logout`, `Backchannel`. Their steps: `LoadSession`, `DropIdle`,
`TouchGet`, `TouchSet` (the middleware); `SetPreAuth`; `TakePreAuth`, `ExchangeCode`,
`VerifyIdToken`, `LoadExisting`, `DropExisting`, `Created`; `RevokeAndDestroy`,
`DropLogout`; `SidMembers`, `DropSid`; `EnsureFresh`, `Reload`, `Refresh`, `Save`,
`DropRejected`, `Unlock`, `Wait`, `Fetch` (`api-client.ts`). The commands of a
`Promise.all` (`SetRecord`, `AddToSid`, `DeleteRecord`, `RemoveFromSid`, `DeleteSid`)
are taken in either order. Faults: a lock lapses, a call or its answer is lost, a
request breaks off, time passes (sessions grow old and idle, tokens come due), clocks
disagree, a pre-auth record runs out.

Marks on a session name what the properties except. *revived*: a request that might
still write the session was running when it was deleted, or its deletion broke off;
*lapse*: its lock ran out; *lost*: a refresh may have happened without its answer
being stored; *overlap*: a touch was between its GET and its SET when a refresh was
saved. The first and the last are the two ways in which the code, without any fault,
loses what it stored.

### Accounts, Cognito, MfaSetupPage

`Accounts` has the tables `users`, `user_mfa_methods` and `tenant_service_members`
(of one tenant and service), the stores `mfaPending` and `authorizationRequests`, and
Cognito's accounts and open challenges. An e-mail address is a mailbox in one of its
spellings, because `lower(email)` finds what UNIQUE does not forbid. Requests:
`Authorize` (parks a request), `PostLogin`, `GetSetup`, `PostCode` (challenge or
confirmation of a set-up), `InviteServiceMember`, `RevokeServiceMember`; their steps
carry the names of the functions they await. Records, parked requests and challenges
run out; secrets age; requests break off at any point. Session creation and the code
are one step here, and `SsoSessions` in detail.

`Cognito` defines, for each call, the set of outcomes (answer, account, challenge):
the adapter's mapping of errors, an answer lost before or after the service acted,
and an ID token that cannot be verified after the code was used up.

*disturbed* is a login with two requests at once or one cut off; *raced* a mailbox
for which two requests were about to insert at the same time.

`MfaSetupPage` has the page's countdown, effect, image and error state for several
tabs, next to the server's renewal in its three steps (load, associate at Cognito,
save), with clocks that disagree and a countdown that lags in a sleeping tab. *upset*
is a tab whose setup another tab's or an overlapping request may have replaced, or a
renewal cut off between Cognito and the store (*torn*); *late* a renewed secret past
its time by the browser's clock when it came.

### SignIn

The protocol modules leave out what a request *says*; `SignIn` is about that. A text
is a sequence of pieces. Hosts are resolved (`ResolveClient`, which lower-cases),
URIs matched against the template of the client's row (`MatchRedirectUriTemplate`,
which does not), queries validated, codes bound to client, redirect URI, challenge,
nonce, tenant and user, the client's secret compared with the hashes on record after
the encoding of a Basic header, tokens issued and verified at four doors (ID token,
back-channel, API, userinfo) and the return path sanitised. A code remembers the SSO
session it was drawn under, named by the sign-in whose login made it, and its *fate*:
stored, expired, used, or refused (`GETDEL` takes a code that is then refused).
`ExchangeAuthorizationCode` refuses in the order of the code, the session's end
included; it reads the code as it was before the step. Two sign-ins are under way in
two browsers; the query of one may be altered in every field, answers may be opened in
the other browser or at the other service, records and codes run out, an SSO session
ends or is replaced by a login in another tab, a client is retired. The steps of a
request are taken together: the other modules interleave them.

`SignInStaysInItsTenant` is a conjunction: answers go to registered URIs only; each
host a BFF serves for a known tenant is one `/authorize` accepts; a session is in the
browser, host, tenant and service that asked; once the state has matched, the code is
refused only if it ran out before it was sent or the SSO session it was drawn under has
ended, and the client is unknown only if it is retired or its secret not registered; each
door accepts exactly the tokens meant for it. Whoever logs in again in another tab while
a code is on its way back is sent to log in once more: the exchange asks for the session
the login has just replaced.

### ResourceApi

One tenant of one service: members, overrides and records in Postgres, and of the
authorization server the assignments and who may still hold an access token.
`FindMember`, `FindOverrides`, `CreateDefaultMember` are the tenant context of every
request; then the endpoint: invite (`AuthAdminInvite`, `UpsertInvited`), role
(`FindTarget`, `ChangeMemberRole`), overrides (`DeleteOverrides`, `InsertOverrides`,
with the row locks of READ COMMITTED), remove (`AuthAdminRevoke`, `RemoveMember`),
and create, update, delete of a record. A call to the authorization server may take
effect without an answer; a request may break off at any point.

*overlapped* records, per person, that a row was written by a request that had read it
before another's write, that two replacements of a list overlapped, or that something
stopped between the two servers.

### The surroundings

* `KvStores` makes every call of the three store ports on the in-memory and on the
  Redis implementation at once, in half seconds. *Lag* is the second in which the
  former has run out and the latter not; *strayed* and *lagging* say that a call was
  made in it.
* `Repositories` does the same with the repositories, one port at a time, with the
  constraints of the schema. *lenient*: the in-memory class accepted what the schema
  forbids.
* `JwksCache` has one source shared by several verifications: cache, throttle, the
  request in flight, the kept discovery document; the publisher changes its key.
  *failed*, *late*, *overtook* name the fetches that excuse a refusal.
* `Provision` runs the task statement by statement, stopped anywhere, run again with
  another secret, while people invite, log in, withdraw and empty a service and the
  Cognito pool is made anew. `Unrepairable` lists the states that need a person.
* `MembersConsole` has the editor React keeps mounted, the shared pending flag, the
  writes under way and another administrator's saves. *carried*: the editor was
  mounted for another member, or for another reading of this one; a row's version
  tells whether it changed meanwhile.

## 3. Runs

| Run | Instance | Result |
|---|---|---|
| `token_endpoint` | 2 requests, 2 clients, 1 code, 3 tokens; codes and tokens expire; aborts | passes: 237 thousand states |
| `sign_in` | sum: two sign-ins over two services, seven hosts each, six return paths; and the token endpoint with all four stores expiring, 2 tokens | passes: 699 thousand states |
| `sso_sessions` | 1 session, 1 code; login, authorize, exchange, refresh, logout; aborts; fairness | passes: 222 thousand states |
| `relogin_removal` | 2 sessions with login, authorize, portal and idling out; or 1 session, 2 tenants with a code each, with login, authorize, exchange, refresh, remove, invite | passes: 700 thousand states |
| `tenant_sessions` | 2 requests at a time, 3 in all, 2 sessions of one sid, one refresh each, one fault; fairness | passes: 257 thousand states |
| `accounts` | sum: 2 accounts sharing a mailbox, 2 rows, 2 logins, 1 parked request, 2 requests at a time, 3 in all, one fault; and the set-up page with 2 tabs, 2 requests, 3 clock skews | passes: 1.92 million states |
| `resource_api` | 2 owners and a third person, 2 requests at a time, 3 in all, one fault | passes: 1.89 million states |
| `surroundings` | sum of the five modules above | passes: 1.53 million states |
| `simultaneous_refresh`, `revocation_race` | token endpoint, no expiry, no aborts | violated, see findings |
| `logout_race` | 1 session; login, authorize, logout | violated, see findings |
| `late_exchange` | 1 session; login, exchange, remove | violated, see findings |

### Bounds, and why they are enough

* Two requests at a time: every race found in the code is between two handlers, and a
  third only repeats one of them. `MaxCalls` = 3 lets two overlap and a third see
  what they left.
* `MaxFaults` = 1: what one fault leaves is what the properties are about; each
  handler tolerates or exhibits it by itself. `token_endpoint` and `sso_sessions` do
  not bound faults.
* `Token` bounds how often a family is rotated: with three, a token that has both a
  predecessor and a successor exists, which is what reuse needs. One code suffices
  because families of different codes share no record but the list of their session;
  the theorems hold for any number.
* Two sessions of one user are what a replaced login and a portal revocation need;
  two tenants of one service what selective removal needs, since the notice names only
  the session. (A session past its idle limit is passed over by a removal; its
  families cannot be refreshed any more, and that situation leaves idling out.)
* `TenantSessions`: one generation beyond the first is what a refresh presented twice
  and a token written back need; `REFRESH_WAIT_ATTEMPTS` is 1, since every round is alike.
* `Accounts`: `MFA_MAX_ATTEMPTS` is 2, the least at which a lost count differs from
  the limit; two secrets per person, so that one can replace another; the starts put
  the tables where three requests reach the interesting steps: nobody known, someone
  enrolling, two enrolling with one invited row, one enrolled, one disabled.
* `SignIn`: the slugs include capitals, a dot, dashes at the ends, a slug longer than
  the limit, a slug made of two, and none; the limit is 3 for 63. The session of one of
  the two sign-ins may end by itself (`Ending`), either's by the other's login; one of
  the reasons for denying access is drawn (`Reasons`), their page being the only
  difference.
* `ResourceApi`: the two starts have someone who loses a permission while using it and
  someone whose row is disabled or yet to be made.
* `KvStores`: lifetimes 0, 1, 2 over 3.5 seconds reach every order of two expiries.
  `JwksCache`: throttle 2 < lifetime 3 < clock 4 separates both limits from the
  rotation. `LastVersion` = 2 lets each row of `MembersConsole` be written twice: once
  for the list to be stale, again for the page to read a row that has moved on while
  the editor stays mounted. `MostTasks` = 1, a write of the page at a time; what
  overlapping ones do the theorem about it covers, for any number.

Symmetry is used for requests (and tokens, tabs, verifiers, members) in runs without
liveness. Except in `token_endpoint` and its two violation runs the deadlock check is
off: sids, codes, logins and calls are never drawn twice, so a bounded instance ends
with its last one.

### What the properties say

Token endpoint
* `AtMostOneActive`, `OneGrantPerCredential` – two presentations of a credential
  never both succeed, through aborts and expiry.
* `SentToItsClient` – presenting another's code or token never yields a token.
* `HeldTokenIsListed` – whatever a client could exchange is in the set revocation
  walks, though listing comes after storing and the set has its own TTL.
* `QuietRevocationKills` – a family revocation no rotation overlapped has killed
  the family when it returns. The exact complement of the finding `revocation_race`.
* `NeverRevived`, `DeadFamilyStaysDead` – no late write makes a token exchangeable
  again; once no client holds an exchangeable token of a family and no request is
  about to store one, that remains so.
* `ImplementsTokenFamily` – the refinement; `IInv` – the invariant of the proofs.

Sessions of the provider
* `RevokedRowMeansGone` – a row marked revoked is not misleading, because
  `markRevoked` comes after the deletion: a logout that breaks off stays listed.
* `QuietLogoutIsFinal` – a logout that no request using the session overlapped
  leaves no usable family and no service session, but where a notice was lost.
* `ReplacedSessionIsGone` – a new login ends the browser's previous session.
* `QuietRemovalCuts`, `RemovalIsSelective` – removal of a member, with no grant for
  it under way, cuts its access, and never anyone else's.
* `EveryRequestEnds` – see fairness.

BFF
* `EndedIsFinal` – a session logged out, rejected, too idle or replaced stays gone.
* `ListedWhileStored` – a back-channel logout finds every stored session.
* `ReuseNeedsFault` – the BFF does not cost itself a family by presenting a token
  twice; `TokensNeverRollBack` – a stored session never gets older tokens back.
* `CodeSentOnce` – a reloaded callback does not redeem its code again.
* `SignInStaysInItsTenant` – see `SignIn` above.

Login
* `SessionsAreEarned` – a session belongs to the row linked to the account, with the
  method on record and a code accepted for that login; a challenge ends in one session.
* `GuessesAreCounted` – Cognito sees at most the allowed number of wrong codes, and
  the record knows them all.
* `OneRowPerMailbox`, `LinkIsForever` – invitations and first logins meet in one row,
  and no row changes hands.
* `AnsweredOnce` – a parked request is resumed once.
* `ShownQrWorks` – while the page invites to scan, the code of its image is accepted,
  and a page at zero that waits for nothing says so.

Resource API
* `RolesAreMeant`, `OverridesAreReplaced` – what an administrator gave last is there.
* `GrantsWereHeld` – a request does only what its member was permitted at a moment
  since its row was read.
* `RowsAreBacked` – whoever has a row is assigned at the provider, unless a removal, an
  overlap or a request cut off between the two servers explains the difference.

Surroundings
* `StoresAgree`, `RepositoriesAgree` – stand-in and production answer alike.
* `KeysFollowRotation` – how long a new key may be refused and an old one accepted.
* `ProvisionConverges` – a run that finishes leaves what the seed says; one that fails
  was stopped or met a state that needs a person.
* `SaveTouchesOnlyEdits` – a save changes what was chosen by hand, unless the row, or
  the reading of it the page shows, has changed since the editor was mounted.

*Quiet* and *undisturbed* in `SsoSessions` are recorded at the step where another
request's overlapping use is visible; they exclude exactly the overlaps in which the
code gives no guarantee, which the violation runs exhibit.

### Fairness

Both `EveryRequestEnds` assume weak fairness of each request's own steps: a Node
process goes on with a request whose awaited command has completed, and Redis and
Postgres answer or reject. In `SsoSessions`, `NoticeLost` is among those steps because
`notifyClient` sets `AbortSignal.timeout` (global-logout.ts:151). In `TenantSessions`
a call to the authorization server or the API comes back with an answer or an error
(undici's own timeouts), and whoever waits for another's refresh gives up after
`REFRESH_WAIT_ATTEMPTS` rounds, whether or not the lock is ever released. That
services answer, that requests arrive, that requests break off, that locks lapse and
that sessions idle out is not assumed.

## 4. Findings

1. `simultaneous_refresh`: the losing one of two simultaneous presentations of a
   refresh token may find the `rotated` record and be taken for a reuse, which
   revokes the family. Design and a test say that the family survives.
2. `revocation_race`: a family revocation that reads the members before a rotation
   lists its token leaves the client with a working token.
3. `logout_race`: `touchSsoSession` brings back the session a logout has deleted,
   without its index entry, so that later revocations do not find it.
4. `late_exchange`: the exchange does not check the membership, so a code issued
   before a removal starts a family after it, usable until the first refresh.

Each is stated in `PROJECT.json` with the lines that say otherwise.

## 5. Proofs

Eight modules prove the properties of the runs for every value of the constants: any
number of requests, sessions, codes, tokens, users, tabs and members, any lifetimes
and any of the bounds. Each proof starts from the module's named assumption on its
constants alone. Those say that the tables given as constants relate the sets they are
about, that lifetimes and limits are naturals (of the right sign, in the right order),
that a *No…* or *Absent* value is not one of the values it stands against, and that
the tables an instance may start with are ones the schema admits. TLC evaluates them
on every instance.

Few of the properties are inductive. Each module states the invariant that is (`IInv`
or one per part), as a conjunction of named parts. The proof that steps preserve it has
a lemma per action, or per group of actions of one shape; *frame* lemmas say once which
actions cannot disturb which part.

**Token endpoint** (`TokenEndpointProofs`). That a family has at most one active token
rests on what the requests under way may still do:

* `RecordsInv` – families are chains; a token with a successor is not active;
* `CodesInv` – a code still in the store has no token; a used one names its family;
* `ExchangeInv` – a request that has taken a code is the only one to have it;
* `RotateInv` – a request that has taken an active token is alone in its family,
  in which nothing is active and the token has no successor;
* `IndexInv` – a token on its way to its client is that client's, and listed before
  it is sent;
* `RevokeInv`, `SidListInv` – revocations work on members of their family;
* `QuietInv` – a quiet revocation still has before it every token a client could use.

Most actions are `Tame`: they draw no token, make none active and take no active token
off its list; the few others (`Consume`, the two that store a token, the ones that send
it) are proved part by part. The action properties follow from `Lawful`, a statement
about single steps. The refinement `EndpointImplementsTokenFamily` needs one more
invariant, `HeadsInv`: each family has exactly one token that was not rotated into
another, so that the head the mapping chooses is well defined. Then a step only lets
records fade (the family stays or closes), consumes the head (spent), stores a token
(opened or renewed) or is a stutter: `FadeRefines`, `ConsumeRefines`, `StoreRefines`,
`TameRefines`. The runs `token_endpoint` and `sign_in` check `IInv` on instances.

**Sessions of the provider** (`SsoSessionsProofs`). The argument is an exclusion:
unless a session is *disturbed*, nobody ends it while another relies on it
(`ExclusionInv`). Under it: a login that has not handed its cookie over is alone with
its session (`FreshOf`); what a deletion has done by each point (`DeletionOf`,
`EndedOf`); each live family is listed, or in the hands of who ends the session
(`ListedOf`); each service session was, or will be, told or lost its notice (`ToldOf`);
a removal works on the member's own families (`SelectOf`) and a quiet one holds all of
them (`QuietOf`).

**Sessions of the BFFs** (`TenantSessionsProofs`). A session nobody has a cookie of is
untouched (`SecretOf`, `UnbornOf`); one that has ended is absent and nobody is left who
might write it, or it is marked revived (`Gone`); what a request's outstanding commands
say about the store (`CopyOf`); until it lapses the lock has one holder (`LockOf`), the
copies in flight are of the stored generation (`GenOf`) and the newest generation is
the stored one or the one about to be saved (`HeadOf`).

**Login** (`AccountsProofs`). What each request has in its hands at each point
(`Placed`, `Grounded`); per login, that the record is about it (`RecordOf`), counts the
wrong codes (`CountOf`), that a challenge, or an undisturbed enrolment, comes to one
session (`ChallengeOf`, `EnrolmentOf`) of the account that logged in (`EarnedOf`); who is
about to insert a row has found none for the mailbox, unless two raced (`RowsInv`); a
parked request about to be stored or answered is nowhere else (`RequestsInv`).

**Set-up page** (`MfaSetupPageProofs`). A request alone since it was sent carries the
secret Cognito associated last (`AskInv`); unless a renewal was torn or is being saved,
the record has that secret (`KeptInv`); what a tab nobody upset counts down, or is about
to be answered, is on record or its time is over (`Current` in `TabInv`); a form at zero
waits or says why not (`FormInv`).

**Resource API** (`ResourceApiProofs`). Between its queries a request knows the row as
it is, or the overrides as they were when it read the row (`HeldOf`); a replacement has
seen all overrides there are (`Replacing`); who is about to get a default row has none
(`Unread`); each row, and each about to be written by an administrator, is backed
(`BackedInv`).

**Sign-in** (`SignInProofs`). Two layers. The lemmas on texts say what the helpers
compute for every text: matching a URI against a client's template gives the slug just
when the URI is that template expanded with a slug (`MatchIsFaithful`); a resolved host
names one service and one slug (`HostNamesClient`); a Basic header comes apart into the
client and the secret it was made of, whatever the secret holds (`HeaderAuthenticates`,
by way of `IndexOf`: the first colon is the separator); a sanitised path stays on its
host (`SanitizedStays`). The invariant `SignInInv` says what each handler may rely on of
the one before: a pending request has passed every check of `/authorize`; an answer goes
to a registered URI; a code carries the tenant its URI belongs to, and the sign-in whose
session it was drawn under has its answer, so that no later login makes that session
again (`CodeOK`, `SessionsFollow`, `StaysEnded`); a tenant session is the one that was
asked for, and a refusal after the state has matched is that of a code that ran out or
whose session has ended (`ResultOK`). That client, redirect URI, PKCE, ID token and tenant
never refuse (`ReceivedFacts`) rests on the URI coming back through its own host: a slug
has no capitals, so `resolveClient` rebuilds the very URI the code is bound to
(`RedirectUriComesBack`). `StepHolds` has one lemma per action. Of the constants it
assumes that labels, secret and return paths are texts, that `BASE_HOST` is in lower case
(config.ts lower-cases it), that no known slug is empty (a CHECK of `identity.tenants`)
and that an escape is spelt with its three characters. Sign-ins, tenants, services, hosts,
users, browsers, secrets and paths are any.

**Surroundings** (`SurroundingsProofs`). *Stores*: an entry that lives in memory lives in
Redis with the same value and an expiry at most half a second later; one that lives in
Redis only has a second left (`Coupled`). *Key cache*: which fetch under way explains
what its holders will be given (`SourceInv`, `HolderInv`). *Provisioning*: what has been
written by each stage of the run (`IdentitySeeded`, `ServiceProvisioned`). *Members page*:
every list in the page is as old as the version it names, and speaks for the row as long
as the row has that version (`SpeaksFor`). *Repositories*: as long as the in-memory class
was not lenient both hold the same rows and the schema's constraints hold; the queries,
written differently for the two classes, agree on the same contents (`MembersListed`,
`PortalListed`, and `ActiveListed` for the rounding of seconds).

The proofs corrected the models in three places, each a gap TLC's bounds had hidden:

* `MayWrite` in `TenantSessions`, which says who may still write a session back, missed
  a request that has just unlocked or is fetching and will refresh when the API says 401;
* the cache of `JwksCache` needs a positive lifetime: with 0, which the code never
  configures, a refresh does not suffice;
* `SaveTouchesOnlyEdits` has to except an editor reopened for the same member with
  another reading of the row: React keeps it mounted (`members-page.tsx` renders
  it without a key). TLC shows it once a row can be written twice.

Left to TLC, and out of the prover's reach: both `EveryRequestEnds`, and any liveness
under fairness or ENABLED. The violation runs are counterexamples and have nothing to
prove.

## 6. Plan

Done: every part of the inventory that keeps state, with its runs; theorems for every
safety and action property the passing runs check, and for the refinement.

Next, inside the eight proof modules: an abstract specification of a login (one session
per passed challenge) that `Accounts` implements step by step, as `TokenEndpoint` does
`TokenFamily`; the two hazards that no property covers yet.

### Not modelled

* The audit log: append-only, nothing reads it to decide.
* Cryptographic primitives: random values and one-way keys are assumed distinct, a
  signature is the key it was made with, a TOTP code the secret it was made with.
* The rate limit beyond its counter, portal and discovery answers: one comparison, or
  no state.
* Single-page applications beyond the two pages that keep state across answers, and
  request schemas: rendering and validation of shape.
* Infrastructure descriptions, deployment scripts, smoke tests, test support.
