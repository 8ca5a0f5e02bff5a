------------------------------- MODULE SignIn -------------------------------
(***************************************************************************)
(* One sign-in from the service's host to its tenant session, as data: how *)
(* a BFF reads its tenant off the Host header, what /authorize accepts and *)
(* where it redirects, what a code is bound to, what the tokens say and    *)
(* which door accepts which token.  Several browsers and several sign-ins  *)
(* are under way, requests are altered on the way to /authorize, answers   *)
(* are opened in other browsers, and clients are retired.                  *)
(*                                                                         *)
(* A text (host, URI, secret, path) is a sequence of pieces.  Values drawn *)
(* at random (state, nonce, verifier) are the number of the sign-in they   *)
(* were drawn for; computeCodeChallenge is injective on them.  The steps   *)
(* of one request are taken together: TenantSessions, SsoSessions and      *)
(* TokenEndpoint interleave them.                                          *)
(***************************************************************************)
EXTENDS Naturals, Sequences, SequencesExt

CONSTANTS
    SignIns,       \* numbers from 1
    Bffs,          \* the services; each has a BFF process and an OIDC client
    Browsers,
    Logins,        \* users
    Labels,        \* what may stand before the base host in a Host header
    Known,         \* slugs of the tenants in the database
    SlugLimit,     \* the most characters of a slug, 63 in the code
    Secret,        \* the client secret the BFFs are configured with
    OtherSecret,   \* the one before it, or the one after it
    Reasons,       \* what checkTenantAccess may deny with
    Leaving,       \* clients an operator may retire
    Ending,        \* sign-ins whose SSO session may end before a login replaces it
    Altered,       \* sign-ins whose query may be altered on the way
    ReturnTexts    \* values of return_to

AccessDeniedReasons ==
    {"user_disabled", "tenant_suspended", "not_contracted", "no_membership", "membership_inactive"}

ASSUME SignInAssumption ==
    /\ SignIns \subseteq Nat \ {0}
    /\ Reasons \subseteq AccessDeniedReasons
    /\ Bffs # {} /\ Browsers # {} /\ Logins # {} /\ Leaving \subseteq Bffs
    /\ Secret # OtherSecret
    /\ SlugLimit \in Nat \ {0}
    \* The CHECK of identity.tenants.slug.
    /\ Known \subseteq Labels /\ <<>> \notin Known
    /\ Labels \subseteq Seq(STRING) /\ ReturnTexts \subseteq Seq(STRING)
    \* BASE_HOST is read in lower case; "%3A" and "%25" are three characters, not a piece.
    /\ Bffs \subseteq STRING \ {"A", "%3A", "%25", "missing"} /\ "missing" \notin Logins
    /\ Secret \in Seq(STRING) /\ \A k \in DOMAIN Secret : Secret[k] \notin {"%3A", "%25"}

Missing == "missing"
Unset == 0         \* a state, nonce or challenge that is missing
Blank == [what |-> "nothing"]

-----------------------------------------------------------------------------
(* Hosts, redirect URIs and return paths.                                   *)

\* indexOf, or 0.
IndexOf(text, piece) == SelectInSeq(text, LAMBDA p : p = piece)

Alphanumeric == {"a", "b"}
LowerCase(text) == [k \in DOMAIN text |-> IF text[k] = "A" THEN "a" ELSE text[k]]

IsTenantSlug(text) ==
    /\ Len(text) \in 1 .. SlugLimit
    /\ \A k \in DOMAIN text : text[k] \in Alphanumeric \union {"-"}
    /\ text[1] \in Alphanumeric /\ text[Len(text)] \in Alphanumeric

Placeholder == "{tenant}"
Scheme == "https://"
CallbackPath == "/auth/callback"

\* The row of a client: its redirect_uri_template, client_id and audience.  A base host is
\* named by its service; the values an aud claim may hold are distinct.
TemplateOf(c) == <<Scheme, Placeholder, ".", c, CallbackPath>>
ClientIdOf(c) == <<"client", c>>
AudienceOf(c) == <<"audience", c>>
Issuer == <<"issuer">>

ExpandRedirectUriTemplate(template, slug) ==
    LET at == IndexOf(template, Placeholder)
    IN  IF at = 0 THEN template
        ELSE SubSeq(template, 1, at - 1) \o slug \o SubSeq(template, at + 1, Len(template))

\* Broken variant: what follows the slug is not compared.
MatchPrefixOnly(template, uri) ==
    LET at     == IndexOf(template, Placeholder)
        prefix == SubSeq(template, 1, at - 1)
        after  == Len(template) - at
        slug   == SubSeq(uri, at, Len(uri) - after)
    IN  IF Len(uri) > at - 1 + after /\ IsPrefix(prefix, uri) /\ IsTenantSlug(slug)
        THEN slug ELSE <<>>

\* The slug, or <<>> (undefined in the code).
MatchRedirectUriTemplate(template, uri) ==
    LET at     == IndexOf(template, Placeholder)
        prefix == SubSeq(template, 1, at - 1)
        suffix == SubSeq(template, at + 1, Len(template))
        slug   == SubSeq(uri, Len(prefix) + 1, Len(uri) - Len(suffix))
    IN  IF /\ at > 0
           /\ Len(uri) > Len(prefix) + Len(suffix)
           /\ IsPrefix(prefix, uri) /\ IsSuffix(suffix, uri)
           /\ IsTenantSlug(slug)
        THEN slug ELSE <<>>

Unresolved == [slug |-> <<>>]

\* resolveClient of the process of service c.
ResolveClient(c, host) ==
    LET lower  == LowerCase(host)
        suffix == <<".", c>>
        slug   == SubSeq(lower, 1, Len(lower) - Len(suffix))
    IN  IF IsSuffix(suffix, lower) /\ IsTenantSlug(slug)
        THEN [slug |-> slug, client |-> c, redirectUri |-> <<Scheme>> \o lower \o <<CallbackPath>>]
        ELSE Unresolved

HostOf(uri) == SubSeq(uri, 2, Len(uri) - 1)
Subdomain(label, c) == label \o <<".", c>>
Hosts == {Subdomain(label, c) : label \in Labels, c \in Bffs}

SanitizeReturnTo(text) ==
    IF \/ text = <<>>
       \/ text[1] # "/"
       \/ Len(text) > 1 /\ text[2] = "/"
       \/ \E k \in DOMAIN text : text[k] \in {"\\", "control"}
    THEN <<"/">> ELSE text

-----------------------------------------------------------------------------
(* State.                                                                   *)

VARIABLES
    active,     \* clients whose status is active
    hashes,     \* secrets whose hash is registered with every client
    sso,        \* each browser's SSO session: the sign-in whose login made it, and its user
    begun,      \* each sign-in as /auth/login answered it
    preAuth,    \* sign-ins whose pre-auth record is stored and whose cookie is held
    asked,      \* the query of the sign-in that waits for a login
    answer,     \* what /authorize answered
    codes,      \* the code drawn: its record, and what became of it (fate)
    result      \* what the callback did whose state matched

signInVars == <<active, hashes, sso, begun, preAuth, asked, answer, codes, result>>

\* One that was never made, or has ended.
NoSession == [login |-> Unset, user |-> Missing]

SignInInit ==
    /\ active = Bffs
    /\ hashes \in {{Secret, OtherSecret}, {OtherSecret}}
    /\ sso = [b \in Browsers |-> NoSession]
    /\ begun = [i \in SignIns |-> Blank]
    /\ preAuth = {}
    /\ asked = [i \in SignIns |-> Blank]
    /\ answer = [i \in SignIns |-> Blank]
    /\ codes = [i \in SignIns |-> Blank]
    /\ result = [i \in SignIns |-> Blank]

-----------------------------------------------------------------------------
(* /auth/login.                                                             *)

\* Sign-ins of one browser at one host share the pre-auth cookie, which is host-only: the
\* later one overwrites it.
\* A request to the process of service c; a host it does not resolve gets onUnknownHost's page.
BeginSignIn(i, b, c, host, returnTo) ==
    LET client == ResolveClient(c, host) IN
    /\ begun[i] = Blank /\ \A j \in 1 .. i - 1 : begun[j] # Blank
    /\ client # Unresolved
    /\ begun' = [begun EXCEPT ![i] = [browser |-> b, at |-> client,
                                      returnTo |-> SanitizeReturnTo(returnTo)]]
    /\ preAuth' = {j \in preAuth : begun[j].browser # b \/ begun[j].at # client} \union {i}
    /\ UNCHANGED <<active, hashes, sso, asked, answer, codes, result>>

-----------------------------------------------------------------------------
(* /authorize.                                                              *)

SupportedScopes == {"openid", "profile", "email"}
AllowedScopes(c) == SupportedScopes

\* The parameters /auth/login writes into its redirect.
ProperQuery(i) ==
    [client |-> begun[i].at.client, uri |-> begun[i].at.redirectUri, response |-> "code",
     state |-> i, nonce |-> i, method |-> "S256", challenge |-> i, scope |-> SupportedScopes]

\* The same, or with one parameter replaced.
Queries(i) ==
    LET proper == ProperQuery(i) IN
    {proper} \union IF i \notin Altered THEN {} ELSE
        {[proper EXCEPT !.client = c] : c \in Bffs \union {Missing}}
        \union {[proper EXCEPT !.uri = <<Scheme>> \o h \o <<path>>] :
                    h \in Hosts, path \in {CallbackPath, "/elsewhere"}}
        \union {[proper EXCEPT !.uri = <<>>],
                [proper EXCEPT !.response = "token"], [proper EXCEPT !.state = Unset],
                [proper EXCEPT !.nonce = Unset], [proper EXCEPT !.method = "plain"],
                [proper EXCEPT !.challenge = Unset], [proper EXCEPT !.scope = {"email"}],
                [proper EXCEPT !.scope = {"openid", "phone"}]}

Page == [what |-> "page"]

\* buildRedirect: every answer but the page goes to the redirect_uri and names the issuer.
RedirectError(q, kind, why) ==
    [what |-> "error", to |-> q.uri, state |-> q.state, error |-> kind, why |-> why]

\* validateAuthorizationRequest: the first check that fails decides.
ValidationError(q) ==
    IF q.client \notin active THEN "invalid_client"
    ELSE IF MatchRedirectUriTemplate(TemplateOf(q.client), q.uri) \notin Known THEN
         "invalid_redirect_uri"
    ELSE IF q.response # "code" THEN "unsupported_response_type"
    ELSE IF q.state = Unset \/ q.nonce = Unset \/ q.method # "S256" \/ q.challenge = Unset THEN
         "invalid_request"
    ELSE IF "openid" \notin q.scope \/ ~(q.scope \subseteq SupportedScopes \intersect AllowedScopes(q.client)) THEN
         "invalid_scope"
    ELSE "valid"

\* authorizeWithSession and redirectForOutcome.  SsoSessions has the rows checkTenantAccess
\* reads; here it may answer anything.
GrantOrDeny(i, q, session) ==
    \/ \E why \in Reasons :
          /\ answer' = [answer EXCEPT ![i] = RedirectError(q, "access_denied", why)]
          /\ UNCHANGED codes
    \/ /\ codes' = [codes EXCEPT ![i] =
            [client |-> q.client, uri |-> q.uri, nonce |-> q.nonce, challenge |-> q.challenge,
             user |-> session.user, session |-> session.login, scope |-> q.scope, fate |-> "stored",
             tenant |-> MatchRedirectUriTemplate(TemplateOf(q.client), q.uri)]]
       /\ answer' = [answer EXCEPT ![i] = [what |-> "code", to |-> q.uri, state |-> q.state]]

AuthorizeQuery(i, q) ==
    LET verdict == ValidationError(q)
        session == sso[begun[i].browser] IN
    /\ answer[i] = Blank /\ asked[i] = Blank
    /\ \/ /\ verdict \in {"invalid_client", "invalid_redirect_uri"}
          /\ answer' = [answer EXCEPT ![i] = Page]
          /\ UNCHANGED <<asked, codes>>
       \/ /\ verdict \in {"unsupported_response_type", "invalid_request", "invalid_scope"}
          /\ answer' = [answer EXCEPT ![i] = RedirectError(q, verdict, Missing)]
          /\ UNCHANGED <<asked, codes>>
       \/ /\ verdict = "valid" /\ session = NoSession
          /\ asked' = [asked EXCEPT ![i] = q]
          /\ UNCHANGED <<answer, codes>>
       \/ /\ verdict = "valid" /\ session # NoSession
          /\ GrantOrDeny(i, q, session)
          /\ UNCHANGED asked
    /\ UNCHANGED <<active, hashes, sso, begun, preAuth, result>>

\* finish: the login that ends with sign-in i's rid destroys the browser's SSO session, puts
\* its own in the place and resumes the request.
FinishLogin(i, user) ==
    LET session == [login |-> i, user |-> user] IN
    /\ asked[i] # Blank
    /\ sso' = [sso EXCEPT ![begun[i].browser] = session]
    /\ asked' = [asked EXCEPT ![i] = Blank]
    /\ \/ /\ asked[i].client \in active
          /\ GrantOrDeny(i, asked[i], session)
       \/ /\ asked[i].client \notin active
          /\ answer' = [answer EXCEPT ![i] = RedirectError(asked[i], "invalid_request", Missing)]
          /\ UNCHANGED codes
    /\ UNCHANGED <<active, hashes, begun, preAuth, result>>

\* loadSsoSessionByKey: a session lives until it has run out, is logged out or replaced.
Lives(login) == \E b \in Browsers : sso[b] # NoSession /\ sso[b].login = login

SessionEnds(b) ==
    /\ sso[b] # NoSession /\ sso[b].login \in Ending
    /\ sso' = [sso EXCEPT ![b] = NoSession]
    /\ UNCHANGED <<active, hashes, begun, preAuth, asked, answer, codes, result>>

\* An operator retires a client.
Retire(c) ==
    /\ c \in active \intersect Leaving
    /\ active' = active \ {c}
    /\ UNCHANGED <<hashes, sso, begun, preAuth, asked, answer, codes, result>>

-----------------------------------------------------------------------------
(* Tokens.  A payload is a record of claims; `kind' is a mark no door reads. *)

\* profileClaims of a user with a name.
ProfileClaims(scope) == scope \intersect {"email", "profile"}

IdToken(c, user, nonce, tenant, scope) ==
    [kind |-> "id", meant |-> c, aud |-> <<ClientIdOf(c)>>, sub |-> user, sid |-> user, nonce |-> nonce,
     tenant |-> tenant, events |-> FALSE, client_id |-> Missing, profile |-> ProfileClaims(scope)]

AccessToken(c, user, tenant) ==
    [kind |-> "access", meant |-> c, aud |-> <<AudienceOf(c), Issuer>>, sub |-> user, sid |-> user,
     nonce |-> Unset, tenant |-> tenant, events |-> FALSE, client_id |-> c, profile |-> {}]

LogoutToken(c, sid) ==
    [kind |-> "logout", meant |-> c, aud |-> <<ClientIdOf(c)>>, sub |-> sid, sid |-> sid, nonce |-> Unset,
     tenant |-> <<>>, events |-> TRUE, client_id |-> Missing, profile |-> {}]

\* issueTokens for a code, and again without a nonce when its refresh token is used.
IssuedFor(k) ==
    {IdToken(k.client, k.user, k.nonce, k.tenant, k.scope),
     IdToken(k.client, k.user, Unset, k.tenant, k.scope),
     AccessToken(k.client, k.user, k.tenant),
     LogoutToken(k.client, k.user)}

\* The audience of a token signed by the issuer is checked when one is asked for.
VerifyJwt(token, audience) ==
    audience = <<>> \/ \E k \in DOMAIN token.aud : token.aud[k] = audience

VerifyIdToken(token, c, nonce) == VerifyJwt(token, ClientIdOf(c)) /\ token.nonce = nonce

VerifyLogoutToken(token) ==
    VerifyJwt(token, <<>>) /\ token.events /\ token.nonce = Unset /\ token.sid # Missing

\* /auth/backchannel-logout of the process of service c: the first audience is its client.
BackchannelAccepts(token, c) == VerifyLogoutToken(token) /\ token.aud[1] = ClientIdOf(c)

ApiAccepts(token, c) ==
    /\ VerifyJwt(token, AudienceOf(c))
    /\ token.tenant # <<>> /\ token.sid # Missing /\ token.client_id # Missing

UserinfoAccepts(token) == VerifyJwt(token, Issuer)

-----------------------------------------------------------------------------
(* The token request.                                                       *)

\* encodeURIComponent and its inverse, piece by piece.
EncodeComponent(text) ==
    [k \in DOMAIN text |-> CASE text[k] = ":" -> "%3A" [] text[k] = "%" -> "%25"
                             [] OTHER -> text[k]]
DecodeComponent(text) ==
    [k \in DOMAIN text |-> CASE text[k] = "%3A" -> ":" [] text[k] = "%25" -> "%"
                             [] OTHER -> text[k]]

FormHeaders(c) == EncodeComponent(<<c>>) \o <<":">> \o EncodeComponent(Secret)

\* authenticateClient: the client of a Basic header, or Missing.
AuthenticateClient(header) ==
    LET separator == IndexOf(header, ":")
        id        == DecodeComponent(SubSeq(header, 1, separator - 1))
        secret    == DecodeComponent(SubSeq(header, separator + 1, Len(header)))
    IN  IF /\ separator > 1
           /\ ~\E k \in DOMAIN header : header[k] = "%"
           /\ id[1] \in active
           /\ secret \in hashes
        THEN id[1] ELSE Missing

ValidateCodeBinding(k, c, uri, verifier) ==
    IF k.client # c THEN "client_mismatch"
    ELSE IF k.uri # uri THEN "redirect_uri_mismatch"
    ELSE IF k.challenge # verifier THEN "pkce_mismatch" ELSE "ok"

\* exchangeAuthorizationCode: the reason it refuses the code record k for, or "ok".  GETDEL
\* takes a code that is refused as well; a used one leaves a record of that.  Rows of users
\* and tenants are never deleted.
ExchangeAuthorizationCode(k, c, uri, verifier) ==
    LET binding == ValidateCodeBinding(k, c, uri, verifier) IN
    IF k.fate \in {"expired", "refused"} THEN "code_unknown_or_expired"
    ELSE IF k.fate = "used" THEN "code_reused"
    ELSE IF binding # "ok" THEN binding
    ELSE IF ~Lives(k.session) THEN "sso_session_expired" ELSE "ok"

FateOf(k, exchanged) ==
    IF k.fate # "stored" THEN k.fate ELSE IF exchanged = "ok" THEN "used" ELSE "refused"

-----------------------------------------------------------------------------
(* /auth/callback.                                                          *)

RetryLogin(why) == [what |-> "retry", why |-> why]
TemporaryError == [what |-> "temporary"]

RenderAuthorizationError(a) ==
    [what |-> IF a.error # "access_denied" THEN "failed"
              ELSE IF a.why \in {"not_contracted", "tenant_suspended"} THEN a.why
              ELSE "no access"]

\* What the process of `at' does with an answer whose state is that of pre-auth record j and
\* whose code the exchange answered so.  The iss parameter is always the issuer's:
\* buildRedirect sets it.
Received(a, k, exchanged, at, b, j) ==
    LET client == AuthenticateClient(FormHeaders(at.client)) IN
    IF a.what = "error" THEN RenderAuthorizationError(a)
    ELSE IF client = Missing THEN TemporaryError
    ELSE IF exchanged # "ok" THEN RetryLogin(exchanged)
    ELSE IF ~VerifyIdToken(IdToken(client, k.user, k.nonce, k.tenant, k.scope), at.client, j)
    THEN RetryLogin("id token")
    ELSE IF k.tenant # at.slug THEN RetryLogin("tenant")
    ELSE [what |-> "session", at |-> at, browser |-> b, user |-> k.user,
          tenant |-> k.tenant, to |-> begun[j].returnTo]

\* An answer is opened in browser b: the one it was given to, or another it was copied to.
\* The cookie that goes along is that of the host; without one, or with the state of
\* another sign-in, there is a page and the pre-auth record is used up.
Callback(i, b, c) ==
    LET at   == ResolveClient(c, HostOf(answer[i].to))
        mine == {j \in preAuth : begun[j].browser = b /\ begun[j].at = at}
    IN
    /\ answer[i].what \in {"error", "code"}
    /\ at # Unresolved /\ mine # {}
    /\ preAuth' = preAuth \ mine
    /\ \E j \in mine :
         IF answer[i].state # j
         THEN UNCHANGED <<codes, result>>
         ELSE LET client    == AuthenticateClient(FormHeaders(c))
                  sent      == answer[i].what = "code" /\ client # Missing
                  exchanged ==
                      IF sent THEN ExchangeAuthorizationCode(codes[i], client, at.redirectUri, j)
                      ELSE "not sent"
              IN  /\ result' = [result EXCEPT ![i] = Received(answer[i], codes[i], exchanged, at, b, j)]
                  /\ codes' = IF sent THEN [codes EXCEPT ![i].fate = FateOf(codes[i], exchanged)]
                             ELSE codes
    /\ UNCHANGED <<active, hashes, sso, begun, asked, answer>>

\* After PRE_AUTH_TTL_SECONDS, the record and the cookie.
PreAuthExpires(i) ==
    /\ i \in preAuth
    /\ preAuth' = preAuth \ {i}
    /\ UNCHANGED <<active, hashes, sso, begun, asked, answer, codes, result>>

\* After AUTHORIZATION_CODE_TTL_SECONDS.
CodeExpires(i) ==
    /\ codes[i] # Blank /\ codes[i].fate = "stored"
    /\ codes' = [codes EXCEPT ![i].fate = "expired"]
    /\ UNCHANGED <<active, hashes, sso, begun, preAuth, asked, answer, result>>

SignInNext ==
    \/ \E i \in {k \in SignIns : begun[k] = Blank}, b \in Browsers, c \in Bffs, host \in Hosts :
          \E v \in IF i \in Altered THEN ReturnTexts ELSE {<<>>} : BeginSignIn(i, b, c, host, v)
    \/ \E i \in {k \in SignIns : begun[k] # Blank /\ answer[k] = Blank} :
          \E q \in Queries(i) : AuthorizeQuery(i, q)
    \/ \E i \in SignIns, user \in Logins : FinishLogin(i, user)
    \/ \E i \in {k \in SignIns : answer[k] # Blank}, b \in Browsers, c \in Bffs : Callback(i, b, c)
    \/ \E c \in Leaving : Retire(c)
    \/ \E b \in Browsers : SessionEnds(b)
    \/ \E i \in SignIns : PreAuthExpires(i) \/ CodeExpires(i)

SignInSpec == SignInInit /\ [][SignInNext]_signInVars

-----------------------------------------------------------------------------
(* Properties.                                                              *)

\* Nothing is sent anywhere but to a tenant's callback of a registered service.
AnswersAreRegistered ==
    \A i \in SignIns : answer[i].what \in {"error", "code"} =>
        \E c \in Bffs, slug \in Known :
            answer[i].to = ExpandRedirectUriTemplate(TemplateOf(c), slug)

\* A host some BFF serves for a known tenant is one /authorize accepts.
ServedHostsSignIn ==
    \A i \in SignIns :
        (/\ begun[i] # Blank /\ answer[i] = Blank
         /\ begun[i].at.slug \in Known /\ begun[i].at.client \in active)
            => ValidationError(ProperQuery(i)) = "valid"

\* Browsers skip control characters, and read //x and /\x as another host.
StaysOnHost(path) ==
    \E first \in DOMAIN path :
        /\ path[first] = "/" /\ \A k \in 1 .. first - 1 : path[k] = "control"
        /\ \A next \in DOMAIN path :
              (next > first /\ \A k \in first + 1 .. next - 1 : path[k] = "control")
                  => path[next] \notin {"/", "\\"}

\* A session is in the browser that asked, at the host that asked, for the tenant and the
\* service of that host and the user the code was drawn for.
SessionsStayHome ==
    \A i \in SignIns : result[i].what = "session" =>
        /\ result[i].browser = begun[i].browser /\ result[i].at = begun[i].at
        /\ result[i].tenant = begun[i].at.slug /\ result[i].tenant \in Known
        /\ codes[i].client = begun[i].at.client /\ result[i].user = codes[i].user
        /\ StaysOnHost(result[i].to)

\* Once the state has matched, the code is refused only if it ran out before it was sent or
\* the SSO session it was drawn under has ended, be it that a login in another tab replaced
\* it; no check of client, redirect_uri, PKCE, ID token or tenant fails, no code has been sent
\* before, and the client is only unknown if it is retired or its secret is not registered.
LaterChecksAgree ==
    \A i \in SignIns :
        /\ result[i].what = "retry" =>
              result[i] \in {RetryLogin("code_unknown_or_expired"), RetryLogin("sso_session_expired")}
        /\ result[i] = RetryLogin("code_unknown_or_expired") => codes[i].fate = "expired"
        /\ result[i] = RetryLogin("sso_session_expired") => ~Lives(codes[i].session)
        /\ result[i] = TemporaryError => (Secret \notin hashes \/ codes[i].client \notin active)

\* Each door takes the tokens meant for it, and of one service no other's.
DoorsKeepApart ==
    \A i \in SignIns, c \in Bffs : (codes[i] # Blank /\ codes[i].fate = "stored") =>
        \A token \in IssuedFor(codes[i]) :
            LET own(kind) == token.kind = kind /\ token.meant = c IN
            /\ BackchannelAccepts(token, c) <=> own("logout")
            /\ ApiAccepts(token, c) <=> own("access")
            /\ UserinfoAccepts(token) <=> token.kind = "access"
            /\ \A n \in SignIns :
                  VerifyIdToken(token, c, n) <=> (own("id") /\ token.nonce = n)

\* A sign-in that begins on a tenant's host ends there or nowhere: matchRedirectUriTemplate,
\* resolveClient, the code's binding, the claims and sanitizeReturnTo agree on the tenant, the
\* service and the browser, whatever was altered, mixed up, expired or retired on the way.
SignInStaysInItsTenant ==
    /\ AnswersAreRegistered
    /\ ServedHostsSignIn
    /\ SessionsStayHome
    /\ LaterChecksAgree
    /\ DoorsKeepApart

=============================================================================
