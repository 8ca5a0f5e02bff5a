------------------------ MODULE TenantSessionsProofs ------------------------
(***************************************************************************)
(* The safety properties of TenantSessions, for any number of requests,    *)
(* sessions, SSO sessions, refreshes and faults.                           *)
(***************************************************************************)
EXTENDS TenantSessions, TLAPS

-----------------------------------------------------------------------------
(* The inductive invariant: requests and their locals *)

Browsing  == {"login", "callback", "api", "session", "logout"}
Callbacks == {"preAuth", "exchange", "verify", "existing", "dropExisting", "create"}
Relays    == {"ensure", "reload", "dropReload", "refresh", "save", "dropRejected",
              "unlock", "wait", "dropWait", "fetch"}

\* What kind of request gets to a point, and whose session it has in its hands there.
Placed(c) ==
    /\ c.pc = "load" => c.kind \in Browsing /\ c.id = NoSession
    /\ c.pc = "dropIdle" => c.kind \in Browsing /\ c.id = NoSession /\ c.cookie \in Session
    /\ c.pc \in {"touch", "touchSet"} => c.kind \in Browsing /\ c.id \in Session
    /\ c.pc = "discover" => c.kind = "login" /\ c.id = NoSession
    /\ c.pc \in Callbacks => c.kind = "callback" /\ c.id = NoSession
    /\ c.pc = "dropExisting" => c.cookie \in Session
    /\ c.pc \in {"logout", "dropLogout"} => c.kind = "logout" /\ c.id \in Session
    /\ c.pc \in Relays => c.kind = "api" /\ c.id \in Session
    /\ c.pc \in {"members", "dropSid"} => c.kind = "backchannel" /\ c.id = NoSession
    /\ c.pc \in {"idle", "respond"} => c.id = NoSession
    /\ c.kind \in {"login", "callback"} => c.login \in Session
    /\ c.pc = "idle" => c.kind = "none"
    /\ c.pc = "dropRejected" => c.failed

\* The commands a request may have outstanding at a point.
Issued(c) ==
    CASE c.pc \in {"dropIdle", "dropExisting"} -> DestroyOps(c.cookie)
      [] c.pc \in {"dropLogout", "dropReload", "dropRejected", "dropWait"} -> DestroyOps(c.id)
      [] c.pc = "create" -> CreateOps(c.login)
      [] c.pc = "dropSid" -> {<<"delete", s>> : s \in {t \in Session : SidOf[t] = c.sid}}
                             \cup {<<"deleteSid", c.sid>>}
      [] OTHER -> {}

CallsInv == \A r \in Req : Placed(call[r]) /\ call[r].ops \subseteq Issued(call[r])

-----------------------------------------------------------------------------
(* Logins *)

\* A login is begun by one request and its code redeemed by one, which has taken the
\* pre-auth record out.
LoginInv ==
    /\ \A s \in preAuth : login[s] \in {"begun", "sent"}
    /\ \A r \in Req :
        /\ call[r].kind = "login" => login[call[r].login] = "begun"
        /\ call[r].kind = "callback" => login[call[r].login] \in {"sent", "exchanged"}
        /\ call[r].pc = "exchange" =>
               login[call[r].login] = "sent" /\ call[r].login \notin preAuth
        /\ call[r].pc \in {"verify", "existing", "dropExisting", "create"} =>
               login[call[r].login] = "exchanged"
    /\ \A q, r \in Req : q # r /\ call[q].login = call[r].login =>
        /\ ~(call[q].kind = "login" /\ call[r].kind = "login")
        /\ ~(call[q].pc = "exchange" /\ call[r].pc = "exchange")
        /\ ~(/\ call[q].pc \in {"verify", "existing", "dropExisting", "create"}
             /\ call[r].pc \in {"verify", "existing", "dropExisting", "create"})

-----------------------------------------------------------------------------
(* Sessions and the store *)

Knows(r, s)     == s \in {call[r].cookie, call[r].id, call[r].next}
Preparing(r, s) == call[r].pc \in {"verify", "existing", "dropExisting"} /\ call[r].login = s
Creating(r, s)  == Preparing(r, s) \/ (call[r].pc = "create" /\ call[r].login = s)
Has(r, o, s)    == <<o, s>> \in call[r].ops
Stored(s)       == sessions[s] # Absent
Listed(s)       == s \in sessionsBySid[SidOf[s]]
Revived(s)      == <<"revived", s>> \in marks

\* A session nobody has a cookie of yet: its family is as it was issued.
Secret(s) == login[s] # "exchanged" \/ \E r \in Req : Creating(r, s)
SecretOf(s) ==
    Secret(s) => cookie # s /\ family[s].head = 0 /\ \A r \in Req : ~Knows(r, s)

\* A session that is not yet being created: nothing of it is in the store.
Unborn(s) == login[s] # "exchanged" \/ \E r \in Req : Preparing(r, s)
UnbornOf(s) ==
    Unborn(s) => /\ ~Stored(s) /\ ~Listed(s) /\ s \notin ended
                 /\ \A r \in Req, o \in {"set", "add", "delete", "remove"} : ~Has(r, o, s)

\* A session that is gone, with nobody left to write it back.
Gone(s) == Revived(s) \/ (~Stored(s) /\ \A r \in Req : ~MayWrite(r, s))

Deleting(s) == \E r \in Req : Has(r, "delete", s)
Adding(s)   == \E r \in Req : Has(r, "add", s)

EndedOf(s)  == s \in ended => Gone(s)
ListedOf(s) == Stored(s) => Listed(s) \/ Revived(s) \/ Adding(s) \/ Deleting(s)

\* What one request has or does with s.
CopyOf(r, s) ==
    /\ MayWrite(r, s) => Stored(s) \/ Revived(s) \/ Has(r, "set", s)
    /\ Has(r, "set", s) =>
           ~Stored(s) /\ (Has(r, "add", s) \/ Listed(s) \/ Revived(s) \/ Deleting(s))
    /\ Has(r, "remove", s) /\ ~Has(r, "delete", s) => s \in ended
    /\ call[r].pc = "dropExisting" /\ call[r].cookie = s /\ ~Has(r, "delete", s) => s \in ended
    /\ call[r].pc = "create" /\ call[r].cookie = s => Gone(s)
    /\ call[r].pc = "dropReload" /\ call[r].id = s /\ ~Has(r, "delete", s) => Revived(s)

StoreInv ==
    /\ \A d \in Sid : \A s \in sessionsBySid[d] : SidOf[s] = d
    /\ \A s \in Session : SecretOf(s) /\ UnbornOf(s) /\ EndedOf(s) /\ ListedOf(s)
    /\ \A r \in Req, s \in Session : CopyOf(r, s)

-----------------------------------------------------------------------------
(* Tokens *)

Holds(r, s) == /\ call[r].id = s
               /\ call[r].pc \in {"reload", "dropReload", "refresh", "save", "dropRejected", "unlock"}
Saving(r, s) == call[r].id = s /\ call[r].pc = "save"

Steady(s) == \A k \in {"lapse", "overlap", "revived"} : <<k, s>> \notin marks
Clean(s)  == Steady(s) /\ <<"lost", s>> \notin marks

\* The lock is set while somebody works under it, and only one does.
LockOf(s) == <<"lapse", s>> \notin marks =>
    \A r \in Req : Holds(r, s) => s \in refreshLocks /\ \A q \in Req \ {r} : ~Holds(q, s)

\* The copies about to be sent or written are of the stored generation, or the next.
GenOf(s) == Steady(s) /\ Stored(s) =>
    \A r \in Req : call[r].id = s =>
        /\ call[r].pc \in {"touchSet", "refresh"} => call[r].gen = sessions[s].gen
        /\ call[r].pc = "save" => call[r].gen = sessions[s].gen + 1

\* The newest generation is the one about to be saved, or else the stored one.
HeadOf(s) == Clean(s) /\ Stored(s) =>
    /\ \A r \in Req : Saving(r, s) => call[r].gen = family[s].head
    /\ (\A r \in Req : ~Saving(r, s)) => sessions[s].gen = family[s].head

ReuseOf(s) == <<"reuse", s>> \in marks => ~Clean(s)

TokenInv == \A s \in Session :
    LockOf(s) /\ GenOf(s) /\ HeadOf(s) /\ ReuseOf(s) /\ <<"replay", s>> \notin marks

IInv == TypeOK /\ CallsInv /\ LoginInv /\ StoreInv /\ TokenInv

-----------------------------------------------------------------------------
(* Requests and their locals *)

USE DEF stores, browser, provider, history, Go, At, Reply, Continue, Finish, Fault, Well

LEMMA Constants ==
  /\ SidOf \in [Session -> Sid] /\ Sid # {} /\ NoSession \notin Session /\ "keep" \notin Session
  /\ MaxGen \in Nat /\ MaxAttempts \in Nat \ {0} /\ MaxFaults \in Nat /\ MaxCalls \in Nat
  /\ Absent \notin Records /\ Initial \in Session \cup {NoSession}
  /\ Arrivals \subseteq {"login", "callback", "api", "session", "logout", "backchannel"}
  BY TenantAssumption DEF Records, Gens

\* Setting one local of a request leaves the others alone.
LEMMA SetPc ==
  ASSUME NEW c \in Calls, NEW x \in Points, NEW d, d = [c EXCEPT !.pc = x]
  PROVE  /\ d \in Calls /\ d.pc = x
         /\ d.kind = c.kind /\ d.cookie = c.cookie /\ d.pre = c.pre /\ d.login = c.login /\ d.denied = c.denied
         /\ d.sid = c.sid /\ d.id = c.id /\ d.gen = c.gen /\ d.forced = c.forced /\ d.retried = c.retried
         /\ d.failed = c.failed /\ d.tries = c.tries /\ d.ops = c.ops /\ d.next = c.next
  BY DEF Calls

LEMMA SetKind ==
  ASSUME NEW c \in Calls, NEW x \in {"none"} \cup Arrivals, NEW d, d = [c EXCEPT !.kind = x]
  PROVE  /\ d \in Calls /\ d.kind = x
         /\ d.pc = c.pc /\ d.cookie = c.cookie /\ d.pre = c.pre /\ d.login = c.login /\ d.denied = c.denied
         /\ d.sid = c.sid /\ d.id = c.id /\ d.gen = c.gen /\ d.forced = c.forced /\ d.retried = c.retried
         /\ d.failed = c.failed /\ d.tries = c.tries /\ d.ops = c.ops /\ d.next = c.next
  BY DEF Calls

LEMMA SetCookie ==
  ASSUME NEW c \in Calls, NEW x \in Ids, NEW d, d = [c EXCEPT !.cookie = x]
  PROVE  /\ d \in Calls /\ d.cookie = x
         /\ d.pc = c.pc /\ d.kind = c.kind /\ d.pre = c.pre /\ d.login = c.login /\ d.denied = c.denied
         /\ d.sid = c.sid /\ d.id = c.id /\ d.gen = c.gen /\ d.forced = c.forced /\ d.retried = c.retried
         /\ d.failed = c.failed /\ d.tries = c.tries /\ d.ops = c.ops /\ d.next = c.next
  BY DEF Calls

LEMMA SetPre ==
  ASSUME NEW c \in Calls, NEW x \in Ids, NEW d, d = [c EXCEPT !.pre = x]
  PROVE  /\ d \in Calls /\ d.pre = x
         /\ d.pc = c.pc /\ d.kind = c.kind /\ d.cookie = c.cookie /\ d.login = c.login /\ d.denied = c.denied
         /\ d.sid = c.sid /\ d.id = c.id /\ d.gen = c.gen /\ d.forced = c.forced /\ d.retried = c.retried
         /\ d.failed = c.failed /\ d.tries = c.tries /\ d.ops = c.ops /\ d.next = c.next
  BY DEF Calls

LEMMA SetLogin ==
  ASSUME NEW c \in Calls, NEW x \in Ids, NEW d, d = [c EXCEPT !.login = x]
  PROVE  /\ d \in Calls /\ d.login = x
         /\ d.pc = c.pc /\ d.kind = c.kind /\ d.cookie = c.cookie /\ d.pre = c.pre /\ d.denied = c.denied
         /\ d.sid = c.sid /\ d.id = c.id /\ d.gen = c.gen /\ d.forced = c.forced /\ d.retried = c.retried
         /\ d.failed = c.failed /\ d.tries = c.tries /\ d.ops = c.ops /\ d.next = c.next
  BY DEF Calls

LEMMA SetDenied ==
  ASSUME NEW c \in Calls, NEW x \in BOOLEAN, NEW d, d = [c EXCEPT !.denied = x]
  PROVE  /\ d \in Calls /\ d.denied = x
         /\ d.pc = c.pc /\ d.kind = c.kind /\ d.cookie = c.cookie /\ d.pre = c.pre /\ d.login = c.login
         /\ d.sid = c.sid /\ d.id = c.id /\ d.gen = c.gen /\ d.forced = c.forced /\ d.retried = c.retried
         /\ d.failed = c.failed /\ d.tries = c.tries /\ d.ops = c.ops /\ d.next = c.next
  BY DEF Calls

LEMMA SetId ==
  ASSUME NEW c \in Calls, NEW x \in Ids, NEW d, d = [c EXCEPT !.id = x]
  PROVE  /\ d \in Calls /\ d.id = x
         /\ d.pc = c.pc /\ d.kind = c.kind /\ d.cookie = c.cookie /\ d.pre = c.pre /\ d.login = c.login
         /\ d.denied = c.denied /\ d.sid = c.sid /\ d.gen = c.gen /\ d.forced = c.forced /\ d.retried = c.retried
         /\ d.failed = c.failed /\ d.tries = c.tries /\ d.ops = c.ops /\ d.next = c.next
  BY DEF Calls

LEMMA SetGen ==
  ASSUME NEW c \in Calls, NEW x \in Gens, NEW d, d = [c EXCEPT !.gen = x]
  PROVE  /\ d \in Calls /\ d.gen = x
         /\ d.pc = c.pc /\ d.kind = c.kind /\ d.cookie = c.cookie /\ d.pre = c.pre /\ d.login = c.login
         /\ d.denied = c.denied /\ d.sid = c.sid /\ d.id = c.id /\ d.forced = c.forced /\ d.retried = c.retried
         /\ d.failed = c.failed /\ d.tries = c.tries /\ d.ops = c.ops /\ d.next = c.next
  BY DEF Calls

LEMMA SetForced ==
  ASSUME NEW c \in Calls, NEW x \in BOOLEAN, NEW d, d = [c EXCEPT !.forced = x]
  PROVE  /\ d \in Calls /\ d.forced = x
         /\ d.pc = c.pc /\ d.kind = c.kind /\ d.cookie = c.cookie /\ d.pre = c.pre /\ d.login = c.login
         /\ d.denied = c.denied /\ d.sid = c.sid /\ d.id = c.id /\ d.gen = c.gen /\ d.retried = c.retried
         /\ d.failed = c.failed /\ d.tries = c.tries /\ d.ops = c.ops /\ d.next = c.next
  BY DEF Calls

LEMMA SetRetried ==
  ASSUME NEW c \in Calls, NEW x \in BOOLEAN, NEW d, d = [c EXCEPT !.retried = x]
  PROVE  /\ d \in Calls /\ d.retried = x
         /\ d.pc = c.pc /\ d.kind = c.kind /\ d.cookie = c.cookie /\ d.pre = c.pre /\ d.login = c.login
         /\ d.denied = c.denied /\ d.sid = c.sid /\ d.id = c.id /\ d.gen = c.gen /\ d.forced = c.forced
         /\ d.failed = c.failed /\ d.tries = c.tries /\ d.ops = c.ops /\ d.next = c.next
  BY DEF Calls

LEMMA SetFailed ==
  ASSUME NEW c \in Calls, NEW x \in BOOLEAN, NEW d, d = [c EXCEPT !.failed = x]
  PROVE  /\ d \in Calls /\ d.failed = x
         /\ d.pc = c.pc /\ d.kind = c.kind /\ d.cookie = c.cookie /\ d.pre = c.pre /\ d.login = c.login
         /\ d.denied = c.denied /\ d.sid = c.sid /\ d.id = c.id /\ d.gen = c.gen /\ d.forced = c.forced
         /\ d.retried = c.retried /\ d.tries = c.tries /\ d.ops = c.ops /\ d.next = c.next
  BY DEF Calls

LEMMA SetTries ==
  ASSUME NEW c \in Calls, NEW x \in 0 .. MaxAttempts, NEW d, d = [c EXCEPT !.tries = x]
  PROVE  /\ d \in Calls /\ d.tries = x
         /\ d.pc = c.pc /\ d.kind = c.kind /\ d.cookie = c.cookie /\ d.pre = c.pre /\ d.login = c.login
         /\ d.denied = c.denied /\ d.sid = c.sid /\ d.id = c.id /\ d.gen = c.gen /\ d.forced = c.forced
         /\ d.retried = c.retried /\ d.failed = c.failed /\ d.ops = c.ops /\ d.next = c.next
  BY DEF Calls

LEMMA SetOps ==
  ASSUME NEW c \in Calls, NEW x \in SUBSET Commands, NEW d, d = [c EXCEPT !.ops = x]
  PROVE  /\ d \in Calls /\ d.ops = x
         /\ d.pc = c.pc /\ d.kind = c.kind /\ d.cookie = c.cookie /\ d.pre = c.pre /\ d.login = c.login
         /\ d.denied = c.denied /\ d.sid = c.sid /\ d.id = c.id /\ d.gen = c.gen /\ d.forced = c.forced
         /\ d.retried = c.retried /\ d.failed = c.failed /\ d.tries = c.tries /\ d.next = c.next
  BY DEF Calls

LEMMA SetNext ==
  ASSUME NEW c \in Calls, NEW x \in Ids \cup {"keep"}, NEW d, d = [c EXCEPT !.next = x]
  PROVE  /\ d \in Calls /\ d.next = x
         /\ d.pc = c.pc /\ d.kind = c.kind /\ d.cookie = c.cookie /\ d.pre = c.pre /\ d.login = c.login
         /\ d.denied = c.denied /\ d.sid = c.sid /\ d.id = c.id /\ d.gen = c.gen /\ d.forced = c.forced
         /\ d.retried = c.retried /\ d.failed = c.failed /\ d.tries = c.tries /\ d.ops = c.ops
  BY DEF Calls

LEMMA IdleFacts ==
  /\ Idle \in Calls /\ Placed(Idle) /\ Idle.pc = "idle" /\ Idle.kind = "none" /\ Idle.ops = {}
  /\ Idle.cookie = NoSession /\ Idle.id = NoSession /\ Idle.next = "keep"
  /\ Idle.retried = FALSE /\ Idle.failed = FALSE /\ Idle.tries = 0
<1>1. (CHOOSE d \in Sid : TRUE) \in Sid
  BY Constants
<1> QED
  BY <1>1, Constants DEF Idle, Calls, Points, Ids, Gens, Commands, Placed, Browsing, Callbacks, Relays

\* An answer keeps what the response carries.
LEMMA AnswerFacts ==
  ASSUME NEW c \in Calls, NEW d, d = Answer(c), c.kind # "none",
         c.kind \in {"login", "callback"} => c.login \in Session
  PROVE  /\ d \in Calls /\ Placed(d) /\ d.pc = "respond" /\ d.kind = c.kind /\ d.login = c.login
         /\ d.failed = c.failed /\ d.next = c.next /\ d.ops = {} /\ d.id = NoSession
         /\ d.cookie = NoSession
<1>1. Idle \in Calls /\ Idle.ops = {} /\ Idle.id = NoSession /\ Idle.cookie = NoSession
  BY IdleFacts
<1>2. /\ d.pc = "respond" /\ d.kind = c.kind /\ d.login = c.login
      /\ d.failed = c.failed /\ d.next = c.next /\ d.ops = {} /\ d.id = NoSession
      /\ d.cookie = NoSession
  BY <1>1 DEF Answer, Calls
<1>3. d \in Calls
  BY <1>1 DEF Answer, Calls, Points
<1> QED
  BY <1>2, <1>3 DEF Placed, Browsing, Callbacks, Relays

LEMMA CallFacts ==
  ASSUME TypeOK, CallsInv, NEW r \in Req
  PROVE  /\ call[r] \in Calls /\ Placed(call[r]) /\ call[r].ops \subseteq Issued(call[r])
         /\ call[r].cookie \in Session \cup {NoSession} /\ call[r].id \in Session \cup {NoSession}
         /\ call[r].pc # "create" =>
                \A s \in Session : ~Has(r, "set", s) /\ ~Has(r, "add", s)
         /\ \A s \in Session : Has(r, "set", s) \/ Has(r, "add", s) =>
                call[r].pc = "create" /\ call[r].login = s
         /\ \A s \in Session : Has(r, "remove", s) => Knows(r, s)
<1>1. call[r] \in Calls /\ Placed(call[r]) /\ call[r].ops \subseteq Issued(call[r])
  BY DEF TypeOK, CallsInv
<1> QED
  BY <1>1 DEF Calls, Ids, Issued, Has, Knows, DestroyOps, CreateOps

\* Whether a request's copy of its session may yet be written.
Writes(c) ==
    \/ c.pc \in {"touch", "touchSet", "ensure", "reload", "dropReload", "refresh", "save"}
    \/ c.pc = "unlock" /\ ~c.retried /\ ~c.failed
    \/ c.pc = "fetch" /\ ~c.retried

LEMMA MayWriteFacts ==
  \A r, s : MayWrite(r, s) <=> Has(r, "set", s) \/ (call[r].id = s /\ Writes(call[r]))
  BY DEF MayWrite, Has, Writes

Shaped(c) == c \in Calls /\ Placed(c) /\ c.ops \subseteq Issued(c)

LEMMA CallsStep ==
  ASSUME TypeOK, CallsInv, NEW r \in Req, NEW c, Shaped(c), call' = [call EXCEPT ![r] = c]
  PROVE  /\ CallsInv' /\ call' \in [Req -> Calls] /\ call'[r] = c
         /\ \A q \in Req \ {r} : call'[q] = call[q]
  BY DEF TypeOK, CallsInv, Shaped


-----------------------------------------------------------------------------
(* What a step must leave alone *)

\* Request r goes on as c.
Moves(r, c) == call' = [call EXCEPT ![r] = c]

Redeeming(c) == c.pc \in {"verify", "existing", "dropExisting", "create"}

\* Logins, when a request neither begins one nor takes one further.
LEMMA LoginKept ==
  ASSUME TypeOK, CallsInv, LoginInv, NEW r \in Req, NEW c, Shaped(c), Moves(r, c),
         login' = login, preAuth' \subseteq preAuth,
         c.kind \in {"login", "callback"} => c.kind = call[r].kind /\ c.login = call[r].login,
         c.pc = "exchange" => call[r].pc = "exchange",
         Redeeming(c) => Redeeming(call[r])
  PROVE  LoginInv'
<1>1. call'[r] = c /\ \A q \in Req \ {r} : call'[q] = call[q]
  BY CallsStep DEF Moves
<1>2. c.pc = "exchange" \/ Redeeming(c) => c.kind = "callback"
  BY DEF Shaped, Placed, Callbacks, Redeeming
<1>3. /\ c.kind = "login" => call[r].kind = "login" /\ c.login = call[r].login
      /\ c.kind = "callback" => call[r].kind = "callback" /\ c.login = call[r].login
  OBVIOUS
<1>4. \A s \in preAuth' : login'[s] \in {"begun", "sent"}
  BY DEF LoginInv
<1>5. ASSUME NEW q \in Req
      PROVE  /\ call'[q].kind = "login" => login'[call'[q].login] = "begun"
             /\ call'[q].kind = "callback" => login'[call'[q].login] \in {"sent", "exchanged"}
             /\ call'[q].pc = "exchange" =>
                    login'[call'[q].login] = "sent" /\ call'[q].login \notin preAuth'
             /\ Redeeming(call'[q]) => login'[call'[q].login] = "exchanged"
  <2>1. CASE q = r
    BY <1>1, <1>2, <1>3, <2>1 DEF LoginInv, Redeeming
  <2>2. CASE q # r
    BY <1>1, <2>2 DEF LoginInv, Redeeming
  <2> QED BY <2>1, <2>2
<1>6. ASSUME NEW p \in Req, NEW q \in Req, p # q, call'[p].login = call'[q].login
      PROVE  /\ ~(call'[p].kind = "login" /\ call'[q].kind = "login")
             /\ ~(call'[p].pc = "exchange" /\ call'[q].pc = "exchange")
             /\ ~(Redeeming(call'[p]) /\ Redeeming(call'[q]))
  BY <1>1, <1>2, <1>3, <1>6 DEF LoginInv, Redeeming
<1> QED
  BY <1>4, <1>5, <1>6 DEF LoginInv, Redeeming

\* What StoreInv says of one session.
StoreOf(s) == /\ SecretOf(s) /\ UnbornOf(s) /\ EndedOf(s) /\ ListedOf(s)
              /\ \A r \in Req : CopyOf(r, s)

ListsTyped == \A d \in Sid : \A s \in sessionsBySid[d] : SidOf[s] = d

\* Outstanding commands of r on s that only its creator or its destroyer has.
Touches(r, s) == \E o \in {"set", "add", "delete", "remove"} : Has(r, o, s)

\* A step of r that does nothing to s but what it may have learnt of it.
LEMMA StoreKept ==
  ASSUME TypeOK, CallsInv, StoreInv, NEW r \in Req, NEW c, Shaped(c), Moves(r, c), NEW s \in Session,
         Stored(s) => Stored(s)',
         Stored(s)' => Stored(s) \/ (Revived(s) /\ ~Secret(s)),
         Listed(s)' => Listed(s) \/ ~Unborn(s),
         Listed(s) => Listed(s)' \/ Revived(s)' \/ Deleting(s)' \/ Gone(s),
         s \in ended => s \in ended', s \in ended' => s \in ended \/ (Gone(s) /\ ~Unborn(s)),
         Revived(s) => Revived(s)',
         login'[s] = "exchanged" <=> login[s] = "exchanged",
         Secret(s)' => /\ family'[s].head = family[s].head
                       /\ cookie' # s \/ cookie = s \/ Knows(r, s)
                       /\ Knows(r, s)' => Knows(r, s) \/ cookie = s,
         Creating(r, s)' => Creating(r, s), Preparing(r, s)' => Preparing(r, s),
         Has(r, "set", s)' => Has(r, "set", s), Has(r, "add", s)' => Has(r, "add", s),
         Touches(r, s)' => Touches(r, s) \/ Knows(r, s) \/ Listed(s),
         Has(r, "add", s) => Has(r, "add", s)' \/ Revived(s)' \/ Listed(s)',
         Has(r, "delete", s) => Has(r, "delete", s)' \/ Revived(s)',
         MayWrite(r, s)' => \/ Has(r, "set", s)' \/ (MayWrite(r, s) /\ ~Has(r, "set", s))
                            \/ Stored(s) \/ Revived(s),
         Has(r, "remove", s)' => Has(r, "delete", s)' \/ (Has(r, "remove", s) /\ ~Has(r, "delete", s)),
         c.pc = "dropExisting" /\ c.cookie = s =>
             Has(r, "delete", s)' \/ (call[r].pc = "dropExisting" /\ call[r].cookie = s /\ ~Has(r, "delete", s)),
         c.pc = "create" /\ c.cookie = s => Gone(s),
         c.pc = "dropReload" /\ c.id = s =>
             Has(r, "delete", s)' \/ (call[r].pc = "dropReload" /\ call[r].id = s /\ ~Has(r, "delete", s))
  PROVE  StoreOf(s)'
<1>1. call'[r] = c /\ \A q \in Req \ {r} : call'[q] = call[q]
  BY CallsStep DEF Moves
<1>2. ASSUME NEW q \in Req \ {r}
      PROVE  /\ Knows(q, s)' <=> Knows(q, s)
             /\ Creating(q, s)' <=> Creating(q, s)
             /\ Preparing(q, s)' <=> Preparing(q, s)
             /\ \A o \in {"set", "add", "delete", "remove"} : Has(q, o, s)' <=> Has(q, o, s)
             /\ MayWrite(q, s)' <=> MayWrite(q, s)
  BY <1>1 DEF Knows, Creating, Preparing, Has, MayWrite
<1>3. /\ SecretOf(s) /\ UnbornOf(s) /\ EndedOf(s) /\ ListedOf(s)
      /\ \A q \in Req : CopyOf(q, s)
  BY DEF StoreInv
<1>4. Secret(s)' => Secret(s)
  BY <1>2 DEF Secret
<1>5. Unborn(s)' => Unborn(s)
  BY <1>2 DEF Unborn
<1>6. Unborn(s) => Secret(s)
  BY DEF Unborn, Secret, Creating
<1>7. SecretOf(s)'
  BY <1>2, <1>3, <1>4 DEF SecretOf
<1>8. UnbornOf(s)'
  <2> SUFFICES ASSUME Unborn(s)'
               PROVE  /\ ~Stored(s)' /\ ~Listed(s)' /\ s \notin ended'
                      /\ \A q \in Req, o \in {"set", "add", "delete", "remove"} : ~Has(q, o, s)'
    BY DEF UnbornOf
  <2>1. /\ ~Stored(s) /\ ~Listed(s) /\ s \notin ended /\ ~Knows(r, s)
        /\ \A q \in Req, o \in {"set", "add", "delete", "remove"} : ~Has(q, o, s)
    BY <1>3, <1>5, <1>6 DEF UnbornOf, SecretOf
  <2>2. ~Stored(s)' /\ ~Listed(s)' /\ s \notin ended'
    BY <1>5, <1>6, <2>1
  <2>3. ~Touches(r, s)'
    BY <2>1 DEF Touches
  <2> QED
    BY <1>2, <2>1, <2>2, <2>3 DEF Touches
<1>9. Gone(s) => Gone(s)'
  BY <1>2, MayWriteFacts DEF Gone
<1>10. EndedOf(s)'
  BY <1>3, <1>9 DEF EndedOf
<1>11. /\ Adding(s) => Adding(s)' \/ Revived(s)' \/ Listed(s)'
       /\ Deleting(s) => Deleting(s)' \/ Revived(s)'
       /\ Listed(s) => Listed(s)' \/ Revived(s)' \/ Deleting(s)' \/ Gone(s)'
  BY <1>2, <1>9 DEF Adding, Deleting
<1>14. Gone(s)' => Revived(s)' \/ (~Stored(s)' /\ \A q \in Req : ~Has(q, "set", s)')
  BY MayWriteFacts DEF Gone, MayWrite, Has
<1>12. ListedOf(s)'
  BY <1>3, <1>11, <1>14 DEF ListedOf
<1>13. ASSUME NEW q \in Req PROVE CopyOf(q, s)'
  <2>1. CopyOf(q, s)
    BY <1>3
  <2>2. Has(q, "set", s)' => ~Stored(s)'
    <3> SUFFICES ASSUME Has(q, "set", s)' PROVE ~Stored(s)'
      OBVIOUS
    <3>1. Has(q, "set", s)
      BY <1>2
    <3>2. Creating(q, s)
      BY <3>1, CallFacts DEF Creating
    <3> QED BY <2>1, <3>1, <3>2 DEF CopyOf, Secret
  <2>3. CASE q # r
    <3>1. call'[q] = call[q]
      BY <1>1, <2>3
    <3>2. Has(q, "add", s) => Has(q, "add", s)'
      BY <1>2, <2>3
    <3> QED BY <1>2, <1>9, <1>11, <1>14, <2>1, <2>2, <2>3, <3>1, <3>2 DEF CopyOf
  <2>4. CASE q = r
    <3>1. MayWrite(r, s)' => Stored(s)' \/ Revived(s)' \/ Has(r, "set", s)'
      BY <2>1, <2>4 DEF CopyOf
    <3>2. Has(r, "set", s)' => \/ Has(r, "add", s)' \/ Listed(s)'
                               \/ Revived(s)' \/ Deleting(s)'
      BY <1>11, <1>14, <2>1, <2>4 DEF CopyOf
    <3>3. Has(r, "remove", s)' /\ ~Has(r, "delete", s)' => s \in ended'
      BY <2>1, <2>4 DEF CopyOf
    <3>4. c.pc = "dropExisting" /\ c.cookie = s /\ ~Has(r, "delete", s)' => s \in ended'
      BY <2>1, <2>4 DEF CopyOf
    <3>5. c.pc = "create" /\ c.cookie = s => Gone(s)'
      BY <1>9, <2>1, <2>4 DEF CopyOf
    <3>6. c.pc = "dropReload" /\ c.id = s /\ ~Has(r, "delete", s)' => Revived(s)'
      BY <2>1, <2>4 DEF CopyOf
    <3> QED BY <1>1, <2>2, <2>4, <3>1, <3>2, <3>3, <3>4, <3>5, <3>6 DEF CopyOf
  <2> QED BY <2>3, <2>4
<1> QED
  BY <1>7, <1>8, <1>10, <1>12, <1>13 DEF StoreOf

\* What TokenInv says of one session.
TokenOf(s) ==
    LockOf(s) /\ GenOf(s) /\ HeadOf(s) /\ ReuseOf(s) /\ <<"replay", s>> \notin marks

\* The marks of a step: none goes away, and a clean s is not taken for stolen.
MarksKept(s) ==
    /\ marks \subseteq marks'
    /\ <<"reuse", s>> \in marks' => <<"reuse", s>> \in marks \/ ~Clean(s)
    /\ <<"replay", s>> \notin marks'

\* The lock of s is taken, kept or left by r alone.
LEMMA LockKept ==
  ASSUME TypeOK, CallsInv, TokenInv, NEW r \in Req, NEW c, Shaped(c), Moves(r, c),
         NEW s \in Session, marks \subseteq marks',
         s \in refreshLocks => \/ s \in refreshLocks' \/ <<"lapse", s>> \in marks'
                              \/ (Holds(r, s) /\ ~Holds(r, s)'),
         Holds(r, s)' => Holds(r, s) \/ (s \notin refreshLocks /\ s \in refreshLocks')
  PROVE  LockOf(s)'
<1>1. call'[r] = c /\ \A q \in Req \ {r} : call'[q] = call[q]
  BY CallsStep DEF Moves
<1>2. \A q \in Req \ {r} : Holds(q, s)' <=> Holds(q, s)
  BY <1>1 DEF Holds
<1> QED
  BY <1>2 DEF LockOf, TokenInv

\* A step of r that leaves the tokens of s alone.
LEMMA TokenKept ==
  ASSUME TypeOK, CallsInv, TokenInv, NEW r \in Req, NEW c, Shaped(c), Moves(r, c),
         NEW s \in Session, MarksKept(s),
         Stored(s)' /\ Steady(s)' => Stored(s) /\ sessions'[s].gen = sessions[s].gen,
         family'[s].head = family[s].head \/ <<"lost", s>> \in marks',
         s \in refreshLocks => \/ s \in refreshLocks' \/ <<"lapse", s>> \in marks'
                              \/ (Holds(r, s) /\ ~Holds(r, s)'),
         Holds(r, s)' => Holds(r, s) \/ (s \notin refreshLocks /\ s \in refreshLocks'),
         c.pc # "save", Saving(r, s) => <<"lost", s>> \in marks',
         c.pc \in {"touchSet", "refresh"} /\ c.id = s /\ Stored(s) /\ Steady(s) =>
             c.gen = sessions[s].gen
  PROVE  TokenOf(s)'
<1>1. call'[r] = c /\ \A q \in Req \ {r} : call'[q] = call[q]
  BY CallsStep DEF Moves
<1>2. /\ LockOf(s) /\ GenOf(s) /\ HeadOf(s) /\ ReuseOf(s) /\ <<"replay", s>> \notin marks
  BY DEF TokenInv
<1>3. /\ Steady(s)' => Steady(s)
      /\ Clean(s)' => Clean(s) /\ Steady(s)' /\ <<"lost", s>> \notin marks'
  BY DEF MarksKept, Steady, Clean
<1>4. \A q \in Req \ {r} : Saving(q, s)' <=> Saving(q, s)
  BY <1>1 DEF Saving
<1>5. LockOf(s)'
  BY LockKept DEF MarksKept
<1>6. GenOf(s)'
  <2> SUFFICES ASSUME Steady(s)', Stored(s)', NEW q \in Req, call'[q].id = s
               PROVE  /\ call'[q].pc \in {"touchSet", "refresh"} => call'[q].gen = sessions'[s].gen
                      /\ call'[q].pc = "save" => call'[q].gen = sessions'[s].gen + 1
    BY DEF GenOf
  <2>1. CASE q = r
    BY <1>1, <1>3, <2>1
  <2>2. CASE q # r
    BY <1>1, <1>2, <1>3, <2>2 DEF GenOf
  <2> QED BY <2>1, <2>2
<1>7. HeadOf(s)'
  <2> SUFFICES ASSUME Clean(s)', Stored(s)'
               PROVE  /\ \A q \in Req : Saving(q, s)' => call'[q].gen = family'[s].head
                      /\ (\A q \in Req : ~Saving(q, s)') => sessions'[s].gen = family'[s].head
    BY DEF HeadOf
  <2>1. /\ Clean(s) /\ Stored(s) /\ sessions'[s].gen = sessions[s].gen
        /\ family'[s].head = family[s].head
    BY <1>3
  <2>2. ~Saving(r, s) /\ ~Saving(r, s)'
    BY <1>1, <1>3 DEF Saving
  <2> QED BY <1>1, <1>2, <1>4, <2>1, <2>2 DEF HeadOf
<1>8. ReuseOf(s)'
  BY <1>2, <1>3 DEF ReuseOf, MarksKept
<1> QED
  BY <1>5, <1>6, <1>7, <1>8 DEF TokenOf, MarksKept

-----------------------------------------------------------------------------
(* Steps that leave the store alone *)

\* b goes on as c: it learns of nothing but its cookie and the browser's, and begins to
\* destroy nothing but its own.
Follows(b, c) ==
    /\ b.ops = {}
    /\ c.cookie \in {b.cookie, cookie, NoSession} /\ c.id \in {b.id, b.cookie, NoSession}
    /\ c.next \in {b.next, "keep", NoSession}
    /\ c.pc \in {"verify", "existing", "dropExisting"} =>
           b.pc \in {"verify", "existing", "dropExisting"} /\ c.login = b.login
    /\ c.pc # "create"
    /\ \/ c.ops = {} /\ c.pc \notin {"dropExisting", "dropReload"}
       \/ \E k \in {b.cookie, b.id} : k \in Session /\ c.ops = DestroyOps(k)
    /\ Writes(c) => (c.id = b.id /\ Writes(b)) \/ sessions[c.id] # Absent

LEMMA QuietStep ==
  ASSUME TypeOK, CallsInv, StoreInv, NEW r \in Req, NEW c, Shaped(c), Moves(r, c),
         Follows(call[r], c), ended' = ended, sessionsBySid' = sessionsBySid, marks \subseteq marks',
         \A s \in Session : /\ Stored(s) => Stored(s)'
                            /\ Stored(s)' => Stored(s) \/ (Revived(s) /\ ~Secret(s))
                            /\ login'[s] = "exchanged" <=> login[s] = "exchanged"
                            /\ Secret(s) => family'[s].head = family[s].head,
         cookie' \in {cookie, call[r].next, NoSession}
  PROVE  StoreInv'
<1> DEFINE b == call[r]
<1>1. call'[r] = c /\ \A q \in Req \ {r} : call'[q] = call[q]
  BY CallsStep DEF Moves
<1>2. ListsTyped'
  BY DEF ListsTyped, StoreInv
<1>3. ASSUME NEW s \in Session PROVE StoreOf(s)'
  <2>1. Knows(r, s)' => Knows(r, s) \/ cookie = s
    BY <1>1, Constants DEF Knows, Follows
  <2>2. Preparing(r, s)' => Preparing(r, s)
    BY <1>1 DEF Preparing, Follows
  <2>3. Creating(r, s)' => Creating(r, s)
    BY <1>1, <2>2 DEF Creating, Follows
  <2>4. Secret(s)' => Secret(s)
    BY <1>1, <2>3 DEF Secret, Creating, Preparing
  <2>5. cookie' # s \/ cookie = s \/ Knows(r, s)
    BY Constants DEF Knows
  <2>6. ASSUME NEW o \in {"set", "add", "delete", "remove"} PROVE ~Has(r, o, s)
    BY DEF Has, Follows
  <2>7. ~Has(r, "set", s)' /\ ~Has(r, "add", s)'
    BY <1>1 DEF Has, Follows, DestroyOps
  <2>8. ASSUME Has(r, "delete", s)' \/ Has(r, "remove", s)'
        PROVE  Knows(r, s) /\ Has(r, "delete", s)'
    BY <1>1, <2>8 DEF Has, Follows, DestroyOps, Knows
  <2>9. Touches(r, s)' => Knows(r, s)
    BY <2>7, <2>8 DEF Touches
  <2>10. ASSUME c.pc \in {"dropExisting", "dropReload"}
         PROVE  \E k : c.ops = DestroyOps(k) /\ <<"delete", k>> \in Issued(c)
    BY <2>10 DEF Follows, Shaped, DestroyOps
  <2>11. /\ c.pc = "dropExisting" /\ c.cookie = s => Has(r, "delete", s)'
         /\ c.pc = "dropReload" /\ c.id = s => Has(r, "delete", s)'
    <3>1. CASE c.pc = "dropExisting"
      <4>1. Issued(c) = DestroyOps(c.cookie)
        BY <3>1 DEF Issued
      <4> QED BY <1>1, <2>10, <3>1, <4>1 DEF Has, DestroyOps
    <3>2. CASE c.pc = "dropReload"
      <4>1. Issued(c) = DestroyOps(c.id)
        BY <3>2 DEF Issued
      <4> QED BY <1>1, <2>10, <3>2, <4>1 DEF Has, DestroyOps
    <3> QED BY <3>1, <3>2
  <2>12. MayWrite(r, s)' => MayWrite(r, s) \/ Stored(s)
    BY <1>1, <2>7, MayWriteFacts DEF MayWrite, Writes, Has, Follows, Stored
  <2>13. c.pc # "create"
    BY DEF Follows
  <2>14. (Listed(s)' <=> Listed(s)) /\ (s \in ended' <=> s \in ended) /\ (Revived(s) => Revived(s)')
    BY DEF Listed, Revived
  <2> QED
    BY <2>1, <2>2, <2>3, <2>4, <2>5, <2>6, <2>7, <2>8, <2>9, <2>11, <2>12, <2>13, <2>14, StoreKept
<1> QED
  BY <1>2, <1>3 DEF StoreInv, StoreOf, ListsTyped


\* What TypeOK says of all but the requests.
RestTyped ==
    /\ sessions \in [Session -> Records \cup {Absent}]
    /\ sessionsBySid \in [Sid -> SUBSET Session]
    /\ preAuth \subseteq Session /\ refreshLocks \subseteq Session
    /\ cookie \in Ids /\ preAuthCookie \in Ids
    /\ login \in [Session -> {"none", "begun", "sent", "exchanged"}]
    /\ family \in [Session -> [head : Gens, alive : BOOLEAN]]
    /\ due \in [Session -> Gens] /\ faults \in 0 .. MaxFaults
    /\ left \in 0 .. MaxCalls
    /\ ended \subseteq Session
    /\ marks \subseteq {"lapse", "lost", "overlap", "revived", "reuse", "replay"} \X Session

Holding(c) == c.pc \in {"reload", "dropReload", "refresh", "save", "dropRejected", "unlock"}

\* The login a request is about stays its own.
SameLogin(b, c) ==
    /\ c.kind \in {"login", "callback"} => c.kind = b.kind /\ c.login = b.login
    /\ c.pc = "exchange" => b.pc = "exchange"
    /\ Redeeming(c) => Redeeming(b)

\* Nothing is done under the lock but by who has it, and copies are what is stored.
SameTokens(b, c) ==
    /\ Holding(c) => Holding(b) /\ c.id = b.id
    /\ b.pc # "save" /\ c.pc # "save"
    /\ c.pc \in {"touchSet", "refresh"} /\ sessions[c.id] # Absent /\ Steady(c.id) =>
           c.gen = sessions[c.id].gen

\* A step between a request and the browser, the lock or the authorization server.
LEMMA CoreStep ==
  ASSUME IInv, NEW r \in Req, NEW c, Shaped(c), Moves(r, c), RestTyped', LoginInv',
         Follows(call[r], c), UNCHANGED <<sessions, sessionsBySid, ended, marks>>,
         \A s \in Session : login'[s] = "exchanged" <=> login[s] = "exchanged",
         \A s \in Session : family'[s].head = family[s].head,
         cookie' \in {cookie, call[r].next, NoSession},
         Holding(c) => \/ Holding(call[r]) /\ c.id = call[r].id
                       \/ c.id \notin refreshLocks /\ c.id \in refreshLocks',
         \A s \in refreshLocks \ refreshLocks' :
             Holding(call[r]) /\ call[r].id = s /\ ~Holding(c),
         call[r].pc # "save", c.pc # "save",
         c.pc \in {"touchSet", "refresh"} /\ sessions[c.id] # Absent /\ Steady(c.id) =>
             c.gen = sessions[c.id].gen
  PROVE  IInv'
<1>0. TypeOK /\ CallsInv /\ LoginInv /\ StoreInv /\ TokenInv
  BY DEF IInv
<1>1. CallsInv' /\ call' \in [Req -> Calls] /\ call'[r] = c
  BY <1>0, CallsStep DEF Moves
<1>2. TypeOK'
  BY <1>1 DEF TypeOK, RestTyped
<1>3. StoreInv'
  <2>1. \A s \in Session : Stored(s) <=> Stored(s)'
    BY DEF Stored
  <2> QED BY <1>0, <2>1, QuietStep
<1>4. TokenInv'
  <2>1. ASSUME NEW s \in Session PROVE TokenOf(s)'
    <3>1. MarksKept(s)
      BY <1>0 DEF MarksKept, TokenInv
    <3>2. Stored(s)' => Stored(s) /\ sessions'[s].gen = sessions[s].gen
      BY DEF Stored
    <3>3. (Holds(r, s) <=> Holding(call[r]) /\ call[r].id = s) /\ (Holds(r, s)' <=> Holding(c) /\ c.id = s)
      BY <1>1 DEF Holds, Holding
    <3>4. ~Saving(r, s) /\ c.pc # "save"
      BY DEF Saving
    <3>5. c.pc \in {"touchSet", "refresh"} /\ c.id = s /\ Stored(s) /\ Steady(s) =>
              c.gen = sessions[s].gen
      BY DEF Stored
    <3>6. Holds(r, s)' => Holds(r, s) \/ (s \notin refreshLocks /\ s \in refreshLocks')
      BY <3>3
    <3>7. s \in refreshLocks => s \in refreshLocks' \/ (Holds(r, s) /\ ~Holds(r, s)')
      BY <3>3
    <3> QED BY <1>0, <1>2, <3>1, <3>2, <3>4, <3>5, <3>6, <3>7, TokenKept
  <2> QED BY <2>1 DEF TokenInv, TokenOf
<1> QED
  BY <1>1, <1>2, <1>3, <1>4 DEF IInv

LEMMA LockStep ==
  ASSUME IInv, NEW r \in Req, NEW c, Shaped(c), Moves(r, c), RestTyped',
         Follows(call[r], c), SameLogin(call[r], c),
         UNCHANGED <<sessions, sessionsBySid, cookie, login, ended, marks>>,
         preAuth' \subseteq preAuth,
         \A s \in Session : family'[s].head = family[s].head,
         Holding(c) => \/ Holding(call[r]) /\ c.id = call[r].id
                       \/ c.id \notin refreshLocks /\ c.id \in refreshLocks',
         \A s \in refreshLocks \ refreshLocks' :
             Holding(call[r]) /\ call[r].id = s /\ ~Holding(c),
         call[r].pc # "save", c.pc # "save",
         c.pc \in {"touchSet", "refresh"} /\ sessions[c.id] # Absent /\ Steady(c.id) =>
             c.gen = sessions[c.id].gen
  PROVE  IInv'
<1>1. LoginInv'
  BY LoginKept DEF SameLogin, IInv
<1> QED
  BY <1>1, CoreStep

LEMMA PlainStep ==
  ASSUME IInv, NEW r \in Req, NEW c, Shaped(c), Moves(r, c), RestTyped',
         Follows(call[r], c), SameLogin(call[r], c), SameTokens(call[r], c),
         UNCHANGED <<sessions, sessionsBySid, refreshLocks, cookie, login, ended, marks>>,
         preAuth' \subseteq preAuth,
         \A s \in Session : family'[s].head = family[s].head
  PROVE  IInv'
  BY LockStep DEF SameTokens

\* What a request is after the session middleware.
LEMMA EnterFacts ==
  ASSUME NEW c \in Calls, c.kind \in Browsing, c.ops = {}, NEW d, d = Enter(c),
         c.kind \in {"login", "callback"} => c.login \in Session
  PROVE  /\ Shaped(d) /\ d.ops = {} /\ d.pc \in {"discover", "preAuth", "respond", "logout", "ensure"}
         /\ d.kind = c.kind /\ d.login = c.login /\ d.next = c.next
         /\ d.cookie \in {c.cookie, NoSession} /\ d.id \in {c.id, NoSession}
         /\ d.pc = "ensure" => d.id = c.id /\ c.id # NoSession
<1> NoSession \in Ids /\ 0 \in Gens /\ c.id \in Ids
  BY Constants DEF Ids, Gens, Calls
<1> {"discover", "preAuth", "logout", "ensure"} \subseteq Points
  BY DEF Points
<1>1. CASE c.kind \in {"login", "callback"}
  <2>1. PICK p \in {"discover", "preAuth"} : p = IF c.kind = "login" THEN "discover" ELSE "preAuth"
    OBVIOUS
  <2>2. d = [c EXCEPT !.id = NoSession, !.gen = 0, !.pc = p]
    <3>1. CASE c.kind = "login"
      <4>1. p = "discover"
        BY <2>1, <3>1
      <4> QED BY <3>1, <4>1 DEF Enter
    <3>2. CASE c.kind = "callback"
      <4>1. p = "preAuth"
        BY <2>1, <3>2
      <4> QED BY <3>2, <4>1 DEF Enter
    <3> QED BY <1>1, <3>1, <3>2
  <2>3. PICK d1 : d1 = [c EXCEPT !.id = NoSession]
    OBVIOUS
  <2>4. PICK d2 : d2 = [d1 EXCEPT !.gen = 0]
    OBVIOUS
  <2>5. d = [d2 EXCEPT !.pc = p]
    BY <2>2, <2>3, <2>4
  <2>6. /\ d \in Calls /\ d.id = NoSession /\ d.pc = p /\ d.ops = {}
        /\ d.kind = c.kind /\ d.login = c.login /\ d.next = c.next /\ d.cookie = c.cookie
    <3>1. /\ d1 \in Calls /\ d1.id = NoSession /\ d1.ops = {} /\ d1.kind = c.kind
          /\ d1.login = c.login /\ d1.next = c.next /\ d1.cookie = c.cookie
      BY <2>3, SetId
    <3>2. /\ d2 \in Calls /\ d2.id = NoSession /\ d2.ops = {} /\ d2.kind = c.kind
          /\ d2.login = c.login /\ d2.next = c.next /\ d2.cookie = c.cookie
      BY <2>4, <3>1, SetGen
    <3> QED BY <2>5, <3>2, SetPc
  <2> QED BY <1>1, <2>1, <2>6 DEF Shaped, Placed, Browsing, Callbacks, Relays
<1>2. CASE c.kind \notin {"login", "callback"} /\ (c.id = NoSession \/ c.kind = "session")
  <2>1. d = Answer(c)
    BY <1>2 DEF Enter
  <2>2. c.kind # "none"
    BY DEF Browsing
  <2> QED BY <1>2, <2>1, <2>2, AnswerFacts DEF Shaped
<1>3. CASE c.kind \in {"logout", "api"} /\ c.id # NoSession
  <2>1. PICK p \in {"logout", "ensure"} : p = IF c.kind = "logout" THEN "logout" ELSE "ensure"
    OBVIOUS
  <2>2. d = [c EXCEPT !.cookie = NoSession, !.pre = NoSession, !.pc = p]
    <3>1. d = [c EXCEPT !.cookie = NoSession, !.pre = NoSession,
                        !.pc = IF c.kind = "logout" THEN "logout" ELSE "ensure"]
      BY <1>3 DEF Enter
    <3> QED BY <2>1, <3>1
  <2>3. PICK d1 : d1 = [c EXCEPT !.cookie = NoSession]
    OBVIOUS
  <2>4. PICK d2 : d2 = [d1 EXCEPT !.pre = NoSession]
    OBVIOUS
  <2>5. d = [d2 EXCEPT !.pc = p]
    BY <2>2, <2>3, <2>4
  <2>6. /\ d \in Calls /\ d.id = c.id /\ d.pc = p /\ d.ops = {}
        /\ d.kind = c.kind /\ d.login = c.login /\ d.next = c.next /\ d.cookie = NoSession
    <3>1. /\ d1 \in Calls /\ d1.id = c.id /\ d1.ops = {} /\ d1.kind = c.kind
          /\ d1.login = c.login /\ d1.next = c.next /\ d1.cookie = NoSession
      BY <2>3, SetCookie
    <3>2. /\ d2 \in Calls /\ d2.id = c.id /\ d2.ops = {} /\ d2.kind = c.kind
          /\ d2.login = c.login /\ d2.next = c.next /\ d2.cookie = NoSession
      BY <2>4, <3>1, SetPre
    <3> QED BY <2>5, <3>2, SetPc
  <2> QED BY <1>3, <2>1, <2>6 DEF Shaped, Placed, Browsing, Callbacks, Relays, Ids
<1> QED
  BY <1>1, <1>2, <1>3 DEF Browsing

-----------------------------------------------------------------------------
(* Steps that change little but the request *)

Calm == /\ UNCHANGED <<sessions, sessionsBySid, refreshLocks, cookie, login, ended, marks>>
        /\ preAuth' \subseteq preAuth
        /\ \A s \in Session : family'[s].head = family[s].head
        /\ RestTyped'

LEMMA CalmFacts ==
  ASSUME TypeOK, UNCHANGED <<sessions, sessionsBySid, refreshLocks, cookie, login, ended, marks>>,
         UNCHANGED <<preAuth, preAuthCookie, family, due>>, left' = left,
         faults' = faults \/ (faults > 0 /\ faults' = faults - 1)
  PROVE  Calm
  BY Constants DEF TypeOK, RestTyped, Calm

\* A request is answered.
LEMMA AnswerStep ==
  ASSUME IInv, NEW r \in Req, NEW c \in Calls, Moves(r, Answer(c)), Calm,
         c.kind = call[r].kind, c.login = call[r].login, c.next \in {call[r].next, "keep", NoSession},
         call[r].ops = {}, call[r].pc \notin {"idle", "save"}, c.kind # "none"
  PROVE  IInv'
<1>1. PICK d : d = Answer(c)
  OBVIOUS
<1>2. call[r] \in Calls /\ Placed(call[r])
  BY CallFacts DEF IInv
<1>3. c.kind \in {"login", "callback"} => c.login \in Session
  BY <1>2 DEF Placed
<1>4. /\ d \in Calls /\ Placed(d) /\ d.pc = "respond" /\ d.kind = c.kind /\ d.login = c.login
      /\ d.next = c.next /\ d.ops = {} /\ d.id = NoSession /\ d.cookie = NoSession
  BY <1>1, <1>3, AnswerFacts
<1>5. Shaped(d) /\ Moves(r, d)
  BY <1>1, <1>4 DEF Shaped
<1>6. Follows(call[r], d)
  BY <1>4 DEF Follows, Writes
<1>7. SameLogin(call[r], d) /\ SameTokens(call[r], d)
  BY <1>4 DEF SameLogin, SameTokens, Redeeming, Holding
<1> QED
  BY <1>5, <1>6, <1>7, PlainStep DEF Calm

\* tenantContext, once the session is known.
LEMMA EnterStep ==
  ASSUME IInv, NEW r \in Req, NEW c \in Calls, Moves(r, Enter(c)), Calm,
         c.kind = call[r].kind, c.kind \in Browsing, c.login = call[r].login, c.ops = {},
         c.next \in {call[r].next, "keep", NoSession}, c.cookie = call[r].cookie,
         c.id \in {call[r].id, call[r].cookie}, call[r].ops = {},
         call[r].pc \in {"load", "dropIdle"},
         c.id # NoSession => sessions[c.id] # Absent
  PROVE  IInv'
<1>1. PICK d : d = Enter(c)
  OBVIOUS
<1>2. call[r] \in Calls /\ Placed(call[r])
  BY CallFacts DEF IInv
<1>3. c.kind \in {"login", "callback"} => c.login \in Session
  BY <1>2 DEF Placed
<1>4. /\ Shaped(d) /\ d.ops = {} /\ d.pc \in {"discover", "preAuth", "respond", "logout", "ensure"}
      /\ d.kind = c.kind /\ d.login = c.login /\ d.next = c.next
      /\ d.cookie \in {c.cookie, NoSession} /\ d.id \in {c.id, NoSession}
      /\ d.pc = "ensure" => d.id = c.id /\ c.id # NoSession
  BY <1>1, <1>3, EnterFacts
<1>5. Moves(r, d)
  BY <1>1
<1>6. Follows(call[r], d)
  BY <1>4 DEF Follows, Writes
<1>7. SameLogin(call[r], d) /\ SameTokens(call[r], d)
  BY <1>4 DEF SameLogin, SameTokens, Redeeming, Holding
<1> QED
  BY <1>4, <1>5, <1>6, <1>7, PlainStep DEF Calm

\* loadSession for the middleware.
LEMMA LoadSessionStep == ASSUME IInv, NEW r \in Req, LoadSession(r) PROVE IInv'
<1>1. PICK b : b = call[r]
  OBVIOUS
<1>2. /\ b \in Calls /\ Placed(b) /\ b.pc = "load" /\ b.ops = {} /\ b.kind \in Browsing
      /\ b.id = NoSession /\ b.cookie \in Session \cup {NoSession}
      /\ b.kind \in {"login", "callback"} => b.login \in Session
  BY <1>1, CallFacts DEF IInv, LoadSession, Placed
<1>3. Calm
  BY CalmFacts DEF LoadSession, IInv
<1>4. CASE b.cookie = NoSession
  <2>1. Moves(r, Enter(b))
    BY <1>1, <1>4 DEF LoadSession, Moves
  <2> QED BY <1>1, <1>2, <1>3, <2>1, EnterStep
<1>5. CASE b.cookie # NoSession /\ sessions[b.cookie] = Absent
  <2>1. PICK c : c = [b EXCEPT !.next = NoSession]
    OBVIOUS
  <2>2. Moves(r, Enter(c))
    BY <1>1, <1>5, <2>1 DEF LoadSession, Moves
  <2>3. NoSession \in Ids \cup {"keep"}
    BY DEF Ids
  <2>4. /\ c \in Calls /\ c.kind = b.kind /\ c.login = b.login /\ c.ops = {} /\ c.next = NoSession
        /\ c.cookie = b.cookie /\ c.id = b.id
    BY <1>2, <2>1, <2>3, SetNext
  <2> QED BY <1>1, <1>2, <1>3, <2>2, <2>4, EnterStep
<1>6. CASE b.cookie # NoSession /\ sessions[b.cookie] # Absent
  <2>1. PICK s \in Session : s = b.cookie
    BY <1>2, <1>6
  <2>2. sessions[s] \in Records
    BY <1>6, <2>1 DEF IInv, TypeOK
  <2>3. CASE sessions[s].age = "idle"
    <3>1. PICK c1 : c1 = [b EXCEPT !.pc = "dropIdle"]
      OBVIOUS
    <3>2. PICK c : c = [c1 EXCEPT !.ops = DestroyOps(s)]
      OBVIOUS
    <3>3. Moves(r, c)
      BY <1>1, <1>6, <2>1, <2>3, <3>1, <3>2 DEF LoadSession, Moves
    <3>4. DestroyOps(s) \in SUBSET Commands /\ "dropIdle" \in Points
      BY DEF DestroyOps, Commands, Points
    <3>5. /\ c1 \in Calls /\ c1.pc = "dropIdle" /\ c1.kind = b.kind /\ c1.login = b.login
          /\ c1.next = b.next /\ c1.cookie = b.cookie /\ c1.id = b.id
      BY <1>2, <3>1, <3>4, SetPc
    <3>6. /\ c \in Calls /\ c.pc = "dropIdle" /\ c.kind = b.kind /\ c.login = b.login
          /\ c.next = b.next /\ c.cookie = b.cookie /\ c.id = b.id /\ c.ops = DestroyOps(s)
      BY <3>2, <3>4, <3>5, SetOps
    <3>7. Shaped(c)
      BY <1>2, <2>1, <3>6 DEF Shaped, Placed, Issued, Callbacks, Relays
    <3>8. Follows(b, c)
      BY <1>2, <2>1, <3>6 DEF Follows, Writes
    <3>9. SameLogin(b, c) /\ SameTokens(b, c)
      BY <1>2, <3>6 DEF SameLogin, SameTokens, Redeeming, Holding
    <3> QED BY <1>1, <1>3, <3>3, <3>7, <3>8, <3>9, PlainStep DEF Calm
  <2>4. CASE sessions[s].age # "idle"
    <3>1. PICK c1 : c1 = [b EXCEPT !.id = s]
      OBVIOUS
    <3>2. PICK c2 : c2 = [c1 EXCEPT !.gen = sessions[s].gen]
      OBVIOUS
    <3>3. s \in Ids /\ sessions[s].gen \in Gens /\ "touch" \in Points
      BY <2>2 DEF Ids, Records, Points
    <3>4. /\ c1 \in Calls /\ c1.pc = b.pc /\ c1.kind = b.kind /\ c1.login = b.login
          /\ c1.next = b.next /\ c1.cookie = b.cookie /\ c1.id = s /\ c1.ops = {}
      BY <1>2, <3>1, <3>3, SetId
    <3>5. /\ c2 \in Calls /\ c2.pc = b.pc /\ c2.kind = b.kind /\ c2.login = b.login
          /\ c2.next = b.next /\ c2.cookie = b.cookie /\ c2.id = s /\ c2.ops = {}
      BY <3>2, <3>3, <3>4, SetGen
    <3>6. CASE sessions[s].age # "old"
      <4>1. Moves(r, Enter(c2))
        BY <1>1, <1>6, <2>1, <2>4, <3>1, <3>2, <3>6 DEF LoadSession, Moves
      <4> QED BY <1>1, <1>2, <1>3, <1>6, <2>1, <3>5, <4>1, EnterStep
    <3>7. CASE sessions[s].age = "old"
      <4>1. PICK c : c = [c2 EXCEPT !.pc = "touch"]
        OBVIOUS
      <4>2. Moves(r, c)
        BY <1>1, <1>6, <2>1, <2>4, <3>1, <3>2, <3>7, <4>1 DEF LoadSession, Moves
      <4>3. /\ c \in Calls /\ c.pc = "touch" /\ c.kind = b.kind /\ c.login = b.login
            /\ c.next = b.next /\ c.cookie = b.cookie /\ c.id = s /\ c.ops = {}
        BY <3>3, <3>5, <4>1, SetPc
      <4>4. Shaped(c)
        BY <1>2, <4>3 DEF Shaped, Placed, Callbacks, Relays
      <4>5. Follows(b, c)
        BY <1>2, <1>6, <2>1, <4>3 DEF Follows, Writes
      <4>6. SameLogin(b, c) /\ SameTokens(b, c)
        BY <1>2, <4>3 DEF SameLogin, SameTokens, Redeeming, Holding
      <4> QED BY <1>1, <1>3, <4>2, <4>4, <4>5, <4>6, PlainStep DEF Calm
    <3> QED BY <3>6, <3>7
  <2> QED BY <2>3, <2>4
<1> QED
  BY <1>2, <1>4, <1>5, <1>6


LEMMA Destroying == \A s \in Session : DestroyOps(s) \in SUBSET Commands
  BY DEF DestroyOps, Commands

\* A request's session is too idle, or it is logged out: it is about to be destroyed.
LEMMA DestroyStep ==
  ASSUME IInv, NEW r \in Req, NEW b, b = call[r], b.ops = {}, b.id \in Session,
         NEW p \in {"dropReload", "dropWait", "dropLogout"},
         Moves(r, [b EXCEPT !.pc = p, !.ops = DestroyOps(b.id)]), Calm,
         p = "dropLogout" => b.kind = "logout" /\ b.pc = "logout",
         p = "dropReload" => b.pc = "reload", p = "dropWait" => b.pc = "wait"
  PROVE  IInv'
<1>1. PICK c : c = [b EXCEPT !.pc = p, !.ops = DestroyOps(b.id)]
  OBVIOUS
<1>2. b \in Calls /\ Placed(b)
  BY CallFacts DEF IInv
<1>3. p \in Points /\ DestroyOps(b.id) \in SUBSET Commands
  BY Destroying DEF Points
<1>4. /\ c \in Calls /\ c.pc = p /\ c.kind = b.kind /\ c.login = b.login /\ c.ops = DestroyOps(b.id)
      /\ c.next = b.next /\ c.cookie = b.cookie /\ c.id = b.id
  <2>1. PICK c1 : c1 = [b EXCEPT !.pc = p]
    OBVIOUS
  <2>2. c = [c1 EXCEPT !.ops = DestroyOps(b.id)]
    BY <1>1, <2>1
  <2>3. /\ c1 \in Calls /\ c1.pc = p /\ c1.kind = b.kind /\ c1.login = b.login
        /\ c1.next = b.next /\ c1.cookie = b.cookie /\ c1.id = b.id
    BY <1>2, <1>3, <2>1, SetPc
  <2> QED BY <1>3, <2>2, <2>3, SetOps
<1>5. Shaped(c)
  BY <1>2, <1>4 DEF Shaped, Placed, Issued, Callbacks, Relays
<1>6. Follows(b, c)
  BY <1>4 DEF Follows, Writes
<1>7. SameLogin(b, c) /\ SameTokens(b, c)
  BY <1>4 DEF SameLogin, SameTokens, Redeeming, Holding
<1>8. Moves(r, c)
  BY <1>1
<1> QED
  BY <1>5, <1>6, <1>7, <1>8, PlainStep DEF Calm

LEMMA DropIdleStep == ASSUME IInv, NEW r \in Req, DropIdle(r) PROVE IInv'
<1>1. PICK b : b = call[r]
  OBVIOUS
<1>2. /\ b \in Calls /\ Placed(b) /\ b.pc = "dropIdle" /\ b.ops = {} /\ b.kind \in Browsing
      /\ b.id = NoSession
  BY <1>1, CallFacts DEF IInv, DropIdle, Placed
<1>3. Calm
  BY CalmFacts DEF DropIdle, IInv
<1>4. PICK c : c = [b EXCEPT !.next = NoSession]
  OBVIOUS
<1>5. Moves(r, Enter(c))
  BY <1>1, <1>4 DEF DropIdle, Moves
<1>6. NoSession \in Ids \cup {"keep"}
  BY DEF Ids
<1>7. /\ c \in Calls /\ c.kind = b.kind /\ c.login = b.login /\ c.ops = {} /\ c.next = NoSession
      /\ c.cookie = b.cookie /\ c.id = b.id
  BY <1>2, <1>4, <1>6, SetNext
<1> QED
  BY <1>1, <1>2, <1>3, <1>5, <1>7, EnterStep

LEMMA TouchGetStep == ASSUME IInv, NEW r \in Req, TouchGet(r) PROVE IInv'
<1>1. PICK b : b = call[r]
  OBVIOUS
<1>2. /\ b \in Calls /\ Placed(b) /\ b.pc = "touch" /\ b.ops = {} /\ b.kind \in Browsing
      /\ b.id \in Session
  BY <1>1, CallFacts DEF IInv, TouchGet, Placed
<1>3. Calm
  BY CalmFacts DEF TouchGet, IInv
<1>4. PICK g : g = IF sessions[b.id] = Absent THEN b.gen ELSE sessions[b.id].gen
  OBVIOUS
<1>5. g \in Gens /\ "touchSet" \in Points
  BY <1>2, <1>4 DEF IInv, TypeOK, Records, Calls, Points
<1>6. PICK c1 : c1 = [b EXCEPT !.pc = "touchSet"]
  OBVIOUS
<1>7. PICK c : c = [c1 EXCEPT !.gen = g]
  OBVIOUS
<1>8. Moves(r, c)
  <2>1. call' = [call EXCEPT ![r] = [b EXCEPT !.pc = "touchSet",
                    !.gen = IF sessions[b.id] = Absent THEN b.gen ELSE sessions[b.id].gen]]
    BY <1>1 DEF TouchGet
  <2> QED BY <1>4, <1>6, <1>7, <2>1 DEF Moves
<1>9. /\ c1 \in Calls /\ c1.pc = "touchSet" /\ c1.kind = b.kind /\ c1.login = b.login
      /\ c1.next = b.next /\ c1.cookie = b.cookie /\ c1.id = b.id /\ c1.ops = {}
  BY <1>2, <1>5, <1>6, SetPc
<1>10. /\ c \in Calls /\ c.pc = "touchSet" /\ c.kind = b.kind /\ c.login = b.login
       /\ c.next = b.next /\ c.cookie = b.cookie /\ c.id = b.id /\ c.ops = {} /\ c.gen = g
  BY <1>5, <1>7, <1>9, SetGen
<1>11. Shaped(c)
  BY <1>2, <1>10 DEF Shaped, Placed, Callbacks, Relays
<1>12. Follows(b, c)
  BY <1>2, <1>10 DEF Follows, Writes
<1>13. SameLogin(b, c) /\ SameTokens(b, c)
  BY <1>2, <1>4, <1>10 DEF SameLogin, SameTokens, Redeeming, Holding
<1> QED
  BY <1>1, <1>3, <1>8, <1>11, <1>12, <1>13, PlainStep DEF Calm

LEMMA DiscoveryFailsStep == ASSUME IInv, NEW r \in Req, DiscoveryFails(r) PROVE IInv'
<1>1. PICK b : b = call[r]
  OBVIOUS
<1>2. b \in Calls /\ Placed(b) /\ b.pc = "discover" /\ b.ops = {} /\ b.kind = "login"
  BY <1>1, CallFacts DEF IInv, DiscoveryFails, Placed
<1>3. Calm
  BY CalmFacts DEF DiscoveryFails, IInv
<1>4. PICK c : c = [b EXCEPT !.failed = TRUE]
  OBVIOUS
<1>5. Moves(r, Answer(c))
  BY <1>1, <1>4 DEF DiscoveryFails, Moves
<1>6. c \in Calls /\ c.kind = b.kind /\ c.login = b.login /\ c.next = b.next
  BY <1>2, <1>4 DEF Calls
<1> QED
  BY <1>1, <1>2, <1>3, <1>5, <1>6, AnswerStep

LEMMA VerifyIdTokenStep == ASSUME IInv, NEW r \in Req, VerifyIdToken(r) PROVE IInv'
<1>1. PICK b : b = call[r]
  OBVIOUS
<1>2. /\ b \in Calls /\ Placed(b) /\ b.pc = "verify" /\ b.ops = {} /\ b.kind = "callback"
      /\ b.id = NoSession /\ b.login \in Session
  BY <1>1, CallFacts DEF IInv, VerifyIdToken, Placed, Callbacks
<1>3. Calm
  BY CalmFacts DEF VerifyIdToken, IInv
<1>4. CASE Moves(r, [b EXCEPT !.pc = "existing"])
  <2>1. PICK c : c = [b EXCEPT !.pc = "existing"]
    OBVIOUS
  <2>2. /\ c \in Calls /\ c.pc = "existing" /\ c.kind = b.kind /\ c.login = b.login
        /\ c.next = b.next /\ c.cookie = b.cookie /\ c.id = b.id /\ c.ops = {}
    BY <1>2, <2>1, SetPc DEF Points
  <2>3. Shaped(c)
    BY <1>2, <2>2 DEF Shaped, Placed, Callbacks, Relays
  <2>4. Follows(b, c) /\ SameLogin(b, c) /\ SameTokens(b, c)
    BY <1>2, <2>2 DEF Follows, Writes, SameLogin, SameTokens, Redeeming, Holding
  <2> QED BY <1>1, <1>3, <1>4, <2>1, <2>3, <2>4, PlainStep DEF Calm
<1>5. CASE Moves(r, Answer(b))
  BY <1>1, <1>2, <1>3, <1>5, AnswerStep
<1> QED
  BY <1>1, <1>4, <1>5 DEF VerifyIdToken, Moves

LEMMA CsrfMismatchStep == ASSUME IInv, NEW r \in Req, CsrfMismatch(r) PROVE IInv'
<1>1. PICK b : b = call[r]
  OBVIOUS
<1>2. b \in Calls /\ Placed(b) /\ b.pc \in {"logout", "ensure"} /\ b.ops \subseteq Issued(b)
  BY <1>1, CallFacts DEF IInv, CsrfMismatch
<1>3. b.ops = {} /\ b.kind # "none"
  BY <1>2 DEF Issued, Placed, Relays
<1>4. Calm
  BY CalmFacts DEF CsrfMismatch, IInv
<1>5. Moves(r, Answer(b))
  BY <1>1 DEF CsrfMismatch, Moves
<1> QED
  BY <1>1, <1>2, <1>3, <1>4, <1>5, AnswerStep

LEMMA DropLogoutStep == ASSUME IInv, NEW r \in Req, DropLogout(r) PROVE IInv'
<1>1. PICK b : b = call[r]
  OBVIOUS
<1>2. b \in Calls /\ Placed(b) /\ b.pc = "dropLogout" /\ b.ops = {} /\ b.kind = "logout"
  BY <1>1, CallFacts DEF IInv, DropLogout, Placed
<1>3. Calm
  BY CalmFacts DEF DropLogout, IInv
<1>4. PICK c : c = [b EXCEPT !.next = NoSession]
  OBVIOUS
<1>5. Moves(r, Answer(c))
  BY <1>1, <1>4 DEF DropLogout, Moves
<1>6. NoSession \in Ids \cup {"keep"}
  BY DEF Ids
<1>7. c \in Calls /\ c.kind = b.kind /\ c.login = b.login /\ c.next = NoSession
  BY <1>2, <1>4, <1>6, SetNext
<1> QED
  BY <1>1, <1>2, <1>3, <1>5, <1>7, AnswerStep

LEMMA DropSidStep == ASSUME IInv, NEW r \in Req, DropSid(r) PROVE IInv'
<1>1. PICK b : b = call[r]
  OBVIOUS
<1>2. b \in Calls /\ Placed(b) /\ b.pc = "dropSid" /\ b.ops = {} /\ b.kind = "backchannel"
  BY <1>1, CallFacts DEF IInv, DropSid, Placed
<1>3. Calm
  BY CalmFacts DEF DropSid, IInv
<1>4. Moves(r, Answer(b))
  BY <1>1 DEF DropSid, Moves
<1> QED
  BY <1>1, <1>2, <1>3, <1>4, AnswerStep

LEMMA DropWaitStep == ASSUME IInv, NEW r \in Req, DropWait(r) PROVE IInv'
<1>1. PICK b : b = call[r]
  OBVIOUS
<1>2. b \in Calls /\ Placed(b) /\ b.pc = "dropWait" /\ b.ops = {} /\ b.kind = "api"
  BY <1>1, CallFacts DEF IInv, DropWait, Placed, Relays
<1>3. Calm
  BY CalmFacts DEF DropWait, IInv
<1>4. Moves(r, Answer(b))
  BY <1>1 DEF DropWait, Moves
<1> QED
  BY <1>1, <1>2, <1>3, <1>4, AnswerStep

LEMMA WaitStep == ASSUME IInv, NEW r \in Req, Wait(r) PROVE IInv'
<1>1. PICK b : b = call[r]
  OBVIOUS
<1>2. /\ b \in Calls /\ Placed(b) /\ b.pc = "wait" /\ b.ops = {} /\ b.kind = "api"
      /\ b.id \in Session
  BY <1>1, CallFacts DEF IInv, Wait, Placed, Relays
<1>3. Calm
  BY CalmFacts DEF Wait, IInv
<1>4. PICK s \in Session : s = b.id
  BY <1>2
<1>5. CASE b.tries = MaxAttempts \/ sessions[s] = Absent
  <2>1. Moves(r, Answer(b))
    BY <1>1, <1>4, <1>5 DEF Wait, Moves
  <2> QED BY <1>1, <1>2, <1>3, <2>1, AnswerStep
<1>6. CASE b.tries # MaxAttempts /\ sessions[s] # Absent
  <2>1. sessions[s] \in Records
    BY <1>6 DEF IInv, TypeOK
  <2>2. CASE sessions[s].age = "idle"
    <3>1. Moves(r, [b EXCEPT !.pc = "dropWait", !.ops = DestroyOps(b.id)])
      BY <1>1, <1>4, <1>6, <2>2 DEF Wait, Moves
    <3> QED BY <1>1, <1>2, <1>3, <3>1, DestroyStep
  <2>3. CASE sessions[s].age # "idle" /\ NeedsRefresh(s, sessions[s].gen)
    <3>1. PICK n : n = b.tries + 1
      OBVIOUS
    <3>2. PICK c : c = [b EXCEPT !.tries = n]
      OBVIOUS
    <3>3. Moves(r, c)
      BY <1>1, <1>4, <1>6, <2>3, <3>1, <3>2 DEF Wait, Moves
    <3>4. n \in 0 .. MaxAttempts
      BY <1>2, <1>6, <3>1, Constants DEF Calls
    <3>5. /\ c \in Calls /\ c.pc = "wait" /\ c.kind = b.kind /\ c.login = b.login
          /\ c.next = b.next /\ c.cookie = b.cookie /\ c.id = b.id /\ c.ops = {}
      BY <1>2, <3>2, <3>4, SetTries
    <3>6. Shaped(c) /\ Follows(b, c) /\ SameLogin(b, c) /\ SameTokens(b, c)
      BY <1>2, <3>5 DEF Shaped, Placed, Callbacks, Relays, Follows, Writes, SameLogin, SameTokens,
                        Redeeming, Holding
    <3> QED BY <1>1, <1>3, <3>3, <3>6, PlainStep DEF Calm
  <2>4. CASE sessions[s].age # "idle" /\ ~NeedsRefresh(s, sessions[s].gen)
    <3>1. PICK c1 : c1 = [b EXCEPT !.pc = "fetch"]
      OBVIOUS
    <3>2. PICK c2 : c2 = [c1 EXCEPT !.gen = sessions[s].gen]
      OBVIOUS
    <3>3. PICK c3 : c3 = [c2 EXCEPT !.forced = FALSE]
      OBVIOUS
    <3>4. PICK c : c = [c3 EXCEPT !.tries = 0]
      OBVIOUS
    <3>5. Moves(r, c)
      BY <1>1, <1>4, <1>6, <2>4, <3>1, <3>2, <3>3, <3>4 DEF Wait, Moves
    <3>6. sessions[s].gen \in Gens /\ "fetch" \in Points /\ 0 \in 0 .. MaxAttempts
      BY <2>1, Constants DEF Records, Points
    <3>7. /\ c1 \in Calls /\ c1.pc = "fetch" /\ c1.kind = b.kind /\ c1.login = b.login
          /\ c1.next = b.next /\ c1.cookie = b.cookie /\ c1.id = b.id /\ c1.ops = {}
      BY <1>2, <3>1, <3>6, SetPc
    <3>8. /\ c2 \in Calls /\ c2.pc = "fetch" /\ c2.kind = b.kind /\ c2.login = b.login
          /\ c2.next = b.next /\ c2.cookie = b.cookie /\ c2.id = b.id /\ c2.ops = {}
      BY <3>2, <3>6, <3>7, SetGen
    <3>9. /\ c3 \in Calls /\ c3.pc = "fetch" /\ c3.kind = b.kind /\ c3.login = b.login
          /\ c3.next = b.next /\ c3.cookie = b.cookie /\ c3.id = b.id /\ c3.ops = {}
      BY <3>3, <3>8 DEF Calls
    <3>10. /\ c \in Calls /\ c.pc = "fetch" /\ c.kind = b.kind /\ c.login = b.login
           /\ c.next = b.next /\ c.cookie = b.cookie /\ c.id = b.id /\ c.ops = {}
      BY <3>4, <3>6, <3>9, SetTries
    <3>11. Shaped(c) /\ SameLogin(b, c) /\ SameTokens(b, c)
      BY <1>2, <3>10 DEF Shaped, Placed, Callbacks, Relays, SameLogin, SameTokens, Redeeming, Holding
    <3>12. Follows(b, c)
      BY <1>2, <1>4, <1>6, <3>10 DEF Follows
    <3> QED BY <1>1, <1>3, <3>5, <3>11, <3>12, PlainStep DEF Calm
  <2> QED BY <2>2, <2>3, <2>4
<1> QED
  BY <1>5, <1>6

\* apiFetch.
LEMMA FetchStep == ASSUME IInv, NEW r \in Req, Fetch(r) PROVE IInv'
<1>1. PICK b : b = call[r]
  OBVIOUS
<1>2. /\ b \in Calls /\ Placed(b) /\ b.pc = "fetch" /\ b.ops = {} /\ b.kind = "api"
      /\ b.id \in Session
  BY <1>1, CallFacts DEF IInv, Fetch, Placed, Relays
<1>3. Calm
  BY CalmFacts DEF Fetch, IInv
<1>4. CASE Moves(r, Answer(b))
  BY <1>1, <1>2, <1>3, <1>4, AnswerStep
<1>5. CASE b.retried = FALSE /\ Moves(r, [b EXCEPT !.pc = "ensure", !.retried = TRUE, !.forced = TRUE])
  <2>1. PICK c1 : c1 = [b EXCEPT !.pc = "ensure"]
    OBVIOUS
  <2>2. PICK c2 : c2 = [c1 EXCEPT !.retried = TRUE]
    OBVIOUS
  <2>3. PICK c : c = [c2 EXCEPT !.forced = TRUE]
    OBVIOUS
  <2>4. Moves(r, c)
    BY <1>5, <2>1, <2>2, <2>3 DEF Moves
  <2>5. /\ c1 \in Calls /\ c1.pc = "ensure" /\ c1.kind = b.kind /\ c1.login = b.login
        /\ c1.next = b.next /\ c1.cookie = b.cookie /\ c1.id = b.id /\ c1.ops = {}
    BY <1>2, <2>1, SetPc DEF Points
  <2>6. /\ c2 \in Calls /\ c2.pc = "ensure" /\ c2.kind = b.kind /\ c2.login = b.login
        /\ c2.next = b.next /\ c2.cookie = b.cookie /\ c2.id = b.id /\ c2.ops = {}
    BY <2>2, <2>5 DEF Calls
  <2>7. /\ c \in Calls /\ c.pc = "ensure" /\ c.kind = b.kind /\ c.login = b.login
        /\ c.next = b.next /\ c.cookie = b.cookie /\ c.id = b.id /\ c.ops = {}
    BY <2>3, <2>6 DEF Calls
  <2>8. Shaped(c) /\ Follows(b, c) /\ SameLogin(b, c) /\ SameTokens(b, c)
    BY <1>2, <1>5, <2>7 DEF Shaped, Placed, Callbacks, Relays, Follows, Writes, SameLogin, SameTokens,
                            Redeeming, Holding
  <2> QED BY <1>1, <1>3, <2>4, <2>8, PlainStep DEF Calm
<1>6. b.retried \in BOOLEAN
  BY <1>2 DEF Calls
<1>7. \/ Moves(r, Answer(b))
      \/ ~b.retried /\ Moves(r, [b EXCEPT !.pc = "ensure", !.retried = TRUE, !.forced = TRUE])
  BY <1>1 DEF Fetch, Moves
<1> QED
  BY <1>4, <1>5, <1>6, <1>7

LEMMA DropRejectedStep == ASSUME IInv, NEW r \in Req, DropRejected(r) PROVE IInv'
<1>1. PICK b : b = call[r]
  OBVIOUS
<1>2. /\ b \in Calls /\ Placed(b) /\ b.pc = "dropRejected" /\ b.ops = {} /\ b.kind = "api"
      /\ b.id \in Session
  BY <1>1, CallFacts DEF IInv, DropRejected, Placed, Relays
<1>3. Calm
  BY CalmFacts DEF DropRejected, IInv
<1>4. PICK c : c = [b EXCEPT !.pc = "unlock"]
  OBVIOUS
<1>5. Moves(r, c)
  BY <1>1, <1>4 DEF DropRejected, Moves
<1>6. /\ c \in Calls /\ c.pc = "unlock" /\ c.kind = b.kind /\ c.login = b.login /\ c.failed = b.failed
      /\ c.next = b.next /\ c.cookie = b.cookie /\ c.id = b.id /\ c.ops = {}
  BY <1>2, <1>4, SetPc DEF Points
<1>7. c.failed
  <2>1. b.failed
    BY <1>2 DEF Placed
  <2> QED BY <1>6, <2>1, Zenon
<1>8. Shaped(c)
  BY <1>2, <1>6, <1>7 DEF Shaped, Placed, Callbacks, Relays
<1>9. ~Writes(c)
  BY <1>6, <1>7 DEF Writes
<1>10. Follows(b, c) /\ SameLogin(b, c) /\ SameTokens(b, c)
  BY <1>2, <1>6, <1>9 DEF Follows, SameLogin, SameTokens, Redeeming, Holding
<1> QED
  BY <1>1, <1>3, <1>5, <1>8, <1>10, PlainStep DEF Calm

\* With the lock lost to nobody, a session destroyed for its age is only there again revived.
LEMMA DropReloadStep == ASSUME IInv, NEW r \in Req, DropReload(r) PROVE IInv'
<1>1. PICK b : b = call[r]
  OBVIOUS
<1>2. /\ b \in Calls /\ Placed(b) /\ b.pc = "dropReload" /\ b.ops = {} /\ b.kind = "api"
      /\ b.id \in Session
  BY <1>1, CallFacts DEF IInv, DropReload, Placed, Relays
<1>3. Calm
  BY CalmFacts DEF DropReload, IInv
<1>4. PICK c : c = [b EXCEPT !.pc = "refresh"]
  OBVIOUS
<1>5. Moves(r, c)
  BY <1>1, <1>4 DEF DropReload, Moves
<1>6. /\ c \in Calls /\ c.pc = "refresh" /\ c.kind = b.kind /\ c.login = b.login
      /\ c.next = b.next /\ c.cookie = b.cookie /\ c.id = b.id /\ c.ops = {}
  BY <1>2, <1>4, SetPc DEF Points
<1>7. ~Steady(b.id)
  <2>1. CopyOf(r, b.id) /\ ~Has(r, "delete", b.id)
    BY <1>1, <1>2 DEF IInv, StoreInv, Has
  <2> QED BY <1>1, <1>2, <2>1 DEF CopyOf, Revived, Steady
<1>8. Shaped(c) /\ Follows(b, c) /\ SameLogin(b, c)
  BY <1>2, <1>6 DEF Shaped, Placed, Callbacks, Relays, Follows, Writes, SameLogin, Redeeming
<1>9. SameTokens(b, c)
  <2>1. ~Steady(c.id)
    BY <1>6, <1>7
  <2> QED BY <1>2, <1>6, <2>1 DEF SameTokens, Holding
<1> QED
  BY <1>1, <1>3, <1>5, <1>8, <1>9, PlainStep DEF Calm

\* The session is read again under the lock.
LEMMA ReloadStep == ASSUME IInv, NEW r \in Req, Reload(r) PROVE IInv'
<1>1. PICK b : b = call[r]
  OBVIOUS
<1>2. /\ b \in Calls /\ Placed(b) /\ b.pc = "reload" /\ b.ops = {} /\ b.kind = "api"
      /\ b.id \in Session
  BY <1>1, CallFacts DEF IInv, Reload, Placed, Relays
<1>3. Calm
  BY CalmFacts DEF Reload, IInv
<1>4. PICK s \in Session : s = b.id
  BY <1>2
<1>5. CASE sessions[s] = Absent
  <2>1. PICK c : c = [b EXCEPT !.pc = "refresh"]
    OBVIOUS
  <2>2. Moves(r, c)
    BY <1>1, <1>4, <1>5, <2>1 DEF Reload, Moves
  <2>3. /\ c \in Calls /\ c.pc = "refresh" /\ c.kind = b.kind /\ c.login = b.login
        /\ c.next = b.next /\ c.cookie = b.cookie /\ c.id = b.id /\ c.ops = {}
    BY <1>2, <2>1, SetPc DEF Points
  <2>4. Shaped(c) /\ Follows(b, c) /\ SameLogin(b, c) /\ SameTokens(b, c)
    BY <1>2, <1>4, <1>5, <2>3 DEF Shaped, Placed, Callbacks, Relays, Follows, Writes, SameLogin,
                                  SameTokens, Redeeming, Holding
  <2> QED BY <1>1, <1>3, <2>2, <2>4, PlainStep DEF Calm
<1>6. CASE sessions[s] # Absent /\ sessions[s].age = "idle"
  <2>1. Moves(r, [b EXCEPT !.pc = "dropReload", !.ops = DestroyOps(b.id)])
    BY <1>1, <1>4, <1>6 DEF Reload, Moves
  <2> QED BY <1>1, <1>2, <1>3, <2>1, DestroyStep
<1>7. CASE sessions[s] # Absent /\ sessions[s].age # "idle"
  <2>1. sessions[s].gen \in Gens /\ {"refresh", "unlock"} \subseteq Points
    BY <1>7 DEF IInv, TypeOK, Records, Points
  <2>2. PICK p \in {"refresh", "unlock"} :
            p = IF NeedsRefresh(s, sessions[s].gen) THEN "refresh" ELSE "unlock"
    OBVIOUS
  <2>3. PICK c1 : c1 = [b EXCEPT !.gen = sessions[s].gen]
    OBVIOUS
  <2>4. PICK c2 : c2 = [c1 EXCEPT !.forced = FALSE]
    OBVIOUS
  <2>5. PICK c : c = [c2 EXCEPT !.pc = p]
    OBVIOUS
  <2>6. Moves(r, c)
    <3>1. call' = [call EXCEPT ![r] = [b EXCEPT !.gen = sessions[s].gen, !.forced = FALSE,
                      !.pc = IF NeedsRefresh(s, sessions[s].gen) THEN "refresh" ELSE "unlock"]]
      BY <1>1, <1>4, <1>7 DEF Reload
    <3> QED BY <2>2, <2>3, <2>4, <2>5, <3>1 DEF Moves
  <2>7. /\ c1 \in Calls /\ c1.kind = b.kind /\ c1.login = b.login /\ c1.gen = sessions[s].gen
        /\ c1.next = b.next /\ c1.cookie = b.cookie /\ c1.id = b.id /\ c1.ops = {}
    BY <1>2, <2>1, <2>3, SetGen
  <2>8. /\ c2 \in Calls /\ c2.kind = b.kind /\ c2.login = b.login /\ c2.gen = sessions[s].gen
        /\ c2.next = b.next /\ c2.cookie = b.cookie /\ c2.id = b.id /\ c2.ops = {}
    BY <2>4, <2>7 DEF Calls
  <2>9. /\ c \in Calls /\ c.pc = p /\ c.kind = b.kind /\ c.login = b.login /\ c.gen = sessions[s].gen
        /\ c.next = b.next /\ c.cookie = b.cookie /\ c.id = b.id /\ c.ops = {}
    BY <2>1, <2>5, <2>8, SetPc
  <2>10. Shaped(c) /\ Follows(b, c) /\ SameLogin(b, c)
    BY <1>2, <2>2, <2>9 DEF Shaped, Placed, Callbacks, Relays, Follows, Writes, SameLogin,
                            Redeeming
  <2>11. SameTokens(b, c)
    BY <1>2, <1>4, <2>2, <2>9 DEF SameTokens, Holding
  <2> QED BY <1>1, <1>3, <2>6, <2>10, <2>11, PlainStep DEF Calm
<1> QED
  BY <1>5, <1>6, <1>7

\* RevokeToken, then destroySession.
LEMMA RevokeAndDestroyStep == ASSUME IInv, NEW r \in Req, RevokeAndDestroy(r) PROVE IInv'
<1>1. PICK b : b = call[r]
  OBVIOUS
<1>2. /\ b \in Calls /\ Placed(b) /\ b.pc = "logout" /\ b.ops = {} /\ b.kind = "logout"
      /\ b.id \in Session
  BY <1>1, CallFacts DEF IInv, RevokeAndDestroy, Placed
<1>3. /\ family' = family \/ family' = [family EXCEPT ![b.id].alive = FALSE]
      /\ faults' = faults \/ (faults > 0 /\ faults' = faults - 1)
      /\ left' = left /\ Moves(r, [b EXCEPT !.pc = "dropLogout", !.ops = DestroyOps(b.id)])
      /\ UNCHANGED <<stores, cookie, preAuthCookie, login, due, history>>
  BY <1>1 DEF RevokeAndDestroy, Moves
<1>4. /\ family' \in [Session -> [head : Gens, alive : BOOLEAN]]
      /\ \A s \in Session : family'[s].head = family[s].head
  <2>1. family \in [Session -> [head : Gens, alive : BOOLEAN]]
    BY DEF IInv, TypeOK
  <2>2. CASE family' = [family EXCEPT ![b.id].alive = FALSE]
    BY <1>2, <2>1, <2>2
  <2> QED BY <1>3, <2>1, <2>2
<1>5. Calm
  BY <1>3, <1>4, Constants DEF Calm, RestTyped, IInv, TypeOK
<1> QED
  BY <1>1, <1>2, <1>3, <1>5, DestroyStep


-----------------------------------------------------------------------------
(* The lock *)

\* ensureFreshAccessToken up to the lock.
LEMMA EnsureFreshStep == ASSUME IInv, NEW r \in Req, EnsureFresh(r) PROVE IInv'
<1>1. PICK b : b = call[r]
  OBVIOUS
<1>2. /\ b \in Calls /\ Placed(b) /\ b.pc = "ensure" /\ b.ops = {} /\ b.kind = "api"
      /\ b.id \in Session
  BY <1>1, CallFacts DEF IInv, EnsureFresh, Placed, Relays
<1>3. /\ UNCHANGED <<sessions, sessionsBySid, preAuth, browser, provider, history>> /\ left' = left
      /\ \/ \E p \in {"fetch", "wait"} : refreshLocks' = refreshLocks /\ Moves(r, [b EXCEPT !.pc = p])
         \/ /\ b.id \notin refreshLocks /\ refreshLocks' = refreshLocks \cup {b.id}
            /\ Moves(r, [b EXCEPT !.pc = "reload"])
  BY <1>1 DEF EnsureFresh, Moves
<1>4. RestTyped'
  BY <1>2, <1>3 DEF RestTyped, IInv, TypeOK
<1>5. PICK p \in {"fetch", "wait", "reload"} :
         /\ Moves(r, [b EXCEPT !.pc = p])
         /\ p = "reload" => b.id \notin refreshLocks /\ refreshLocks' = refreshLocks \cup {b.id}
         /\ p # "reload" => refreshLocks' = refreshLocks
  BY <1>3
<1>6. PICK c : c = [b EXCEPT !.pc = p]
  OBVIOUS
<1>7. /\ c \in Calls /\ c.pc = p /\ c.kind = b.kind /\ c.login = b.login
      /\ c.next = b.next /\ c.cookie = b.cookie /\ c.id = b.id /\ c.ops = {}
  BY <1>2, <1>6, SetPc DEF Points
<1>8. Shaped(c) /\ Follows(b, c) /\ SameLogin(b, c)
  BY <1>2, <1>7 DEF Shaped, Placed, Callbacks, Relays, Follows, Writes, SameLogin, Redeeming
<1>9. Holding(c) => c.id \notin refreshLocks /\ c.id \in refreshLocks'
  BY <1>5, <1>7 DEF Holding
<1>10. refreshLocks \subseteq refreshLocks'
  BY <1>5
<1>11. Moves(r, c) /\ b.pc # "save" /\ c.pc \notin {"save", "touchSet", "refresh"}
  BY <1>2, <1>5, <1>6, <1>7
<1> QED
  BY <1>1, <1>3, <1>4, <1>8, <1>9, <1>10, <1>11, LockStep

\* The finally clause.
LEMMA UnlockStep == ASSUME IInv, NEW r \in Req, Unlock(r) PROVE IInv'
<1>1. PICK b : b = call[r]
  OBVIOUS
<1>2. /\ b \in Calls /\ Placed(b) /\ b.pc = "unlock" /\ b.ops = {} /\ b.kind = "api"
      /\ b.id \in Session
  BY <1>1, CallFacts DEF IInv, Unlock, Placed, Relays
<1>3. /\ UNCHANGED <<sessions, sessionsBySid, preAuth, browser, provider, history>> /\ left' = left
      /\ refreshLocks' = refreshLocks \ {b.id}
      /\ \/ b.failed /\ Moves(r, Answer(b))
         \/ ~b.failed /\ Moves(r, [b EXCEPT !.pc = "fetch"])
  BY <1>1 DEF Unlock, Moves
<1>4. RestTyped'
  BY <1>2, <1>3 DEF RestTyped, IInv, TypeOK
<1>5. ASSUME NEW c, Shaped(c), Moves(r, c), Follows(b, c), SameLogin(b, c), c.pc \in {"respond", "fetch"}
      PROVE  IInv'
  <2>1. ~Holding(c) /\ Holding(b) /\ c.pc \notin {"save", "touchSet", "refresh"} /\ b.pc # "save"
    BY <1>2, <1>5 DEF Holding
  <2> QED BY <1>1, <1>3, <1>4, <1>5, <2>1, LockStep
<1>6. CASE Moves(r, Answer(b))
  <2>1. PICK c : c = Answer(b)
    OBVIOUS
  <2>2. /\ c \in Calls /\ Placed(c) /\ c.pc = "respond" /\ c.kind = b.kind /\ c.login = b.login
        /\ c.next = b.next /\ c.ops = {} /\ c.id = NoSession /\ c.cookie = NoSession
    BY <1>2, <2>1, AnswerFacts
  <2>3. Shaped(c) /\ Follows(b, c) /\ SameLogin(b, c)
    BY <1>2, <2>2 DEF Shaped, Follows, Writes, SameLogin, Redeeming
  <2> QED BY <1>5, <1>6, <2>1, <2>2, <2>3
<1>7. CASE ~b.failed /\ Moves(r, [b EXCEPT !.pc = "fetch"])
  <2>1. PICK c : c = [b EXCEPT !.pc = "fetch"]
    OBVIOUS
  <2>2. /\ c \in Calls /\ c.pc = "fetch" /\ c.kind = b.kind /\ c.login = b.login /\ c.retried = b.retried
        /\ c.next = b.next /\ c.cookie = b.cookie /\ c.id = b.id /\ c.ops = {}
    BY <1>2, <2>1, SetPc DEF Points
  <2>3. Writes(c) => ~c.retried
    BY <2>2 DEF Writes
  <2>4. Writes(c) => ~b.retried
    BY <2>2, <2>3, Zenon
  <2>5. Writes(c) => Writes(b)
    BY <1>2, <1>7, <2>4 DEF Writes
  <2>6. Shaped(c) /\ SameLogin(b, c)
    BY <1>2, <2>2 DEF Shaped, Placed, Callbacks, Relays, SameLogin, Redeeming
  <2>7. Follows(b, c)
    BY <1>2, <2>2, <2>5 DEF Follows
  <2> QED BY <1>5, <1>7, <2>1, <2>2, <2>6, <2>7
<1> QED
  BY <1>3, <1>6, <1>7

-----------------------------------------------------------------------------
(* The browser and the login *)

LEMMA SetPreAuthStep == ASSUME IInv, NEW r \in Req, SetPreAuth(r) PROVE IInv'
<1>1. PICK b : b = call[r]
  OBVIOUS
<1>2. /\ b \in Calls /\ Placed(b) /\ b.pc = "discover" /\ b.ops = {} /\ b.kind = "login"
      /\ b.login \in Session /\ login[b.login] = "begun"
  BY <1>1, CallFacts DEF IInv, SetPreAuth, Placed, LoginInv
<1>3. PICK c : c = Answer(b)
  OBVIOUS
<1>4. /\ c \in Calls /\ Placed(c) /\ c.pc = "respond" /\ c.kind = b.kind /\ c.login = b.login
      /\ c.next = b.next /\ c.ops = {} /\ c.id = NoSession /\ c.cookie = NoSession
  BY <1>2, <1>3, AnswerFacts
<1>5. /\ Moves(r, c) /\ preAuth' = preAuth \cup {b.login} /\ left' = left
      /\ UNCHANGED <<sessions, sessionsBySid, refreshLocks, browser, provider, history>>
  BY <1>1, <1>3 DEF SetPreAuth, Moves
<1>6. Shaped(c) /\ Follows(b, c) /\ SameLogin(b, c)
  BY <1>2, <1>4 DEF Shaped, Follows, Writes, SameLogin, Redeeming
<1>7. RestTyped'
  BY <1>2, <1>5 DEF RestTyped, IInv, TypeOK
<1>8. call'[r] = c /\ \A q \in Req \ {r} : call'[q] = call[q]
  BY <1>5, <1>6, CallsStep DEF Moves, IInv
<1>9. LoginInv'
  BY <1>1, <1>2, <1>4, <1>5, <1>8 DEF IInv, LoginInv
<1>10. b.pc # "save" /\ ~Holding(c) /\ c.pc \notin {"save", "touchSet", "refresh"}
  BY <1>2, <1>4 DEF Holding
<1> QED
  BY <1>1, <1>5, <1>6, <1>7, <1>9, <1>10, CoreStep

\* The record is taken out by one callback.
LEMMA TakePreAuthStep == ASSUME IInv, NEW r \in Req, TakePreAuth(r) PROVE IInv'
<1>1. PICK b : b = call[r]
  OBVIOUS
<1>2. /\ b \in Calls /\ Placed(b) /\ b.pc = "preAuth" /\ b.ops = {} /\ b.kind = "callback"
      /\ b.id = NoSession /\ b.login \in Session /\ login[b.login] \in {"sent", "exchanged"}
  BY <1>1, CallFacts DEF IInv, TakePreAuth, Placed, Callbacks, LoginInv
<1>3. /\ preAuth' = preAuth \ {b.pre} /\ left' = left
      /\ UNCHANGED <<sessions, sessionsBySid, refreshLocks, browser, provider, history>>
      /\ \/ b.login \in preAuth /\ b.login \notin preAuth' /\ Moves(r, [b EXCEPT !.pc = "exchange"])
         \/ Moves(r, Answer(b))
  BY <1>1 DEF TakePreAuth, Moves
<1>4. RestTyped'
  BY <1>3 DEF RestTyped, IInv, TypeOK
<1>5. CASE Moves(r, Answer(b))
  <2>1. Calm
    BY <1>3, <1>4 DEF Calm
  <2> QED BY <1>1, <1>2, <1>5, <2>1, AnswerStep
<1>6. CASE b.login \in preAuth /\ b.login \notin preAuth' /\ Moves(r, [b EXCEPT !.pc = "exchange"])
  <2>1. PICK c : c = [b EXCEPT !.pc = "exchange"]
    OBVIOUS
  <2>2. /\ c \in Calls /\ c.pc = "exchange" /\ c.kind = b.kind /\ c.login = b.login
        /\ c.next = b.next /\ c.cookie = b.cookie /\ c.id = b.id /\ c.ops = {}
    BY <1>2, <2>1, SetPc DEF Points
  <2>3. Shaped(c) /\ Follows(b, c)
    BY <1>2, <2>2 DEF Shaped, Placed, Callbacks, Relays, Follows, Writes
  <2>4. Moves(r, c) /\ call'[r] = c /\ \A q \in Req \ {r} : call'[q] = call[q]
    BY <1>6, <2>1, <2>3, CallsStep DEF Moves, IInv
  <2>5. login[b.login] = "sent"
    BY <1>2, <1>6 DEF IInv, LoginInv
  <2>6. LoginInv'
    BY <1>1, <1>2, <1>3, <1>6, <2>2, <2>4, <2>5 DEF IInv, LoginInv
  <2>7. b.pc # "save" /\ ~Holding(c) /\ c.pc \notin {"save", "touchSet", "refresh"}
    BY <1>2, <2>2 DEF Holding
  <2> QED BY <1>1, <1>3, <1>4, <2>3, <2>4, <2>6, <2>7, CoreStep
<1> QED
  BY <1>3, <1>5, <1>6


\* The response reaches the browser.
LEMMA RespondStep == ASSUME IInv, NEW r \in Req, Respond(r) PROVE IInv'
<1>1. PICK b : b = call[r]
  OBVIOUS
<1>2. /\ b \in Calls /\ Placed(b) /\ b.pc = "respond" /\ b.ops = {} /\ b.id = NoSession
      /\ b.kind \in {"login", "callback"} => b.login \in Session
      /\ b.next \in Ids \cup {"keep"} /\ b.login \in Ids
  <2>1. b \in Calls /\ Placed(b) /\ b.pc = "respond" /\ b.ops = {}
    BY <1>1, CallFacts DEF IInv, Respond
  <2> QED BY <2>1 DEF Placed, Calls
<1>3. /\ cookie' = IF b.next = "keep" THEN cookie ELSE b.next
      /\ left' = left /\ Moves(r, Idle) /\ UNCHANGED <<stores, faults, provider, history>>
  BY <1>1 DEF Respond, Moves
<1>4. \/ login' = login
      \/ b.kind = "login" /\ login' = [login EXCEPT ![b.login] = "sent"]
  BY <1>1 DEF Respond
<1>5. preAuthCookie' \in {b.login, NoSession, preAuthCookie}
  <2>1. preAuthCookie' = CASE b.kind = "login" /\ ~b.failed -> b.login
                           [] b.kind = "callback" -> NoSession
                           [] OTHER -> preAuthCookie
    BY <1>1 DEF Respond
  <2>2. CASE b.kind = "login" /\ ~b.failed
    BY <2>1, <2>2
  <2>3. CASE b.kind = "callback"
    BY <2>1, <2>3
  <2>4. CASE ~(b.kind = "login" /\ ~b.failed) /\ b.kind # "callback"
    BY <2>1, <2>4
  <2> QED BY <2>2, <2>3, <2>4
<1>6. cookie' \in Ids /\ preAuthCookie' \in Ids
  BY <1>2, <1>3, <1>5 DEF IInv, TypeOK, Ids
<1>7. login' \in [Session -> {"none", "begun", "sent", "exchanged"}]
  <2>1. login \in [Session -> {"none", "begun", "sent", "exchanged"}]
    BY DEF IInv, TypeOK
  <2> QED BY <1>4, <2>1
<1>8. RestTyped'
  BY <1>3, <1>6, <1>7 DEF RestTyped, IInv, TypeOK
<1>9. Idle.pc = "idle" /\ Idle.kind = "none" /\ Shaped(Idle) /\ Follows(b, Idle)
  BY <1>2, IdleFacts DEF Shaped, Follows, Writes
<1>10. call'[r] = Idle /\ \A q \in Req \ {r} : call'[q] = call[q]
  BY <1>3, <1>9, CallsStep DEF Moves, IInv
<1>11. CASE login' = login
  <2>1. LoginInv'
    BY <1>3, <1>9, <1>11, LoginKept DEF IInv, Redeeming
  <2> QED BY <1>1, <1>2, <1>3, <1>8, <1>9, <1>11, <2>1, CoreStep DEF Holding
<1>12. CASE b.kind = "login" /\ login' = [login EXCEPT ![b.login] = "sent"]
  <2>1. PICK s \in Session : s = b.login
    BY <1>2, <1>12
  <2>2. login[s] = "begun" /\ login'[s] = "sent" /\ \A t \in Session \ {s} : login'[t] = login[t]
    BY <1>1, <1>12, <2>1 DEF IInv, LoginInv, TypeOK
  <2>3. ASSUME NEW q \in Req \ {r}, call[q].login = s PROVE call[q].kind \notin {"login", "callback"}
    BY <1>1, <1>12, <2>1, <2>2, <2>3 DEF IInv, LoginInv
  <2>4. \A q \in Req : call[q].pc = "exchange" \/ Redeeming(call[q]) => call[q].kind = "callback"
    BY DEF IInv, CallsInv, Placed, Callbacks, Redeeming
  <2>5. \A q \in Req : call[q].kind \in {"login", "callback"} => call[q].login \in Session
    BY DEF IInv, CallsInv, Placed
  <2>6. LoginInv'
    <3>1. \A t \in preAuth' : login'[t] \in {"begun", "sent"}
      BY <1>3, <2>2 DEF IInv, LoginInv, TypeOK
    <3>2. ASSUME NEW q \in Req
          PROVE  /\ call'[q].kind = "login" => login'[call'[q].login] = "begun"
                 /\ call'[q].kind = "callback" => login'[call'[q].login] \in {"sent", "exchanged"}
                 /\ call'[q].pc = "exchange" =>
                        login'[call'[q].login] = "sent" /\ call'[q].login \notin preAuth'
                 /\ Redeeming(call'[q]) => login'[call'[q].login] = "exchanged"
      <4>1. CASE q = r
        BY <1>9, <1>10, <4>1 DEF Redeeming
      <4>2. CASE q # r /\ call[q].kind \in {"login", "callback"}
        <5>1. call[q].login \in Session \ {s}
          BY <2>3, <2>5, <4>2
        <5>2. login'[call[q].login] = login[call[q].login] /\ call'[q] = call[q] /\ preAuth' = preAuth
          BY <1>3, <1>10, <2>2, <4>2, <5>1
        <5> QED BY <5>2 DEF IInv, LoginInv, Redeeming
      <4>3. CASE q # r /\ call[q].kind \notin {"login", "callback"}
        BY <1>10, <2>4, <4>3
      <4> QED BY <4>1, <4>2, <4>3
    <3>3. ASSUME NEW p \in Req, NEW q \in Req, p # q, call'[p].login = call'[q].login
          PROVE  /\ ~(call'[p].kind = "login" /\ call'[q].kind = "login")
                 /\ ~(call'[p].pc = "exchange" /\ call'[q].pc = "exchange")
                 /\ ~(Redeeming(call'[p]) /\ Redeeming(call'[q]))
      <4>1. CASE p = r \/ q = r
        BY <1>9, <1>10, <3>3, <4>1 DEF Redeeming
      <4>2. CASE p # r /\ q # r
        BY <1>10, <3>3, <4>2 DEF IInv, LoginInv, Redeeming
      <4> QED BY <4>1, <4>2
    <3> QED BY <3>1, <3>2, <3>3 DEF LoginInv, Redeeming
  <2>7. \A t \in Session : login'[t] = "exchanged" <=> login[t] = "exchanged"
    BY <2>2
  <2> QED BY <1>1, <1>2, <1>3, <1>8, <1>9, <2>6, <2>7, CoreStep DEF Holding
<1> QED
  BY <1>4, <1>11, <1>12

\* A request that comes in with the browser's cookies, or as a notice.
LEMMA ArriveStep ==
  ASSUME IInv, NEW r \in Req, NEW c, Shaped(c), Moves(r, c), call[r] = Idle, RestTyped', LoginInv',
         UNCHANGED <<stores, cookie, history>>, c.pc \in {"load", "members"}, c.ops = {},
         c.cookie \in {cookie, NoSession}, c.id = NoSession, c.next = "keep",
         \A s \in Session : login'[s] = "exchanged" <=> login[s] = "exchanged",
         \A s \in Session : family'[s].head = family[s].head
  PROVE  IInv'
<1>1. Idle.ops = {} /\ Idle.pc = "idle"
  BY IdleFacts
<1>2. Follows(Idle, c)
  BY <1>1 DEF Follows, Writes
<1> QED
  BY <1>1, <1>2, CoreStep DEF Holding

\* Logins, when a request comes in that does not begin one.
LEMMA LoginOnArrival ==
  ASSUME TypeOK, CallsInv, LoginInv, NEW r \in Req, NEW c, Shaped(c), Moves(r, c),
         login' = login, preAuth' = preAuth, c.pc \in {"load", "members"},
         c.kind # "login", c.kind = "callback" => login[c.login] \in {"sent", "exchanged"}
  PROVE  LoginInv'
<1>1. call'[r] = c /\ \A q \in Req \ {r} : call'[q] = call[q]
  BY CallsStep DEF Moves
<1> QED
  BY <1>1 DEF LoginInv

\* What a request of the browser starts as.
LEMMA FromBrowserFacts ==
  ASSUME TypeOK
  PROVE  /\ FromBrowser \in Calls /\ FromBrowser.pc = "load" /\ FromBrowser.cookie = cookie
         /\ FromBrowser.id = NoSession /\ FromBrowser.next = "keep" /\ FromBrowser.ops = {}
<1>1. PICK d1 : d1 = [Idle EXCEPT !.pc = "load"]
  OBVIOUS
<1>2. PICK d2 : d2 = [d1 EXCEPT !.cookie = cookie]
  OBVIOUS
<1>3. FromBrowser = [d2 EXCEPT !.pre = preAuthCookie]
  BY <1>1, <1>2 DEF FromBrowser
<1>4. cookie \in Ids /\ preAuthCookie \in Ids /\ "load" \in Points
  BY DEF TypeOK, Points
<1>5. d1 \in Calls /\ d1.pc = "load" /\ d1.id = NoSession /\ d1.next = "keep" /\ d1.ops = {}
  BY <1>1, <1>4, IdleFacts, SetPc
<1>6. /\ d2 \in Calls /\ d2.pc = "load" /\ d2.id = NoSession /\ d2.next = "keep" /\ d2.ops = {}
      /\ d2.cookie = cookie
  BY <1>2, <1>4, <1>5, SetCookie
<1> QED
  BY <1>3, <1>4, <1>6, SetPre

\* A request arrives.
Arrived(r) ==
    call[r] = Idle /\ left > 0 /\ left' = left - 1

LEMMA BeginLoginStep == ASSUME IInv, NEW r \in Req, BeginLogin(r) PROVE IInv'
<1>1. PICK s \in Session :
         /\ login[s] = "none" /\ login' = [login EXCEPT ![s] = "begun"]
         /\ Arrive(r, "login", [FromBrowser EXCEPT !.login = s])
         /\ UNCHANGED <<stores, cookie, preAuthCookie, faults, provider, history>>
  BY DEF BeginLogin
<1>2. PICK c1 : c1 = [FromBrowser EXCEPT !.login = s]
  OBVIOUS
<1>3. PICK c : c = [c1 EXCEPT !.kind = "login"]
  OBVIOUS
<1>4. Moves(r, c) /\ Arrived(r) /\ "login" \in {"none"} \cup Arrivals
  BY <1>1, <1>2, <1>3 DEF Arrive, Moves, Arrived
<1>5. /\ c1 \in Calls /\ c1.pc = "load" /\ c1.cookie = cookie /\ c1.login = s
      /\ c1.id = NoSession /\ c1.next = "keep" /\ c1.ops = {}
  <2>1. s \in Ids
    BY DEF Ids
  <2> QED BY <1>2, <2>1, FromBrowserFacts, SetLogin DEF IInv
<1>6. /\ c \in Calls /\ c.pc = "load" /\ c.cookie = cookie /\ c.login = s /\ c.kind = "login"
      /\ c.id = NoSession /\ c.next = "keep" /\ c.ops = {}
  BY <1>3, <1>4, <1>5, SetKind
<1>7. Shaped(c)
  BY <1>6 DEF Shaped, Placed, Browsing, Callbacks, Relays
<1>8. call'[r] = c /\ \A q \in Req \ {r} : call'[q] = call[q]
  BY <1>4, <1>7, CallsStep DEF Moves, IInv
<1>9. login'[s] = "begun" /\ \A t \in Session \ {s} : login'[t] = login[t]
  BY <1>1 DEF IInv, TypeOK
<1>10. RestTyped'
  BY <1>1, <1>4, Constants DEF RestTyped, IInv, TypeOK, Arrived
<1>11. \A q \in Req : call[q].pc = "exchange" \/ Redeeming(call[q]) => call[q].kind = "callback"
  BY DEF IInv, CallsInv, Placed, Callbacks, Redeeming
<1>12. \A q \in Req : call[q].kind \in {"login", "callback"} => call[q].login \in Session \ {s}
  BY <1>1 DEF IInv, CallsInv, Placed, LoginInv
<1>13. LoginInv'
  <2>1. \A t \in preAuth' : login'[t] \in {"begun", "sent"}
    BY <1>1, <1>9 DEF IInv, LoginInv, TypeOK
  <2>2. ASSUME NEW q \in Req
        PROVE  /\ call'[q].kind = "login" => login'[call'[q].login] = "begun"
               /\ call'[q].kind = "callback" => login'[call'[q].login] \in {"sent", "exchanged"}
               /\ call'[q].pc = "exchange" =>
                      login'[call'[q].login] = "sent" /\ call'[q].login \notin preAuth'
               /\ Redeeming(call'[q]) => login'[call'[q].login] = "exchanged"
    <3>1. CASE q = r
      BY <1>6, <1>8, <1>9, <3>1 DEF Redeeming
    <3>2. CASE q # r /\ call[q].kind \in {"login", "callback"}
      <4>1. login'[call[q].login] = login[call[q].login] /\ call'[q] = call[q] /\ preAuth' = preAuth
        BY <1>1, <1>8, <1>9, <1>12, <3>2
      <4> QED BY <4>1 DEF IInv, LoginInv, Redeeming
    <3>3. CASE q # r /\ call[q].kind \notin {"login", "callback"}
      BY <1>8, <1>11, <3>3
    <3> QED BY <3>1, <3>2, <3>3
  <2>3. ASSUME NEW p \in Req, NEW q \in Req, p # q, call'[p].login = call'[q].login
        PROVE  /\ ~(call'[p].kind = "login" /\ call'[q].kind = "login")
               /\ ~(call'[p].pc = "exchange" /\ call'[q].pc = "exchange")
               /\ ~(Redeeming(call'[p]) /\ Redeeming(call'[q]))
    <3>1. CASE p = r \/ q = r
      BY <1>6, <1>8, <1>12, <2>3, <3>1 DEF Redeeming
    <3>2. CASE p # r /\ q # r
      BY <1>8, <2>3, <3>2 DEF IInv, LoginInv, Redeeming
    <3> QED BY <3>1, <3>2
  <2> QED BY <2>1, <2>2, <2>3 DEF LoginInv, Redeeming
<1>14. \A t \in Session : login'[t] = "exchanged" <=> login[t] = "exchanged"
  BY <1>1, <1>9
<1> QED
  BY <1>1, <1>4, <1>6, <1>7, <1>10, <1>13, <1>14, ArriveStep DEF Arrived

LEMMA CallbackStep == ASSUME IInv, NEW r \in Req, Callback(r) PROVE IInv'
<1>1. PICK s \in Session, x \in BOOLEAN :
         /\ login[s] \in {"sent", "exchanged"}
         /\ Arrive(r, "callback", [FromBrowser EXCEPT !.login = s, !.denied = x])
         /\ UNCHANGED <<stores, browser, provider, history>>
  BY DEF Callback
<1>2. PICK c1 : c1 = [FromBrowser EXCEPT !.login = s]
  OBVIOUS
<1>3. PICK c2 : c2 = [c1 EXCEPT !.denied = x]
  OBVIOUS
<1>4. PICK c : c = [c2 EXCEPT !.kind = "callback"]
  OBVIOUS
<1>5. Moves(r, c) /\ Arrived(r) /\ "callback" \in {"none"} \cup Arrivals
  BY <1>1, <1>2, <1>3, <1>4 DEF Arrive, Moves, Arrived
<1>6. /\ c1 \in Calls /\ c1.pc = "load" /\ c1.cookie = cookie /\ c1.login = s
      /\ c1.id = NoSession /\ c1.next = "keep" /\ c1.ops = {}
  <2>1. s \in Ids
    BY DEF Ids
  <2> QED BY <1>2, <2>1, FromBrowserFacts, SetLogin DEF IInv
<1>7. /\ c2 \in Calls /\ c2.pc = "load" /\ c2.cookie = cookie /\ c2.login = s
      /\ c2.id = NoSession /\ c2.next = "keep" /\ c2.ops = {}
  BY <1>3, <1>6, SetDenied
<1>8. /\ c \in Calls /\ c.pc = "load" /\ c.cookie = cookie /\ c.login = s /\ c.kind = "callback"
      /\ c.id = NoSession /\ c.next = "keep" /\ c.ops = {}
  BY <1>4, <1>5, <1>7, SetKind
<1>9. Shaped(c)
  BY <1>8 DEF Shaped, Placed, Browsing, Callbacks, Relays
<1>10. RestTyped'
  BY <1>1, <1>5, Constants DEF RestTyped, IInv, TypeOK, Arrived
<1>11. LoginInv'
  BY <1>1, <1>5, <1>8, <1>9, LoginOnArrival DEF IInv
<1> QED
  BY <1>1, <1>5, <1>8, <1>9, <1>10, <1>11, ArriveStep DEF Arrived

\* A call of the API, the question who is logged in, or a logout.
LEMMA BrowserStep ==
  ASSUME IInv, NEW r \in Req, NEW k \in {"api", "session", "logout"}, Arrive(r, k, FromBrowser),
         UNCHANGED <<stores, browser, provider, history>>
  PROVE  IInv'
<1>1. PICK c : c = [FromBrowser EXCEPT !.kind = k]
  OBVIOUS
<1>2. Moves(r, c) /\ Arrived(r) /\ k \in {"none"} \cup Arrivals
  BY <1>1 DEF Arrive, Moves, Arrived
<1>3. /\ c \in Calls /\ c.pc = "load" /\ c.cookie = cookie /\ c.kind = k
      /\ c.id = NoSession /\ c.next = "keep" /\ c.ops = {}
  BY <1>1, <1>2, FromBrowserFacts, SetKind DEF IInv
<1>4. Shaped(c)
  BY <1>3 DEF Shaped, Placed, Browsing, Callbacks, Relays
<1>5. RestTyped'
  BY <1>2, Constants DEF RestTyped, IInv, TypeOK, Arrived
<1>6. LoginInv'
  BY <1>2, <1>3, <1>4, LoginOnArrival DEF IInv
<1> QED
  BY <1>2, <1>3, <1>4, <1>5, <1>6, ArriveStep DEF Arrived

LEMMA ApiCallStep == ASSUME IInv, NEW r \in Req, ApiCall(r) PROVE IInv'
  BY BrowserStep DEF ApiCall

LEMMA LogoutStep == ASSUME IInv, NEW r \in Req, Logout(r) PROVE IInv'
  BY BrowserStep DEF Logout

\* The notice finds the families of its sid revoked.
LEMMA BackchannelStep == ASSUME IInv, NEW r \in Req, Backchannel(r) PROVE IInv'
<1>1. PICK d \in Sid :
         /\ Arrive(r, "backchannel", [Idle EXCEPT !.pc = "members", !.sid = d])
         /\ family' = [s \in Session |->
                IF SidOf[s] = d THEN [family[s] EXCEPT !.alive = FALSE] ELSE family[s]]
         /\ UNCHANGED <<stores, browser, due, history>>
  BY DEF Backchannel
<1>2. PICK c1 : c1 = [Idle EXCEPT !.pc = "members"]
  OBVIOUS
<1>3. PICK c2 : c2 = [c1 EXCEPT !.sid = d]
  OBVIOUS
<1>4. PICK c : c = [c2 EXCEPT !.kind = "backchannel"]
  OBVIOUS
<1>5. Moves(r, c) /\ Arrived(r) /\ "backchannel" \in {"none"} \cup Arrivals
  BY <1>1, <1>2, <1>3, <1>4 DEF Arrive, Moves, Arrived
<1>6. /\ c1 \in Calls /\ c1.pc = "members" /\ c1.cookie = NoSession
      /\ c1.id = NoSession /\ c1.next = "keep" /\ c1.ops = {}
  BY <1>2, IdleFacts, SetPc DEF Points
<1>7. /\ c2 \in Calls /\ c2.pc = "members" /\ c2.cookie = NoSession
      /\ c2.id = NoSession /\ c2.next = "keep" /\ c2.ops = {}
  BY <1>3, <1>6 DEF Calls
<1>8. /\ c \in Calls /\ c.pc = "members" /\ c.cookie = NoSession /\ c.kind = "backchannel"
      /\ c.id = NoSession /\ c.next = "keep" /\ c.ops = {}
  BY <1>4, <1>5, <1>7, SetKind
<1>9. Shaped(c)
  BY <1>8 DEF Shaped, Placed, Browsing, Callbacks, Relays
<1>10. /\ family' \in [Session -> [head : Gens, alive : BOOLEAN]]
       /\ \A s \in Session : family'[s].head = family[s].head
  <2>1. family \in [Session -> [head : Gens, alive : BOOLEAN]]
    BY DEF IInv, TypeOK
  <2>2. ASSUME NEW s \in Session
        PROVE  family'[s] \in [head : Gens, alive : BOOLEAN] /\ family'[s].head = family[s].head
    <3>1. family[s] \in [head : Gens, alive : BOOLEAN]
      BY <2>1
    <3>2. CASE SidOf[s] = d
      BY <1>1, <3>1, <3>2
    <3>3. CASE SidOf[s] # d
      BY <1>1, <3>1, <3>3
    <3> QED BY <3>2, <3>3
  <2>3. family' = [s \in Session |-> family'[s]]
    BY <1>1
  <2> QED BY <2>2, <2>3
<1>11. RestTyped'
  BY <1>1, <1>5, <1>10, Constants DEF RestTyped, IInv, TypeOK, Arrived
<1>12. LoginInv'
  BY <1>1, <1>5, <1>8, <1>9, LoginOnArrival DEF IInv
<1> QED
  BY <1>1, <1>5, <1>8, <1>9, <1>10, <1>11, <1>12, ArriveStep DEF Arrived


-----------------------------------------------------------------------------
(* Sessions are created *)

\* A session not yet being created stays so: nobody has heard of it.
LEMMA UnbornStays ==
  ASSUME TypeOK, CallsInv, StoreInv, NEW r \in Req, NEW c, Shaped(c), Moves(r, c), NEW s \in Session,
         Unborn(s), UNCHANGED <<sessions, sessionsBySid, cookie, ended>>,
         family'[s].head = family[s].head,
         c.cookie \in {call[r].cookie, NoSession}, c.id = NoSession,
         c.next \in {call[r].next, "keep"}, c.ops = {}
  PROVE  StoreOf(s)'
<1>1. call'[r] = c /\ \A q \in Req \ {r} : call'[q] = call[q]
  BY CallsStep DEF Moves
<1>2. /\ ~Stored(s) /\ ~Listed(s) /\ s \notin ended /\ cookie # s /\ family[s].head = 0
      /\ \A q \in Req : ~Knows(q, s)
      /\ \A q \in Req, o \in {"set", "add", "delete", "remove"} : ~Has(q, o, s)
  BY DEF StoreInv, UnbornOf, SecretOf, Unborn, Secret, Creating
<1>3. \A q \in Req : ~Knows(q, s)'
  BY <1>1, <1>2, Constants DEF Knows
<1>4. \A q \in Req, o \in {"set", "add", "delete", "remove"} : ~Has(q, o, s)'
  BY <1>1, <1>2 DEF Has
<1>5. ~Stored(s)' /\ ~Listed(s)' /\ s \notin ended' /\ cookie' # s /\ family'[s].head = 0
  BY <1>2 DEF Stored, Listed
<1>6. \A q \in Req : ~MayWrite(q, s)' /\ call'[q].id # s /\ call'[q].cookie # s
  BY <1>3, <1>4 DEF MayWrite, Has, Knows
<1>7. \A q \in Req : CopyOf(q, s)'
  BY <1>4, <1>6 DEF CopyOf
<1> QED
  BY <1>3, <1>4, <1>5, <1>7 DEF StoreOf, SecretOf, UnbornOf, EndedOf, ListedOf

\* A step that touches no key of the store, told session by session.
LEMMA TokensAlone ==
  ASSUME IInv, NEW r \in Req, NEW c, Shaped(c), Moves(r, c),
         \A s \in Session : MarksKept(s),
         \A s \in Session : Stored(s)' /\ Steady(s)' => Stored(s) /\ sessions'[s].gen = sessions[s].gen,
         \A s \in Session : family'[s].head = family[s].head,
         refreshLocks' = refreshLocks,
         call[r].pc \notin {"save"}, c.pc \notin {"save", "touchSet", "refresh"},
         Holding(c) => Holding(call[r]) /\ c.id = call[r].id
  PROVE  TokenInv'
<1>1. call'[r] = c
  BY CallsStep DEF Moves, IInv
<1>2. ASSUME NEW s \in Session PROVE TokenOf(s)'
  <2>1. (Holds(r, s)' => Holds(r, s)) /\ ~Saving(r, s)
    BY <1>1 DEF Holds, Holding, Saving
  <2> QED BY <2>1, TokenKept DEF IInv
<1> QED
  BY <1>2 DEF TokenInv, TokenOf

\* The code is sent: the session is being prepared.
LEMMA ExchangeCodeStep == ASSUME IInv, NEW r \in Req, ExchangeCode(r) PROVE IInv'
<1>1. PICK b : b = call[r]
  OBVIOUS
<1>2. /\ b \in Calls /\ Placed(b) /\ b.pc = "exchange" /\ b.ops = {} /\ b.kind = "callback"
      /\ b.id = NoSession /\ b.login \in Session /\ login[b.login] = "sent" /\ b.login \notin preAuth
  BY <1>1, CallFacts DEF IInv, ExchangeCode, Placed, Callbacks, LoginInv
<1>3. PICK s \in Session : s = b.login
  BY <1>2
<1>4. /\ login' = [login EXCEPT ![s] = "exchanged"]
      /\ family' = [family EXCEPT ![s].alive = TRUE]
      /\ marks' = marks /\ left' = left /\ (faults' = faults \/ (faults > 0 /\ faults' = faults - 1))
      /\ Moves(r, [b EXCEPT !.pc = "verify"]) \/ Moves(r, Answer(b))
      /\ UNCHANGED <<stores, cookie, preAuthCookie, due, ended>>
  BY <1>1, <1>2, <1>3 DEF ExchangeCode, Moves
<1>5. /\ family' \in [Session -> [head : Gens, alive : BOOLEAN]]
      /\ \A t \in Session : family'[t].head = family[t].head
  <2>1. family \in [Session -> [head : Gens, alive : BOOLEAN]]
    BY DEF IInv, TypeOK
  <2> QED BY <1>4, <2>1
<1>6. /\ login' \in [Session -> {"none", "begun", "sent", "exchanged"}]
      /\ login'[s] = "exchanged" /\ \A t \in Session \ {s} : login'[t] = login[t]
  <2>1. login \in [Session -> {"none", "begun", "sent", "exchanged"}]
    BY DEF IInv, TypeOK
  <2> QED BY <1>4, <2>1
<1>7. RestTyped'
  BY <1>4, <1>5, <1>6, Constants DEF RestTyped, IInv, TypeOK
<1>8. PICK c : /\ Moves(r, c) /\ c \in Calls /\ c.pc \in {"verify", "respond"} /\ c.kind = "callback"
               /\ c.login = s /\ c.next = b.next /\ c.cookie \in {b.cookie, NoSession}
               /\ c.id = NoSession /\ c.ops = {} /\ Placed(c)
  <2>1. CASE Moves(r, [b EXCEPT !.pc = "verify"])
    <3>1. PICK c : c = [b EXCEPT !.pc = "verify"]
      OBVIOUS
    <3>2. /\ c \in Calls /\ c.pc = "verify" /\ c.kind = b.kind /\ c.login = b.login
          /\ c.next = b.next /\ c.cookie = b.cookie /\ c.id = b.id /\ c.ops = {}
      BY <1>2, <3>1, SetPc DEF Points
    <3>3. Placed(c)
      BY <1>2, <3>2 DEF Placed, Callbacks, Relays
    <3> QED BY <1>2, <1>3, <2>1, <3>1, <3>2, <3>3
  <2>2. CASE Moves(r, Answer(b))
    <3>1. PICK c : c = Answer(b)
      OBVIOUS
    <3>2. /\ c \in Calls /\ Placed(c) /\ c.pc = "respond" /\ c.kind = b.kind /\ c.login = b.login
          /\ c.next = b.next /\ c.ops = {} /\ c.id = NoSession /\ c.cookie = NoSession
      BY <1>2, <3>1, AnswerFacts
    <3> QED BY <1>2, <1>3, <2>2, <3>1, <3>2
  <2> QED BY <1>4, <2>1, <2>2
<1>9. Shaped(c)
  BY <1>8 DEF Shaped
<1>10. /\ CallsInv' /\ call' \in [Req -> Calls] /\ call'[r] = c
       /\ \A q \in Req \ {r} : call'[q] = call[q]
  BY <1>8, <1>9, CallsStep DEF Moves, IInv
<1>11. TypeOK'
  BY <1>7, <1>10 DEF TypeOK, RestTyped
<1>12. \A q \in Req \ {r} : call[q].login = s =>
           call[q].kind # "login" /\ call[q].pc # "exchange" /\ ~Redeeming(call[q])
  BY <1>1, <1>2, <1>3 DEF IInv, LoginInv, Redeeming
<1>13. LoginInv'
  <2>1. \A t \in preAuth' : login'[t] \in {"begun", "sent"}
    BY <1>2, <1>3, <1>4, <1>6 DEF IInv, LoginInv, TypeOK
  <2>2. ASSUME NEW q \in Req
        PROVE  /\ call'[q].kind = "login" => login'[call'[q].login] = "begun"
               /\ call'[q].kind = "callback" => login'[call'[q].login] \in {"sent", "exchanged"}
               /\ call'[q].pc = "exchange" =>
                      login'[call'[q].login] = "sent" /\ call'[q].login \notin preAuth'
               /\ Redeeming(call'[q]) => login'[call'[q].login] = "exchanged"
    <3>1. CASE q = r
      BY <1>6, <1>8, <1>10, <3>1 DEF Redeeming
    <3>2. CASE q # r /\ call[q].login = s
      BY <1>6, <1>10, <1>12, <3>2
    <3>3. CASE q # r /\ call[q].login # s /\ call[q].kind \in {"login", "callback"}
      <4>1. call[q].login \in Session \ {s}
        BY <3>3 DEF IInv, CallsInv, Placed
      <4>2. login'[call[q].login] = login[call[q].login] /\ call'[q] = call[q] /\ preAuth' = preAuth
        BY <1>4, <1>6, <1>10, <3>3, <4>1
      <4> QED BY <4>2 DEF IInv, LoginInv, Redeeming
    <3>4. CASE q # r /\ call[q].kind \notin {"login", "callback"}
      <4>1. call[q].pc # "exchange" /\ ~Redeeming(call[q])
        BY <3>4 DEF IInv, CallsInv, Placed, Callbacks, Redeeming
      <4> QED BY <1>10, <3>4, <4>1
    <3> QED BY <3>1, <3>2, <3>3, <3>4
  <2>3. ASSUME NEW p \in Req, NEW q \in Req, p # q, call'[p].login = call'[q].login
        PROVE  /\ ~(call'[p].kind = "login" /\ call'[q].kind = "login")
               /\ ~(call'[p].pc = "exchange" /\ call'[q].pc = "exchange")
               /\ ~(Redeeming(call'[p]) /\ Redeeming(call'[q]))
    <3>1. CASE p = r \/ q = r
      BY <1>8, <1>10, <1>12, <2>3, <3>1
    <3>2. CASE p # r /\ q # r
      BY <1>10, <2>3, <3>2 DEF IInv, LoginInv, Redeeming
    <3> QED BY <3>1, <3>2
  <2> QED BY <2>1, <2>2, <2>3 DEF LoginInv, Redeeming
<1>14. StoreInv'
  <2>1. ListsTyped'
    BY <1>4 DEF ListsTyped, IInv, StoreInv
  <2>2. StoreOf(s)'
    <3>1. Unborn(s)
      BY <1>2, <1>3 DEF Unborn
    <3> QED BY <1>1, <1>4, <1>5, <1>8, <1>9, <3>1, UnbornStays DEF IInv
  <2>3. ASSUME NEW t \in Session \ {s} PROVE StoreOf(t)'
    <3>1. /\ ~Creating(r, t)' /\ ~Preparing(r, t)' /\ ~Creating(r, t)
      BY <1>1, <1>2, <1>3, <1>8, <1>10 DEF Creating, Preparing
    <3>2. Stored(t)' = Stored(t) /\ Listed(t)' = Listed(t) /\ Revived(t)' = Revived(t)
      BY <1>4 DEF Stored, Listed, Revived
    <3>3. Knows(r, t)' => Knows(r, t)
      BY <1>1, <1>2, <1>8, <1>10 DEF Knows
    <3>4. \A o \in {"set", "add", "delete", "remove"} : ~Has(r, o, t)' /\ ~Has(r, o, t)
      BY <1>1, <1>2, <1>8, <1>10 DEF Has
    <3>5. ~MayWrite(r, t)' /\ ~Touches(r, t)'
      BY <1>8, <1>10, <3>4 DEF MayWrite, Has, Touches
    <3>6. login'[t] = login[t] /\ family'[t].head = family[t].head /\ cookie' = cookie /\ ended' = ended
      BY <1>4, <1>5, <1>6
    <3>7. c.pc \notin {"dropExisting", "create", "dropReload"}
      BY <1>8
    <3> QED BY <1>8, <1>9, <3>1, <3>2, <3>3, <3>4, <3>5, <3>6, <3>7, StoreKept DEF IInv
  <2> QED BY <2>1, <2>2, <2>3 DEF StoreInv, StoreOf, ListsTyped
<1>15. TokenInv'
  <2>1. \A t \in Session : MarksKept(t)
    BY <1>4 DEF MarksKept, IInv, TokenInv
  <2>2. \A t \in Session : Stored(t)' => Stored(t) /\ sessions'[t].gen = sessions[t].gen
    BY <1>4 DEF Stored
  <2>3. ~Holding(c) /\ c.pc \notin {"save", "touchSet", "refresh"} /\ b.pc # "save"
    BY <1>2, <1>8 DEF Holding
  <2> QED BY <1>1, <1>4, <1>5, <1>8, <1>9, <2>1, <2>2, <2>3, TokensAlone
<1> QED
  BY <1>10, <1>11, <1>13, <1>14, <1>15 DEF IInv


\* The session a login replaces is gone, and the new one is written and listed.
LEMMA CreateStep ==
  ASSUME IInv, NEW r \in Req, NEW b, b = call[r], b.pc \in {"existing", "dropExisting"}, b.ops = {},
         Moves(r, CreateSession(b)), Calm, preAuth' = preAuth, family' = family,
         b.cookie \in Session => Gone(b.cookie)
  PROVE  IInv'
<1>1. /\ b \in Calls /\ Placed(b) /\ b.kind = "callback" /\ b.id = NoSession /\ b.login \in Session
      /\ login[b.login] = "exchanged"
  BY CallFacts DEF IInv, Placed, Callbacks, LoginInv
<1>2. PICK s \in Session : s = b.login
  BY <1>1
<1>3. PICK c : c = CreateSession(b)
  OBVIOUS
<1>4. /\ c \in Calls /\ c.pc = "create" /\ c.kind = b.kind /\ c.login = s /\ c.ops = CreateOps(s)
      /\ c.next = b.next /\ c.cookie = b.cookie /\ c.id = b.id
  <2>1. PICK c1 : c1 = [b EXCEPT !.pc = "create"]
    OBVIOUS
  <2>2. c = [c1 EXCEPT !.ops = CreateOps(s)]
    BY <1>2, <1>3, <2>1 DEF CreateSession
  <2>3. CreateOps(s) \in SUBSET Commands /\ "create" \in Points
    BY DEF CreateOps, Commands, Points
  <2>4. /\ c1 \in Calls /\ c1.pc = "create" /\ c1.kind = b.kind /\ c1.login = b.login
        /\ c1.next = b.next /\ c1.cookie = b.cookie /\ c1.id = b.id
    BY <1>1, <2>1, <2>3, SetPc
  <2> QED BY <1>2, <2>2, <2>3, <2>4, SetOps
<1>5. Shaped(c) /\ Moves(r, c)
  BY <1>1, <1>2, <1>3, <1>4 DEF Shaped, Placed, Issued, Callbacks, Relays
<1>6. /\ CallsInv' /\ call' \in [Req -> Calls] /\ call'[r] = c
      /\ \A q \in Req \ {r} : call'[q] = call[q]
  BY <1>5, CallsStep DEF Moves, IInv
<1>7. TypeOK'
  BY <1>6 DEF TypeOK, RestTyped, Calm
<1>8. LoginInv'
  BY <1>1, <1>2, <1>4, <1>5, LoginKept DEF IInv, Redeeming, Calm
<1>9. /\ sessions' = sessions /\ sessionsBySid' = sessionsBySid /\ ended' = ended /\ marks' = marks
      /\ cookie' = cookie /\ login' = login /\ refreshLocks' = refreshLocks
  BY DEF Calm
<1>10. StoreOf(s)'
  <2>1. Preparing(r, s)
    BY <1>2 DEF Preparing
  <2>2. /\ ~Stored(s) /\ ~Listed(s) /\ s \notin ended /\ cookie # s /\ family[s].head = 0
        /\ \A q \in Req : ~Knows(q, s)
        /\ \A q \in Req, o \in {"set", "add", "delete", "remove"} : ~Has(q, o, s)
    BY <2>1 DEF IInv, StoreInv, UnbornOf, SecretOf, Unborn, Secret, Creating
  <2>3. \A q \in Req : ~Knows(q, s)'
    BY <1>4, <1>6, <2>2 DEF Knows
  <2>4. \A q \in Req \ {r}, o \in {"set", "add", "delete", "remove"} : ~Has(q, o, s)'
    BY <1>6, <2>2 DEF Has
  <2>5. Has(r, "set", s)' /\ Has(r, "add", s)' /\ ~Has(r, "delete", s)' /\ ~Has(r, "remove", s)'
    BY <1>4, <1>6 DEF Has, CreateOps
  <2>6. ~Unborn(s)'
    <3>1. \A q \in Req \ {r} : ~Preparing(q, s)
      BY <1>2, <2>1 DEF IInv, LoginInv, Preparing
    <3> QED BY <1>1, <1>2, <1>4, <1>6, <1>9, <3>1 DEF Unborn, Preparing
  <2>7. ~Stored(s)' /\ s \notin ended' /\ cookie' # s /\ family'[s].head = 0
    BY <1>9, <2>2 DEF Stored
  <2>8. ASSUME NEW q \in Req PROVE CopyOf(q, s)'
    <3>1. call'[q].id # s /\ call'[q].cookie # s
      BY <2>3 DEF Knows
    <3>2. MayWrite(q, s)' => Has(q, "set", s)'
      BY <3>1 DEF MayWrite, Has
    <3>3. Has(q, "set", s)' => Has(q, "add", s)'
      BY <2>4, <2>5
    <3>4. ~Has(q, "remove", s)'
      BY <2>4, <2>5
    <3> QED BY <2>7, <3>1, <3>2, <3>3, <3>4 DEF CopyOf
  <2> QED BY <2>3, <2>6, <2>7, <2>8 DEF StoreOf, SecretOf, UnbornOf, EndedOf, ListedOf
<1>11. ASSUME NEW t \in Session \ {s} PROVE StoreOf(t)'
  <2>1. ~Creating(r, t)' /\ ~Preparing(r, t)' /\ ~Creating(r, t)
    BY <1>2, <1>4, <1>6 DEF Creating, Preparing
  <2>2. Stored(t)' = Stored(t) /\ Listed(t)' = Listed(t) /\ Revived(t)' = Revived(t)
    BY <1>9 DEF Stored, Listed, Revived
  <2>3. Knows(r, t)' => Knows(r, t)
    BY <1>4, <1>6 DEF Knows
  <2>4. \A o \in {"set", "add", "delete", "remove"} : ~Has(r, o, t)' /\ ~Has(r, o, t)
    BY <1>4, <1>6 DEF Has, CreateOps
  <2>5. ~MayWrite(r, t)' /\ ~Touches(r, t)'
    BY <1>4, <1>6, <2>4 DEF MayWrite, Has, Touches
  <2>6. login'[t] = login[t] /\ family'[t].head = family[t].head /\ cookie' = cookie /\ ended' = ended
    BY <1>9
  <2>7. c.cookie = t => Gone(t)
    BY <1>4
  <2>8. c.pc \notin {"dropExisting", "dropReload"}
    BY <1>4
  <2> QED BY <1>5, <2>1, <2>2, <2>3, <2>4, <2>5, <2>6, <2>7, <2>8, StoreKept DEF IInv
<1>12. StoreInv'
  <2>1. ListsTyped'
    BY <1>9 DEF ListsTyped, IInv, StoreInv
  <2> QED BY <1>10, <1>11, <2>1 DEF StoreInv, StoreOf, ListsTyped
<1>13. TokenInv'
  <2>1. \A t \in Session : MarksKept(t)
    BY <1>9 DEF MarksKept, IInv, TokenInv
  <2>2. \A t \in Session : Stored(t)' => Stored(t) /\ sessions'[t].gen = sessions[t].gen
    BY <1>9 DEF Stored
  <2>3. ~Holding(c) /\ c.pc \notin {"save", "touchSet", "refresh"} /\ b.pc # "save"
    BY <1>4 DEF Holding
  <2> QED BY <1>5, <1>9, <2>1, <2>2, <2>3, TokensAlone
<1> QED
  BY <1>6, <1>7, <1>8, <1>12, <1>13 DEF IInv

\* A session somebody knows that is not stored has nobody left to write it back.
LEMMA AbsentIsGone ==
  ASSUME IInv, NEW r \in Req, NEW s \in Session, Knows(r, s), ~Stored(s)
  PROVE  Gone(s)
<1>1. ASSUME NEW q \in Req, Has(q, "set", s) PROVE FALSE
  <2>1. Creating(q, s)
    BY <1>1, CallFacts DEF Creating, IInv
  <2> QED BY <2>1 DEF IInv, StoreInv, SecretOf, Secret
<1>2. \A q \in Req : MayWrite(q, s) => Revived(s)
  BY <1>1 DEF IInv, StoreInv, CopyOf
<1> QED
  BY <1>2 DEF Gone

LEMMA LoadExistingStep == ASSUME IInv, NEW r \in Req, LoadExisting(r) PROVE IInv'
<1>1. PICK b : b = call[r]
  OBVIOUS
<1>2. /\ b \in Calls /\ Placed(b) /\ b.pc = "existing" /\ b.ops = {} /\ b.kind = "callback"
      /\ b.id = NoSession /\ b.login \in Session /\ b.cookie \in Session \cup {NoSession}
  BY <1>1, CallFacts DEF IInv, LoadExisting, Placed, Callbacks
<1>3. Calm
  BY CalmFacts DEF LoadExisting, IInv
<1>4. CASE b.cookie # NoSession /\ sessions[b.cookie] # Absent
  <2>1. PICK s \in Session : s = b.cookie
    BY <1>2, <1>4
  <2>2. PICK c1 : c1 = [b EXCEPT !.pc = "dropExisting"]
    OBVIOUS
  <2>3. PICK c : c = [c1 EXCEPT !.ops = DestroyOps(s)]
    OBVIOUS
  <2>4. Moves(r, c)
    BY <1>1, <1>4, <2>1, <2>2, <2>3 DEF LoadExisting, Moves
  <2>5. DestroyOps(s) \in SUBSET Commands /\ "dropExisting" \in Points
    BY Destroying DEF Points
  <2>6. /\ c1 \in Calls /\ c1.pc = "dropExisting" /\ c1.kind = b.kind /\ c1.login = b.login
        /\ c1.next = b.next /\ c1.cookie = b.cookie /\ c1.id = b.id
    BY <1>2, <2>2, <2>5, SetPc
  <2>7. /\ c \in Calls /\ c.pc = "dropExisting" /\ c.kind = b.kind /\ c.login = b.login
        /\ c.next = b.next /\ c.cookie = b.cookie /\ c.id = b.id /\ c.ops = DestroyOps(s)
    BY <2>3, <2>5, <2>6, SetOps
  <2>8. Shaped(c)
    BY <1>2, <2>1, <2>7 DEF Shaped, Placed, Issued, Callbacks, Relays
  <2>9. Follows(b, c)
    BY <1>2, <2>1, <2>7 DEF Follows, Writes
  <2>10. SameLogin(b, c) /\ SameTokens(b, c)
    BY <1>2, <2>7 DEF SameLogin, SameTokens, Redeeming, Holding
  <2> QED BY <1>1, <1>3, <2>4, <2>8, <2>9, <2>10, PlainStep DEF Calm
<1>5. CASE b.cookie = NoSession \/ sessions[b.cookie] = Absent
  <2>1. Moves(r, CreateSession(b)) /\ preAuth' = preAuth /\ family' = family
    BY <1>1, <1>5 DEF LoadExisting, Moves
  <2>2. b.cookie \in Session => Gone(b.cookie)
    BY <1>1, <1>5, AbsentIsGone, Constants DEF Knows, Stored
  <2> QED BY <1>1, <1>2, <1>3, <2>1, <2>2, CreateStep
<1> QED
  BY <1>4, <1>5

LEMMA DropExistingStep == ASSUME IInv, NEW r \in Req, DropExisting(r) PROVE IInv'
<1>1. PICK b : b = call[r]
  OBVIOUS
<1>2. b \in Calls /\ Placed(b) /\ b.pc = "dropExisting" /\ b.ops = {} /\ b.cookie \in Session
  BY <1>1, CallFacts DEF IInv, DropExisting, Placed
<1>3. Calm
  BY CalmFacts DEF DropExisting, IInv
<1>4. Gone(b.cookie)
  <2>1. CopyOf(r, b.cookie) /\ EndedOf(b.cookie) /\ ~Has(r, "delete", b.cookie)
    BY <1>1, <1>2 DEF IInv, StoreInv, Has
  <2> QED BY <1>1, <1>2, <2>1 DEF CopyOf, EndedOf
<1>5. Moves(r, CreateSession(b)) /\ preAuth' = preAuth /\ family' = family
  BY <1>1 DEF DropExisting, Moves
<1> QED
  BY <1>1, <1>2, <1>3, <1>4, <1>5, CreateStep

\* The new session is the browser's to have.
LEMMA CreatedStep == ASSUME IInv, NEW r \in Req, Created(r) PROVE IInv'
<1>1. PICK b : b = call[r]
  OBVIOUS
<1>2. /\ b \in Calls /\ Placed(b) /\ b.pc = "create" /\ b.ops = {} /\ b.kind = "callback"
      /\ b.id = NoSession /\ b.login \in Session /\ b.cookie \in Session \cup {NoSession}
      /\ login[b.login] = "exchanged"
  BY <1>1, CallFacts DEF IInv, Created, Placed, Callbacks, LoginInv
<1>3. PICK s \in Session : s = b.login
  BY <1>2
<1>4. PICK c1 : c1 = [b EXCEPT !.next = b.login]
  OBVIOUS
<1>5. PICK c : c = Answer(c1)
  OBVIOUS
<1>6. Moves(r, c)
  BY <1>1, <1>4, <1>5 DEF Created, Moves
<1>7. c1 \in Calls /\ c1.kind = b.kind /\ c1.login = b.login /\ c1.next = s
  <2>1. b.login \in Ids \cup {"keep"}
    BY <1>2 DEF Ids
  <2> QED BY <1>2, <1>3, <1>4, <2>1, SetNext
<1>8. /\ c \in Calls /\ Placed(c) /\ c.pc = "respond" /\ c.kind = b.kind /\ c.login = b.login
      /\ c.next = s /\ c.ops = {} /\ c.id = NoSession /\ c.cookie = NoSession
  BY <1>2, <1>5, <1>7, AnswerFacts
<1>9. Shaped(c)
  BY <1>8 DEF Shaped
<1>10. /\ CallsInv' /\ call' \in [Req -> Calls] /\ call'[r] = c
       /\ \A q \in Req \ {r} : call'[q] = call[q]
  BY <1>6, <1>9, CallsStep DEF Moves, IInv
<1>11. /\ ended' = ended \cup ({b.cookie} \ {NoSession}) /\ left' = left
       /\ UNCHANGED <<stores, browser, provider, marks>>
  BY <1>1 DEF Created
<1>12. TypeOK'
  BY <1>2, <1>10, <1>11 DEF TypeOK, IInv
<1>13. LoginInv'
  BY <1>1, <1>6, <1>8, <1>9, <1>11, LoginKept DEF IInv, Redeeming
<1>14. ASSUME NEW t \in Session PROVE StoreOf(t)'
  <2>1. Stored(t)' = Stored(t) /\ Listed(t)' = Listed(t) /\ Revived(t)' = Revived(t)
    BY <1>11 DEF Stored, Listed, Revived
  <2>2. ~Creating(r, t)' /\ ~Preparing(r, t)'
    BY <1>8, <1>10 DEF Creating, Preparing
  <2>3. \A o \in {"set", "add", "delete", "remove"} : ~Has(r, o, t)' /\ ~Has(r, o, t)
    BY <1>1, <1>2, <1>8, <1>10 DEF Has
  <2>4. ~MayWrite(r, t)' /\ ~Touches(r, t)'
    BY <1>8, <1>10, <2>3 DEF MayWrite, Has, Touches
  <2>5. Secret(t)' => ~Knows(r, t)'
    <3>1. CASE t = s
      <4>1. \A q \in Req \ {r} : ~Creating(q, s)
        BY <1>1, <1>2, <1>3 DEF IInv, LoginInv, Creating, Preparing
      <4>2. \A q \in Req \ {r} : ~Creating(q, s)'
        BY <1>10, <4>1 DEF Creating, Preparing
      <4>3. login'[s] = "exchanged"
        BY <1>2, <1>3, <1>11
      <4> QED BY <2>2, <3>1, <4>2, <4>3 DEF Secret
    <3>2. CASE t # s
      BY <1>8, <1>10, <3>2, Constants DEF Knows
    <3> QED BY <3>1, <3>2
  <2>6. t \in ended' => t \in ended \/ (Gone(t) /\ ~Unborn(t))
    <3>1. CASE t = b.cookie
      <4>1. CopyOf(r, t) /\ SecretOf(t) /\ Knows(r, t)
        BY <1>1, <3>1 DEF IInv, StoreInv, Knows
      <4>2. ~Secret(t) /\ Gone(t)
        BY <1>1, <1>2, <3>1, <4>1 DEF CopyOf, SecretOf
      <4> QED BY <4>2 DEF Unborn, Secret, Creating
    <3>2. CASE t # b.cookie
      BY <1>11, <3>2
    <3> QED BY <3>1, <3>2
  <2>7. t \in ended => t \in ended'
    BY <1>11
  <2>8. login'[t] = login[t] /\ family'[t].head = family[t].head /\ cookie' = cookie
    BY <1>11
  <2>9. c.pc \notin {"dropExisting", "create", "dropReload"}
    BY <1>8
  <2> QED BY <1>6, <1>9, <2>1, <2>2, <2>3, <2>4, <2>5, <2>6, <2>7, <2>8, <2>9, StoreKept DEF IInv
<1>15. StoreInv'
  <2>1. ListsTyped'
    BY <1>11 DEF ListsTyped, IInv, StoreInv
  <2> QED BY <1>14, <2>1 DEF StoreInv, StoreOf, ListsTyped
<1>16. TokenInv'
  <2>1. \A t \in Session : MarksKept(t)
    BY <1>11 DEF MarksKept, IInv, TokenInv
  <2>2. \A t \in Session : Stored(t)' => Stored(t) /\ sessions'[t].gen = sessions[t].gen
    BY <1>11 DEF Stored
  <2>3. ~Holding(c) /\ c.pc \notin {"save", "touchSet", "refresh"} /\ b.pc # "save"
    BY <1>2, <1>8 DEF Holding
  <2> QED BY <1>1, <1>6, <1>9, <1>11, <2>1, <2>2, <2>3, TokensAlone
<1> QED
  BY <1>10, <1>12, <1>13, <1>15, <1>16 DEF IInv


-----------------------------------------------------------------------------
(* The commands on a session's keys *)

\* The notice reads the list of its sid.
LEMMA SidMembersStep == ASSUME IInv, NEW r \in Req, SidMembers(r) PROVE IInv'
<1>1. PICK b : b = call[r]
  OBVIOUS
<1>2. /\ b \in Calls /\ Placed(b) /\ b.pc = "members" /\ b.ops = {} /\ b.kind = "backchannel"
      /\ b.id = NoSession /\ b.sid \in Sid
  <2>1. b \in Calls /\ Placed(b) /\ b.pc = "members" /\ b.ops = {}
    BY <1>1, CallFacts DEF IInv, SidMembers
  <2> QED BY <2>1 DEF Placed, Calls
<1>3. Calm
  BY CalmFacts DEF SidMembers, IInv
<1>4. PICK c1 : c1 = [b EXCEPT !.pc = "dropSid"]
  OBVIOUS
<1>5. PICK c : c = [c1 EXCEPT !.ops = SidOps(b.sid)]
  OBVIOUS
<1>6. Moves(r, c)
  BY <1>1, <1>4, <1>5 DEF SidMembers, Moves
<1>7. \A s \in sessionsBySid[b.sid] : s \in Session /\ SidOf[s] = b.sid
  BY <1>2 DEF IInv, TypeOK, StoreInv
<1>8. SidOps(b.sid) \in SUBSET Commands /\ "dropSid" \in Points
  BY <1>2, <1>7 DEF SidOps, Commands, Points
<1>9. /\ c1 \in Calls /\ c1.pc = "dropSid" /\ c1.kind = b.kind /\ c1.login = b.login
      /\ c1.next = b.next /\ c1.cookie = b.cookie /\ c1.id = b.id /\ c1.sid = b.sid
  BY <1>2, <1>4, <1>8, SetPc
<1>10. /\ c \in Calls /\ c.pc = "dropSid" /\ c.kind = b.kind /\ c.login = b.login
       /\ c.next = b.next /\ c.cookie = b.cookie /\ c.id = b.id /\ c.ops = SidOps(b.sid) /\ c.sid = b.sid
  BY <1>5, <1>8, <1>9, SetOps
<1>11. Shaped(c)
  <2>1. Placed(c)
    BY <1>2, <1>10 DEF Placed, Callbacks, Relays
  <2>2. Issued(c) = {<<"delete", s>> : s \in {t \in Session : SidOf[t] = c.sid}}
                             \cup {<<"deleteSid", c.sid>>}
    BY <1>10 DEF Issued
  <2>3. SidOps(b.sid) \subseteq Issued(c)
    BY <1>7, <1>10, <2>2 DEF SidOps
  <2> QED BY <1>10, <2>1, <2>3 DEF Shaped
<1>12. /\ CallsInv' /\ call' \in [Req -> Calls] /\ call'[r] = c
       /\ \A q \in Req \ {r} : call'[q] = call[q]
  BY <1>6, <1>11, CallsStep DEF Moves, IInv
<1>13. TypeOK'
  BY <1>3, <1>12 DEF TypeOK, RestTyped, Calm
<1>14. LoginInv'
  BY <1>1, <1>2, <1>3, <1>6, <1>10, <1>11, LoginKept DEF IInv, Redeeming, Calm
<1>15. /\ sessions' = sessions /\ sessionsBySid' = sessionsBySid /\ ended' = ended /\ marks' = marks
       /\ cookie' = cookie /\ login' = login /\ refreshLocks' = refreshLocks
       /\ \A s \in Session : family'[s].head = family[s].head
  BY <1>3 DEF Calm
<1>16. ASSUME NEW t \in Session PROVE StoreOf(t)'
  <2>1. Stored(t)' = Stored(t) /\ Listed(t)' = Listed(t) /\ Revived(t)' = Revived(t)
    BY <1>15 DEF Stored, Listed, Revived
  <2>2. ~Creating(r, t)' /\ ~Preparing(r, t)'
    BY <1>10, <1>12 DEF Creating, Preparing
  <2>3. \A o \in {"set", "add", "delete", "remove"} : ~Has(r, o, t)
    BY <1>1, <1>2 DEF Has
  <2>4. ~Has(r, "set", t)' /\ ~Has(r, "add", t)' /\ ~Has(r, "remove", t)'
    BY <1>10, <1>12 DEF Has, SidOps
  <2>5. Has(r, "delete", t)' => Listed(t)
    BY <1>7, <1>10, <1>12 DEF Has, SidOps, Listed
  <2>6. Touches(r, t)' => Listed(t)
    BY <2>4, <2>5 DEF Touches
  <2>7. ~MayWrite(r, t)'
    BY <1>10, <1>12, <2>4 DEF MayWrite, Has
  <2>8. Knows(r, t)' => Knows(r, t)
    BY <1>1, <1>10, <1>12 DEF Knows
  <2>9. c.pc \notin {"dropExisting", "create", "dropReload"}
    BY <1>10
  <2> QED BY <1>6, <1>11, <1>15, <2>1, <2>2, <2>3, <2>4, <2>6, <2>7, <2>8, <2>9, StoreKept DEF IInv
<1>17. StoreInv'
  <2>1. ListsTyped'
    BY <1>15 DEF ListsTyped, IInv, StoreInv
  <2> QED BY <1>16, <2>1 DEF StoreInv, StoreOf, ListsTyped
<1>18. TokenInv'
  <2>1. \A t \in Session : MarksKept(t)
    BY <1>15 DEF MarksKept, IInv, TokenInv
  <2>2. \A t \in Session : Stored(t)' => Stored(t) /\ sessions'[t].gen = sessions[t].gen
    BY <1>15 DEF Stored
  <2>3. ~Holding(c) /\ c.pc \notin {"save", "touchSet", "refresh"} /\ b.pc # "save"
    BY <1>2, <1>10 DEF Holding
  <2> QED BY <1>1, <1>6, <1>11, <1>15, <2>1, <2>2, <2>3, TokensAlone
<1> QED
  BY <1>12, <1>13, <1>14, <1>17, <1>18 DEF IInv

\* A command of request r is carried out; the others of its Promise.all stay.
LEMMA DoneFacts ==
  ASSUME IInv, NEW r \in Req, NEW o \in call[r].ops, Done(r, o), NEW c,
         c = [call[r] EXCEPT !.ops = call[r].ops \ {o}]
  PROVE  /\ Shaped(c) /\ Moves(r, c) /\ left' = left /\ c.ops = call[r].ops \ {o}
         /\ c.pc = call[r].pc /\ c.kind = call[r].kind /\ c.cookie = call[r].cookie
         /\ c.login = call[r].login /\ c.id = call[r].id /\ c.gen = call[r].gen /\ c.next = call[r].next
         /\ c.sid = call[r].sid
         /\ CallsInv' /\ call' \in [Req -> Calls] /\ call'[r] = c
         /\ \A q \in Req \ {r} : call'[q] = call[q]
         /\ call[r].pc \in {"dropIdle", "dropExisting", "dropLogout", "dropReload", "dropRejected",
                            "dropWait", "create", "dropSid"}
<1>1. call[r] \in Calls /\ Placed(call[r]) /\ call[r].ops \subseteq Issued(call[r])
  BY CallFacts DEF IInv
<1>2. call[r].ops \ {o} \in SUBSET Commands
  BY <1>1 DEF Calls
<1>3. /\ c \in Calls /\ c.ops = call[r].ops \ {o}
      /\ c.pc = call[r].pc /\ c.kind = call[r].kind /\ c.cookie = call[r].cookie
      /\ c.login = call[r].login /\ c.id = call[r].id /\ c.gen = call[r].gen /\ c.next = call[r].next
      /\ c.sid = call[r].sid /\ c.failed = call[r].failed
  BY <1>1, <1>2, SetOps
<1>4. Issued(c) = Issued(call[r])
  BY <1>3 DEF Issued
<1>5. Placed(c)
  <2>1. c.pc = "dropRejected" => c.failed
    <3>1. call[r].pc = "dropRejected" => call[r].failed
      BY <1>1 DEF Placed
    <3> QED BY <1>3, <3>1, Zenon
  <2> QED BY <1>1, <1>3, <2>1 DEF Placed, Callbacks, Relays
<1>6. Shaped(c)
  BY <1>1, <1>3, <1>4, <1>5 DEF Shaped
<1>7. Moves(r, c) /\ left' = left
  BY DEF Done, Moves
<1>8. call[r].pc \in {"dropIdle", "dropExisting", "dropLogout", "dropReload", "dropRejected",
                      "dropWait", "create", "dropSid"}
  BY <1>1 DEF Issued
<1> QED
  BY <1>3, <1>6, <1>7, <1>8, CallsStep DEF Moves, IInv

\* A command changes no login, and no token but through the record.
LEMMA DoneRest ==
  ASSUME IInv, NEW r \in Req, NEW o \in call[r].ops, Done(r, o), login' = login, preAuth' = preAuth
  PROVE  LoginInv'
<1>1. PICK c : c = [call[r] EXCEPT !.ops = call[r].ops \ {o}]
  OBVIOUS
<1>2. Shaped(c) /\ Moves(r, c) /\ c.pc = call[r].pc /\ c.kind = call[r].kind /\ c.login = call[r].login
  BY <1>1, DoneFacts
<1> QED
  BY <1>2, LoginKept DEF IInv, Redeeming

\* What a command leaves as it was: all that is not about its own session.
LEMMA DoneOthers ==
  ASSUME IInv, NEW r \in Req, NEW o \in call[r].ops, Done(r, o), NEW s \in Session,
         o[2] # s \/ o[1] = "deleteSid", cookie' = cookie, login' = login, family' = family,
         o \in Commands,
         Stored(s)' <=> Stored(s), s \in ended' <=> s \in ended, Revived(s) => Revived(s)',
         Listed(s)' => Listed(s),
         Listed(s) => Listed(s)' \/ Revived(s)' \/ Has(r, "delete", s) \/ Gone(s)
  PROVE  StoreOf(s)'
<1>1. PICK b : b = call[r]
  OBVIOUS
<1>2. PICK c : c = [b EXCEPT !.ops = b.ops \ {o}]
  OBVIOUS
<1>3. /\ Shaped(c) /\ Moves(r, c) /\ c.ops = b.ops \ {o}
      /\ c.pc = b.pc /\ c.cookie = b.cookie /\ c.login = b.login /\ c.id = b.id /\ c.next = b.next
      /\ call'[r] = c /\ \A q \in Req \ {r} : call'[q] = call[q]
      /\ b.pc \in {"dropIdle", "dropExisting", "dropLogout", "dropReload", "dropRejected",
                   "dropWait", "create", "dropSid"}
  BY <1>1, <1>2, DoneFacts
<1>4. ASSUME NEW k \in {"set", "add", "delete", "remove"} PROVE Has(r, k, s)' <=> Has(r, k, s)
  <2>1. <<k, s>> # o
    OBVIOUS
  <2> QED BY <1>1, <1>3, <2>1 DEF Has
<1>5. (Creating(r, s)' <=> Creating(r, s)) /\ (Preparing(r, s)' <=> Preparing(r, s))
  BY <1>1, <1>3 DEF Creating, Preparing
<1>6. Knows(r, s)' <=> Knows(r, s)
  BY <1>1, <1>3 DEF Knows
<1>7. MayWrite(r, s)' => Has(r, "set", s)' \/ (MayWrite(r, s) /\ ~Has(r, "set", s))
  <2>1. b.pc \notin {"unlock", "fetch"}
    BY <1>3
  <2> QED BY <1>1, <1>3, <1>4, <2>1 DEF MayWrite, Has
<1>8. Touches(r, s)' => Touches(r, s)
  BY <1>4 DEF Touches
<1>9. c.pc = "create" /\ c.cookie = s => Gone(s)
  BY <1>1, <1>3 DEF IInv, StoreInv, CopyOf
<1>10. Listed(s) => Listed(s)' \/ Revived(s)' \/ Deleting(s)' \/ Gone(s)
  BY <1>4 DEF Deleting
<1>11. /\ c.pc = "dropExisting" /\ c.cookie = s =>
             Has(r, "delete", s)' \/ (b.pc = "dropExisting" /\ b.cookie = s /\ ~Has(r, "delete", s))
       /\ c.pc = "dropReload" /\ c.id = s =>
             Has(r, "delete", s)' \/ (b.pc = "dropReload" /\ b.id = s /\ ~Has(r, "delete", s))
  BY <1>3, <1>4
<1> QED
  BY <1>1, <1>3, <1>4, <1>5, <1>6, <1>7, <1>8, <1>9, <1>10, <1>11, StoreKept DEF IInv

\* The tokens of a session a command does not write.
LEMMA DoneTokens ==
  ASSUME IInv, NEW r \in Req, NEW o \in call[r].ops, Done(r, o), NEW s \in Session, MarksKept(s),
         family' = family, refreshLocks' = refreshLocks,
         Stored(s)' => Stored(s) /\ sessions'[s].gen = sessions[s].gen
  PROVE  TokenOf(s)'
<1>1. PICK c : c = [call[r] EXCEPT !.ops = call[r].ops \ {o}]
  OBVIOUS
<1>2. /\ Shaped(c) /\ Moves(r, c) /\ c.pc = call[r].pc /\ c.id = call[r].id /\ call'[r] = c
      /\ call[r].pc \in {"dropIdle", "dropExisting", "dropLogout", "dropReload", "dropRejected",
                   "dropWait", "create", "dropSid"}
  BY <1>1, DoneFacts
<1>3. Holds(r, s)' => Holds(r, s)
  BY <1>2 DEF Holds
<1>4. ~Saving(r, s)
  BY <1>2 DEF Saving
<1> QED
  BY <1>2, <1>3, <1>4, TokenKept DEF IInv


\* What is kept when a command has been carried out, put together.
LEMMA DoneTyped ==
  ASSUME IInv, NEW r \in Req, NEW o \in call[r].ops, Done(r, o),
         UNCHANGED <<preAuth, refreshLocks, browser, provider>>,
         sessions' \in [Session -> Records \cup {Absent}], sessionsBySid' \in [Sid -> SUBSET Session],
         ended' \subseteq Session,
         marks' \subseteq {"lapse", "lost", "overlap", "revived", "reuse", "replay"} \X Session,
         ListsTyped', \A s \in Session : StoreOf(s)' /\ TokenOf(s)'
  PROVE  IInv'
<1>1. PICK c : c = [call[r] EXCEPT !.ops = call[r].ops \ {o}]
  OBVIOUS
<1>2. CallsInv' /\ call' \in [Req -> Calls] /\ left' = left
  BY <1>1, DoneFacts
<1>3. TypeOK'
  BY <1>2 DEF IInv, TypeOK
<1>4. LoginInv'
  BY DoneRest
<1>5. StoreInv' /\ TokenInv'
  BY DEF StoreInv, StoreOf, ListsTyped, TokenInv, TokenOf
<1> QED
  BY <1>2, <1>3, <1>4, <1>5 DEF IInv

\* createSession writes the record of a session nobody has heard of.
LEMMA SetRecordStep == ASSUME IInv, NEW r \in Req, SetRecord(r) PROVE IInv'
<1>1. PICK s \in Session :
         /\ <<"set", s>> \in call[r].ops
         /\ sessions' = [sessions EXCEPT ![s] = [gen |-> 0, age |-> "fresh"]]
         /\ Done(r, <<"set", s>>)
         /\ UNCHANGED <<sessionsBySid, preAuth, refreshLocks, browser, provider, history>>
  BY DEF SetRecord
<1>2. PICK c : c = [call[r] EXCEPT !.ops = call[r].ops \ {<<"set", s>>}]
  OBVIOUS
<1>3. /\ c.ops = call[r].ops \ {<<"set", s>>} /\ c.pc = call[r].pc /\ c.cookie = call[r].cookie
      /\ c.login = call[r].login /\ c.id = call[r].id /\ c.next = call[r].next
      /\ call'[r] = c /\ \A q \in Req \ {r} : call'[q] = call[q]
      /\ Shaped(c) /\ Moves(r, c)
  BY <1>1, <1>2, DoneFacts
<1>4. /\ sessions' \in [Session -> Records \cup {Absent}]
      /\ sessions'[s] = [gen |-> 0, age |-> "fresh"] /\ sessions'[s] # Absent
      /\ \A t \in Session \ {s} : sessions'[t] = sessions[t]
  <2>1. [gen |-> 0, age |-> "fresh"] \in Records
    BY Constants DEF Records, Gens
  <2>2. sessions \in [Session -> Records \cup {Absent}]
    BY DEF IInv, TypeOK
  <2> QED BY <1>1, <2>1, <2>2, Constants
<1>5. /\ call[r].pc = "create" /\ call[r].login = s
      /\ \A q \in Req \ {r} : ~Has(q, "set", s) /\ ~Creating(q, s)
  <2>1. call[r].pc = "create" /\ call[r].login = s
    BY <1>1, CallFacts DEF Has, IInv
  <2>2. \A q \in Req \ {r} : ~Creating(q, s)
    BY <2>1 DEF IInv, LoginInv, Creating, Preparing
  <2>3. \A q \in Req \ {r} : Has(q, "set", s) => Creating(q, s)
    BY CallFacts DEF IInv, Creating
  <2> QED BY <2>1, <2>2, <2>3
<1>6. /\ Secret(s) /\ cookie # s /\ family[s].head = 0 /\ \A q \in Req : ~Knows(q, s)
      /\ ~Stored(s) /\ (Has(r, "add", s) \/ Listed(s) \/ Revived(s) \/ Deleting(s))
      /\ s \in ended => Revived(s)
  <2>1. Secret(s)
    BY <1>5 DEF Secret, Creating
  <2>2. Has(r, "set", s) /\ MayWrite(r, s)
    BY <1>1 DEF Has, MayWrite
  <2> QED BY <2>1, <2>2 DEF IInv, StoreInv, SecretOf, CopyOf, EndedOf, Gone
<1>7. \A q \in Req : ~Knows(q, s)'
  BY <1>3, <1>6 DEF Knows
<1>8. ASSUME NEW q \in Req, NEW k \in {"add", "delete", "remove"} PROVE Has(q, k, s)' <=> Has(q, k, s)
  <2>1. <<k, s>> # <<"set", s>>
    OBVIOUS
  <2> QED BY <1>3, <2>1 DEF Has
<1>9. \A q \in Req : ~Has(q, "set", s)'
  BY <1>3, <1>5 DEF Has
<1>10. StoreOf(s)'
  <2>1. SecretOf(s)'
    BY <1>1, <1>6, <1>7 DEF SecretOf
  <2>2. ~Unborn(s)'
    <3>1. ~Unborn(s)
      BY <1>1 DEF IInv, StoreInv, UnbornOf, Has
    <3>2. \A q \in Req : Preparing(q, s)' <=> Preparing(q, s)
      BY <1>3 DEF Preparing
    <3> QED BY <1>1, <3>1, <3>2 DEF Unborn
  <2>3. /\ Listed(s)' = Listed(s) /\ Revived(s)' = Revived(s) /\ (s \in ended' <=> s \in ended)
        /\ Deleting(s)' = Deleting(s) /\ Adding(s)' = Adding(s) /\ Stored(s)'
    BY <1>1, <1>4, <1>8 DEF Listed, Revived, Deleting, Adding, Stored
  <2>4. EndedOf(s)'
    BY <1>6, <2>3 DEF EndedOf, Gone
  <2>5. ListedOf(s)'
    BY <1>6, <2>3 DEF ListedOf, Adding
  <2>6. ASSUME NEW q \in Req PROVE CopyOf(q, s)'
    <3>1. CopyOf(q, s) /\ call'[q].cookie # s /\ call'[q].id # s
      BY <1>7 DEF IInv, StoreInv, Knows
    <3>2. Has(q, "remove", s)' /\ ~Has(q, "delete", s)' => s \in ended'
      BY <1>8, <2>3, <3>1 DEF CopyOf
    <3> QED BY <1>9, <2>3, <3>1, <3>2 DEF CopyOf
  <2> QED BY <2>1, <2>2, <2>4, <2>5, <2>6 DEF StoreOf, UnbornOf
<1>11. TokenOf(s)'
  <2>1. LockOf(s)'
    <3>1. Holds(r, s)' <=> Holds(r, s)
      BY <1>3 DEF Holds
    <3> QED BY <1>1, <1>3, <3>1, LockKept DEF IInv
  <2>2. \A q \in Req : call'[q].id # s
    BY <1>7 DEF Knows
  <2>3. GenOf(s)' /\ HeadOf(s)'
    BY <1>1, <1>4, <1>6, <2>2 DEF GenOf, HeadOf, Saving
  <2>4. ReuseOf(s)' /\ <<"replay", s>> \notin marks'
    BY <1>1 DEF IInv, TokenInv, ReuseOf, Clean, Steady
  <2> QED BY <2>1, <2>3, <2>4 DEF TokenOf
<1>12. ASSUME NEW t \in Session \ {s} PROVE StoreOf(t)' /\ TokenOf(t)'
  <2>1. Stored(t)' = Stored(t) /\ Listed(t)' = Listed(t) /\ Revived(t)' = Revived(t)
    BY <1>1, <1>4 DEF Stored, Listed, Revived
  <2>2. <<"set", s>>[2] # t /\ <<"set", s>> \in Commands
    BY DEF Commands
  <2>3. StoreOf(t)'
    BY <1>1, <2>1, <2>2, DoneOthers
  <2>4. MarksKept(t)
    BY <1>1 DEF MarksKept, IInv, TokenInv
  <2>5. Stored(t)' => Stored(t) /\ sessions'[t].gen = sessions[t].gen
    BY <1>4, <2>1
  <2> QED BY <1>1, <2>3, <2>4, <2>5, DoneTokens
<1>13. ListsTyped' /\ sessionsBySid' \in [Sid -> SUBSET Session] /\ ended' \subseteq Session
       /\ marks' \subseteq {"lapse", "lost", "overlap", "revived", "reuse", "replay"} \X Session
  BY <1>1 DEF ListsTyped, IInv, StoreInv, TypeOK
<1> QED
  BY <1>1, <1>4, <1>10, <1>11, <1>12, <1>13, DoneTyped


\* Everything but the list that a command on a list changes nothing of.
LEMMA AddToSidStep == ASSUME IInv, NEW r \in Req, AddToSid(r) PROVE IInv'
<1>1. PICK s \in Session :
         /\ <<"add", s>> \in call[r].ops
         /\ sessionsBySid' = [sessionsBySid EXCEPT ![SidOf[s]] = @ \cup {s}]
         /\ Done(r, <<"add", s>>)
         /\ UNCHANGED <<sessions, preAuth, refreshLocks, browser, provider, history>>
  BY DEF AddToSid
<1>2. PICK c : c = [call[r] EXCEPT !.ops = call[r].ops \ {<<"add", s>>}]
  OBVIOUS
<1>3. /\ c.ops = call[r].ops \ {<<"add", s>>} /\ c.pc = call[r].pc /\ c.cookie = call[r].cookie
      /\ c.login = call[r].login /\ c.id = call[r].id /\ c.next = call[r].next
      /\ call'[r] = c /\ \A q \in Req \ {r} : call'[q] = call[q]
      /\ Shaped(c) /\ Moves(r, c)
  BY <1>1, <1>2, DoneFacts
<1>4. SidOf[s] \in Sid /\ sessionsBySid \in [Sid -> SUBSET Session]
  BY Constants DEF IInv, TypeOK
<1>5. /\ sessionsBySid' \in [Sid -> SUBSET Session] /\ Listed(s)'
      /\ \A t \in Session \ {s} : Listed(t)' <=> Listed(t)
      /\ ListsTyped'
  <2>1. sessionsBySid' \in [Sid -> SUBSET Session]
    BY <1>1, <1>4
  <2>2. \A d \in Sid, t \in Session :
            t \in sessionsBySid'[d] <=> t \in sessionsBySid[d] \/ (d = SidOf[s] /\ t = s)
    BY <1>1, <1>4
  <2>3. \A t \in Session : SidOf[t] \in Sid
    BY Constants
  <2>4. ListsTyped'
    BY <1>4, <2>1, <2>2 DEF ListsTyped, IInv, StoreInv
  <2> QED BY <1>4, <2>1, <2>2, <2>3, <2>4 DEF Listed
<1>6. call[r].pc = "create" /\ call[r].login = s /\ ~Unborn(s) /\ Has(r, "add", s)
  <2>1. Has(r, "add", s)
    BY <1>1 DEF Has
  <2>2. ~Unborn(s)
    BY <2>1 DEF IInv, StoreInv, UnbornOf
  <2> QED BY <2>1, <2>2, CallFacts DEF IInv
<1>7. StoreOf(s)'
  <2>1. ASSUME NEW k \in {"set", "delete", "remove"} PROVE Has(r, k, s)' <=> Has(r, k, s)
    <3>1. <<k, s>> # <<"add", s>>
      OBVIOUS
    <3> QED BY <1>3, <3>1 DEF Has
  <2>2. ~Has(r, "add", s)'
    BY <1>3 DEF Has
  <2>3. (Creating(r, s)' <=> Creating(r, s)) /\ (Preparing(r, s)' <=> Preparing(r, s))
    BY <1>3 DEF Creating, Preparing
  <2>4. Knows(r, s)' <=> Knows(r, s)
    BY <1>3 DEF Knows
  <2>5. MayWrite(r, s)' => Has(r, "set", s)'
    BY <1>3, <1>6 DEF MayWrite, Has
  <2>6. Touches(r, s)' => Touches(r, s)
    BY <2>1, <2>2 DEF Touches
  <2>7. c.pc = "create" /\ c.cookie = s => Gone(s)
    BY <1>3 DEF IInv, StoreInv, CopyOf
  <2>8. Stored(s)' = Stored(s) /\ Revived(s)' = Revived(s)
    BY <1>1 DEF Stored, Revived
  <2> QED BY <1>1, <1>3, <1>5, <1>6, <2>1, <2>2, <2>3, <2>4, <2>5, <2>6, <2>7, <2>8, StoreKept DEF IInv
<1>8. ASSUME NEW t \in Session PROVE TokenOf(t)'
  <2>1. MarksKept(t) /\ (Stored(t)' => Stored(t) /\ sessions'[t].gen = sessions[t].gen)
    BY <1>1 DEF MarksKept, IInv, TokenInv, Stored
  <2> QED BY <1>1, <2>1, DoneTokens
<1>9. ASSUME NEW t \in Session \ {s} PROVE StoreOf(t)'
  <2>1. Stored(t)' = Stored(t) /\ Revived(t)' = Revived(t)
    BY <1>1 DEF Stored, Revived
  <2>2. <<"add", s>>[2] # t /\ <<"add", s>> \in Commands
    BY DEF Commands
  <2> QED BY <1>1, <1>5, <2>1, <2>2, DoneOthers
<1>10. /\ sessions' \in [Session -> Records \cup {Absent}] /\ ended' \subseteq Session
       /\ marks' \subseteq {"lapse", "lost", "overlap", "revived", "reuse", "replay"} \X Session
  BY <1>1 DEF IInv, TypeOK
<1> QED
  BY <1>1, <1>5, <1>7, <1>8, <1>9, <1>10, DoneTyped

\* Its record is deleted by the same request: before, or else later.
LEMMA RemoveFromSidStep == ASSUME IInv, NEW r \in Req, RemoveFromSid(r) PROVE IInv'
<1>1. PICK s \in Session :
         /\ <<"remove", s>> \in call[r].ops
         /\ sessionsBySid' = [sessionsBySid EXCEPT ![SidOf[s]] = @ \ {s}]
         /\ Done(r, <<"remove", s>>)
         /\ UNCHANGED <<sessions, preAuth, refreshLocks, browser, provider, history>>
  BY DEF RemoveFromSid
<1>2. PICK c : c = [call[r] EXCEPT !.ops = call[r].ops \ {<<"remove", s>>}]
  OBVIOUS
<1>3. /\ c.ops = call[r].ops \ {<<"remove", s>>} /\ c.pc = call[r].pc /\ c.cookie = call[r].cookie
      /\ c.login = call[r].login /\ c.id = call[r].id /\ c.next = call[r].next
      /\ call'[r] = c /\ \A q \in Req \ {r} : call'[q] = call[q]
      /\ Shaped(c) /\ Moves(r, c)
      /\ call[r].pc \in {"dropIdle", "dropExisting", "dropLogout", "dropReload", "dropRejected",
                         "dropWait", "create", "dropSid"}
  BY <1>1, <1>2, DoneFacts
<1>4. SidOf[s] \in Sid /\ sessionsBySid \in [Sid -> SUBSET Session]
  BY Constants DEF IInv, TypeOK
<1>5. /\ sessionsBySid' \in [Sid -> SUBSET Session] /\ ~Listed(s)'
      /\ \A t \in Session \ {s} : Listed(t)' <=> Listed(t)
      /\ ListsTyped'
  <2>1. sessionsBySid' \in [Sid -> SUBSET Session]
    BY <1>1, <1>4
  <2>2. \A d \in Sid, t \in Session :
            t \in sessionsBySid'[d] <=> t \in sessionsBySid[d] /\ ~(d = SidOf[s] /\ t = s)
    BY <1>1, <1>4
  <2>3. \A t \in Session : SidOf[t] \in Sid
    BY Constants
  <2>4. ListsTyped'
    BY <1>4, <2>1, <2>2 DEF ListsTyped, IInv, StoreInv
  <2> QED BY <1>4, <2>1, <2>2, <2>3, <2>4 DEF Listed
<1>6. ASSUME NEW k \in {"set", "add", "delete"} PROVE Has(r, k, s)' <=> Has(r, k, s)
  <2>1. <<k, s>> # <<"remove", s>>
    OBVIOUS
  <2> QED BY <1>3, <2>1 DEF Has
<1>7. Has(r, "remove", s) /\ ~Has(r, "remove", s)'
  BY <1>1, <1>3 DEF Has
<1>8. Deleting(s)' \/ Gone(s)
  <2>1. CASE Has(r, "delete", s)
    BY <1>6, <2>1 DEF Deleting
  <2>2. CASE ~Has(r, "delete", s)
    BY <1>7, <2>2 DEF IInv, StoreInv, CopyOf, EndedOf
  <2> QED BY <2>1, <2>2
<1>9. StoreOf(s)'
  <2>1. (Creating(r, s)' <=> Creating(r, s)) /\ (Preparing(r, s)' <=> Preparing(r, s))
    BY <1>3 DEF Creating, Preparing
  <2>2. Knows(r, s)' <=> Knows(r, s)
    BY <1>3 DEF Knows
  <2>3. MayWrite(r, s)' => Has(r, "set", s)' \/ (MayWrite(r, s) /\ ~Has(r, "set", s))
    <3>1. call[r].pc \notin {"unlock", "fetch"}
      BY <1>3
    <3> QED BY <1>3, <1>6, <3>1 DEF MayWrite, Has
  <2>4. Touches(r, s)
    BY <1>7 DEF Touches
  <2>5. c.pc = "create" /\ c.cookie = s => Gone(s)
    BY <1>3 DEF IInv, StoreInv, CopyOf
  <2>6. /\ c.pc = "dropExisting" /\ c.cookie = s =>
               Has(r, "delete", s)' \/ (call[r].pc = "dropExisting" /\ call[r].cookie = s /\ ~Has(r, "delete", s))
        /\ c.pc = "dropReload" /\ c.id = s =>
               Has(r, "delete", s)' \/ (call[r].pc = "dropReload" /\ call[r].id = s /\ ~Has(r, "delete", s))
    BY <1>3, <1>6
  <2>7. Stored(s)' = Stored(s) /\ Revived(s)' = Revived(s)
    BY <1>1 DEF Stored, Revived
  <2> QED BY <1>1, <1>3, <1>5, <1>6, <1>7, <1>8, <2>1, <2>2, <2>3, <2>4, <2>5, <2>6, <2>7, StoreKept DEF IInv
<1>10. ASSUME NEW t \in Session PROVE TokenOf(t)'
  <2>1. MarksKept(t) /\ (Stored(t)' => Stored(t) /\ sessions'[t].gen = sessions[t].gen)
    BY <1>1 DEF MarksKept, IInv, TokenInv, Stored
  <2> QED BY <1>1, <2>1, DoneTokens
<1>11. ASSUME NEW t \in Session \ {s} PROVE StoreOf(t)'
  <2>1. Stored(t)' = Stored(t) /\ Revived(t)' = Revived(t)
    BY <1>1 DEF Stored, Revived
  <2>2. <<"remove", s>>[2] # t /\ <<"remove", s>> \in Commands
    BY DEF Commands
  <2> QED BY <1>1, <1>5, <2>1, <2>2, DoneOthers
<1>12. /\ sessions' \in [Session -> Records \cup {Absent}] /\ ended' \subseteq Session
       /\ marks' \subseteq {"lapse", "lost", "overlap", "revived", "reuse", "replay"} \X Session
  BY <1>1 DEF IInv, TypeOK
<1> QED
  BY <1>1, <1>5, <1>9, <1>10, <1>11, <1>12, DoneTyped

\* The list of a notice's sid is deleted, with the entries made since it was read.
LEMMA DeleteSidStep == ASSUME IInv, NEW r \in Req, DeleteSid(r) PROVE IInv'
<1>1. PICK d \in Sid :
         /\ <<"deleteSid", d>> \in call[r].ops
         /\ sessionsBySid' = [sessionsBySid EXCEPT ![d] = {}]
         /\ marks' = marks \cup {<<"revived", s>> : s \in {t \in sessionsBySid[d] :
                   /\ sessions[t] # Absent \/ \E q \in Req : MayWrite(q, t)
                   /\ <<"delete", t>> \notin call[r].ops}}
         /\ Done(r, <<"deleteSid", d>>)
         /\ UNCHANGED <<sessions, preAuth, refreshLocks, browser, provider, ended>>
  BY DEF DeleteSid
<1>2. sessionsBySid \in [Sid -> SUBSET Session]
  BY DEF IInv, TypeOK
<1>3. /\ sessionsBySid' \in [Sid -> SUBSET Session] /\ sessionsBySid'[d] = {}
      /\ \A e \in Sid \ {d} : sessionsBySid'[e] = sessionsBySid[e]
  BY <1>1, <1>2
<1>4. ListsTyped'
  BY <1>3 DEF ListsTyped, IInv, StoreInv
<1>5. /\ marks \subseteq marks'
      /\ marks' \subseteq {"lapse", "lost", "overlap", "revived", "reuse", "replay"} \X Session
      /\ \A k, s : k # "revived" => (<<k, s>> \in marks' <=> <<k, s>> \in marks)
  <2>1. marks \subseteq {"lapse", "lost", "overlap", "revived", "reuse", "replay"} \X Session
    BY DEF IInv, TypeOK
  <2>2. PICK new : new = {t \in sessionsBySid[d] :
                   /\ sessions[t] # Absent \/ \E q \in Req : MayWrite(q, t)
                   /\ <<"delete", t>> \notin call[r].ops}
    OBVIOUS
  <2>3. new \subseteq Session /\ marks' = marks \cup {<<"revived", s>> : s \in new}
    BY <1>1, <1>2, <2>2
  <2>4. \A k, s : k # "revived" => (<<k, s>> \in marks' <=> <<k, s>> \in marks)
    BY <2>3
  <2>5. marks' \subseteq {"lapse", "lost", "overlap", "revived", "reuse", "replay"} \X Session
    BY <2>1, <2>3
  <2> QED BY <2>3, <2>4, <2>5
<1>6. ASSUME NEW t \in Session PROVE StoreOf(t)' /\ TokenOf(t)'
  <2>1. Stored(t)' = Stored(t) /\ (Revived(t) => Revived(t)') /\ ended' = ended
    BY <1>1, <1>5 DEF Stored, Revived
  <2>2. SidOf[t] \in Sid
    BY Constants
  <2>3. Listed(t)' => Listed(t)
    BY <1>3, <2>2 DEF Listed
  <2>4. Listed(t) => Listed(t)' \/ Revived(t)' \/ Has(r, "delete", t) \/ Gone(t)
    <3>1. CASE SidOf[t] # d
      BY <1>3, <2>2, <3>1 DEF Listed
    <3>2. CASE SidOf[t] = d /\ Listed(t) /\ ~Has(r, "delete", t) /\ ~Gone(t)
      <4>1. sessions[t] # Absent \/ \E q \in Req : MayWrite(q, t)
        BY <3>2 DEF Gone, Stored
      <4>2. <<"revived", t>> \in marks'
        BY <1>1, <3>2, <4>1 DEF Listed, Has
      <4> QED BY <4>2 DEF Revived
    <3> QED BY <3>1, <3>2
  <2>5. <<"deleteSid", d>>[1] = "deleteSid" /\ <<"deleteSid", d>> \in Commands
    BY DEF Commands
  <2>6. StoreOf(t)'
    BY <1>1, <2>1, <2>3, <2>4, <2>5, DoneOthers
  <2>7. MarksKept(t) /\ (Stored(t)' => Stored(t) /\ sessions'[t].gen = sessions[t].gen)
    BY <1>1, <1>5 DEF MarksKept, IInv, TokenInv, Stored
  <2> QED BY <1>1, <2>6, <2>7, DoneTokens
<1>7. sessions' \in [Session -> Records \cup {Absent}] /\ ended' \subseteq Session
  BY <1>1 DEF IInv, TypeOK
<1> QED
  BY <1>1, <1>3, <1>4, <1>5, <1>6, <1>7, DoneTyped

\* destroySession deletes the record; who has a copy of it may write it back.
LEMMA DeleteRecordStep == ASSUME IInv, NEW r \in Req, DeleteRecord(r) PROVE IInv'
<1>1. PICK s \in Session :
         /\ <<"delete", s>> \in call[r].ops
         /\ sessions' = [sessions EXCEPT ![s] = Absent]
         /\ ended' = ended \cup {s}
         /\ marks' = marks \cup {m \in {<<"revived", s>>} : \E q \in Req : MayWrite(q, s)}
         /\ Done(r, <<"delete", s>>)
         /\ UNCHANGED <<sessionsBySid, preAuth, refreshLocks, browser, provider>>
  BY DEF DeleteRecord
<1>2. PICK c : c = [call[r] EXCEPT !.ops = call[r].ops \ {<<"delete", s>>}]
  OBVIOUS
<1>3. /\ c.ops = call[r].ops \ {<<"delete", s>>} /\ c.pc = call[r].pc /\ c.cookie = call[r].cookie
      /\ c.login = call[r].login /\ c.id = call[r].id /\ c.next = call[r].next
      /\ call'[r] = c /\ \A q \in Req \ {r} : call'[q] = call[q]
      /\ Shaped(c) /\ Moves(r, c)
      /\ call[r].pc \in {"dropIdle", "dropExisting", "dropLogout", "dropReload", "dropRejected",
                         "dropWait", "create", "dropSid"}
  BY <1>1, <1>2, DoneFacts
<1>4. /\ sessions' \in [Session -> Records \cup {Absent}] /\ sessions'[s] = Absent
      /\ \A t \in Session \ {s} : sessions'[t] = sessions[t]
  <2>1. sessions \in [Session -> Records \cup {Absent}]
    BY DEF IInv, TypeOK
  <2> QED BY <1>1, <2>1
<1>5. /\ marks \subseteq marks'
      /\ marks' \subseteq {"lapse", "lost", "overlap", "revived", "reuse", "replay"} \X Session
      /\ \A k, t : k # "revived" => (<<k, t>> \in marks' <=> <<k, t>> \in marks)
      /\ (\E q \in Req : MayWrite(q, s)) => Revived(s)'
  <2>1. marks \subseteq {"lapse", "lost", "overlap", "revived", "reuse", "replay"} \X Session
    BY DEF IInv, TypeOK
  <2> QED BY <1>1, <2>1 DEF Revived
<1>6. ASSUME NEW q \in Req, NEW k \in {"set", "add", "remove"} PROVE Has(q, k, s)' <=> Has(q, k, s)
  <2>1. <<k, s>> # <<"delete", s>>
    OBVIOUS
  <2> QED BY <1>3, <2>1 DEF Has
<1>7. ~Stored(s)' /\ s \in ended' /\ (Listed(s)' <=> Listed(s)) /\ (Revived(s) => Revived(s)')
  BY <1>1, <1>4, <1>5 DEF Stored, Listed, Revived
<1>8. ASSUME NEW q \in Req PROVE MayWrite(q, s)' => MayWrite(q, s)
  <2>1. (Has(q, "set", s)' <=> Has(q, "set", s))
    BY <1>6
  <2>2. CASE q = r
    <3>1. call[r].pc \notin {"unlock", "fetch"}
      BY <1>3
    <3> QED BY <1>3, <2>1, <2>2, <3>1 DEF MayWrite, Has
  <2>3. CASE q # r
    BY <1>3, <2>3 DEF MayWrite
  <2> QED BY <2>2, <2>3
<1>9. Gone(s)'
  BY <1>5, <1>7, <1>8 DEF Gone
<1>10. StoreOf(s)'
  <2>1. \A q \in Req : /\ Knows(q, s)' <=> Knows(q, s)
                       /\ Creating(q, s)' <=> Creating(q, s)
                       /\ Preparing(q, s)' <=> Preparing(q, s)
    BY <1>3 DEF Knows, Creating, Preparing
  <2>2. ~Unborn(s)
    BY <1>1 DEF IInv, StoreInv, UnbornOf, Has
  <2>3. ~Unborn(s)'
    BY <1>1, <2>1, <2>2 DEF Unborn
  <2>4. SecretOf(s)'
    <3>1. Secret(s)' => Secret(s)
      BY <1>1, <2>1 DEF Secret
    <3> QED BY <1>1, <2>1, <3>1 DEF SecretOf, IInv, StoreInv
  <2>5. ASSUME NEW q \in Req PROVE CopyOf(q, s)'
    <3>1. CopyOf(q, s)
      BY DEF IInv, StoreInv
    <3>2. MayWrite(q, s)' => Revived(s)'
      BY <1>5, <1>8
    <3>3. Has(q, "set", s)' => Revived(s)'
      <4>1. Has(q, "set", s)' => MayWrite(q, s)'
        BY DEF Has, MayWrite
      <4> QED BY <3>2, <4>1
    <3>4. call'[q].pc = "dropReload" /\ call'[q].id = s => MayWrite(q, s)'
      BY DEF MayWrite
    <3> QED BY <1>7, <1>9, <3>2, <3>3, <3>4 DEF CopyOf
  <2> QED BY <1>7, <1>9, <2>3, <2>4, <2>5 DEF StoreOf, UnbornOf, EndedOf, ListedOf
<1>11. ASSUME NEW t \in Session PROVE TokenOf(t)'
  <2>1. MarksKept(t)
    BY <1>1, <1>5 DEF MarksKept, IInv, TokenInv
  <2>2. Stored(t)' => Stored(t) /\ sessions'[t].gen = sessions[t].gen
    BY <1>4 DEF Stored
  <2> QED BY <1>1, <2>1, <2>2, DoneTokens
<1>12. ASSUME NEW t \in Session \ {s} PROVE StoreOf(t)'
  <2>1. /\ Stored(t)' = Stored(t) /\ (Revived(t) => Revived(t)') /\ Listed(t)' = Listed(t)
        /\ t \in ended' <=> t \in ended
    BY <1>1, <1>4, <1>5 DEF Stored, Revived, Listed
  <2>2. <<"delete", s>>[2] # t /\ <<"delete", s>> \in Commands
    BY DEF Commands
  <2> QED BY <1>1, <2>1, <2>2, DoneOthers
<1>13. ListsTyped' /\ sessionsBySid' \in [Sid -> SUBSET Session] /\ ended' \subseteq Session
  BY <1>1 DEF ListsTyped, IInv, StoreInv, TypeOK
<1> QED
  BY <1>1, <1>4, <1>5, <1>10, <1>11, <1>12, <1>13, DoneTyped


-----------------------------------------------------------------------------
(* A session's tokens *)

\* touchSession writes what it read: nothing newer is overwritten but by an overlap.
LEMMA TouchSetStep == ASSUME IInv, NEW r \in Req, TouchSet(r) PROVE IInv'
<1>1. PICK b : b = call[r]
  OBVIOUS
<1>2. /\ b \in Calls /\ Placed(b) /\ b.pc = "touchSet" /\ b.ops = {} /\ b.kind \in Browsing
      /\ b.id \in Session /\ b.gen \in Gens
      /\ b.kind \in {"login", "callback"} => b.login \in Session
  <2>1. b \in Calls /\ Placed(b) /\ b.pc = "touchSet" /\ b.ops = {}
    BY <1>1, CallFacts DEF IInv, TouchSet
  <2> QED BY <2>1 DEF Placed, Calls
<1>3. PICK s \in Session : s = b.id
  BY <1>2
<1>4. PICK c : c = Enter(b)
  OBVIOUS
<1>5. /\ Moves(r, c) /\ left' = left
      /\ sessions' = [sessions EXCEPT ![s] = [gen |-> b.gen, age |-> "fresh"]]
      /\ UNCHANGED <<sessionsBySid, preAuth, refreshLocks, browser, provider, history>>
  BY <1>1, <1>3, <1>4 DEF TouchSet, SaveSession, Moves
<1>6. /\ Shaped(c) /\ c.ops = {} /\ c.pc \in {"discover", "preAuth", "respond", "logout", "ensure"}
      /\ c.kind = b.kind /\ c.login = b.login /\ c.next = b.next
      /\ c.cookie \in {b.cookie, NoSession} /\ c.id \in {b.id, NoSession}
      /\ c.pc = "ensure" => c.id = b.id
  BY <1>2, <1>4, EnterFacts
<1>7. /\ CallsInv' /\ call' \in [Req -> Calls] /\ call'[r] = c
  BY <1>5, <1>6, CallsStep DEF Moves, IInv
<1>8. /\ sessions' \in [Session -> Records \cup {Absent}]
      /\ sessions'[s] = [gen |-> b.gen, age |-> "fresh"] /\ sessions'[s] # Absent
      /\ \A t \in Session \ {s} : sessions'[t] = sessions[t]
  <2>1. [gen |-> b.gen, age |-> "fresh"] \in Records
    BY <1>2 DEF Records
  <2>2. sessions \in [Session -> Records \cup {Absent}]
    BY DEF IInv, TypeOK
  <2> QED BY <1>5, <2>1, <2>2, Constants
<1>9. TypeOK'
  BY <1>5, <1>7, <1>8 DEF TypeOK, IInv
<1>10. LoginInv'
  BY <1>1, <1>2, <1>5, <1>6, LoginKept DEF IInv, Redeeming
<1>11. Stored(s) \/ Revived(s)
  <2>1. MayWrite(r, s)
    BY <1>1, <1>2, <1>3 DEF MayWrite
  <2>2. ~Has(r, "set", s)
    BY <1>1, <1>2 DEF Has
  <2> QED BY <2>1, <2>2 DEF IInv, StoreInv, CopyOf
<1>12. ~Secret(s)
  <2>1. Knows(r, s)
    BY <1>1, <1>3 DEF Knows
  <2> QED BY <2>1 DEF IInv, StoreInv, SecretOf
<1>13. Follows(b, c)
  BY <1>2, <1>6 DEF Follows, Writes
<1>14. StoreInv'
  <2>1. ASSUME NEW t \in Session
        PROVE  /\ Stored(t) => Stored(t)'
               /\ Stored(t)' => Stored(t) \/ (Revived(t) /\ ~Secret(t))
    BY <1>8, <1>11, <1>12 DEF Stored
  <2> QED BY <1>1, <1>5, <1>6, <1>13, <2>1, QuietStep DEF IInv
<1>15. ASSUME NEW t \in Session PROVE TokenOf(t)'
  <2>1. MarksKept(t)
    BY <1>5 DEF MarksKept, IInv, TokenInv
  <2>2. Stored(t)' /\ Steady(t)' => Stored(t) /\ sessions'[t].gen = sessions[t].gen
    <3>1. CASE t = s /\ Steady(t)'
      <4>1. Steady(s) /\ Stored(s)
        BY <1>5, <1>11, <3>1 DEF Steady, Revived
      <4>2. GenOf(s)
        BY DEF IInv, TokenInv
      <4>3. b.gen = sessions[s].gen
        BY <1>1, <1>2, <1>3, <4>1, <4>2 DEF GenOf
      <4> QED BY <1>8, <3>1, <4>1, <4>3
    <3>2. CASE t # s
      BY <1>8, <3>2 DEF Stored
    <3> QED BY <3>1, <3>2
  <2>3. ~Holds(r, t)' /\ ~Saving(r, t)
    BY <1>1, <1>2, <1>6, <1>7 DEF Holds, Saving
  <2>4. c.pc \notin {"save", "touchSet", "refresh"}
    BY <1>6
  <2> QED BY <1>5, <1>6, <2>1, <2>2, <2>3, <2>4, TokenKept DEF IInv
<1> QED
  BY <1>7, <1>9, <1>10, <1>14, <1>15 DEF IInv, TokenInv, TokenOf

\* The holder of the lock is the only one to have a refresh under way.
LEMMA OneHolder ==
  ASSUME IInv, NEW r \in Req, NEW s \in Session, Holds(r, s), <<"lapse", s>> \notin marks
  PROVE  \A q \in Req \ {r} : ~Holds(q, s) /\ ~Saving(q, s)
<1>1. LockOf(s)
  BY DEF IInv, TokenInv
<1> QED
  BY <1>1 DEF LockOf, Holds, Saving

\* saveSession, for the refreshed tokens.
LEMMA SaveStep == ASSUME IInv, NEW r \in Req, Save(r) PROVE IInv'
<1>1. PICK b : b = call[r]
  OBVIOUS
<1>2. /\ b \in Calls /\ Placed(b) /\ b.pc = "save" /\ b.ops = {} /\ b.kind = "api"
      /\ b.id \in Session /\ b.gen \in Gens
  <2>1. b \in Calls /\ Placed(b) /\ b.pc = "save" /\ b.ops = {}
    BY <1>1, CallFacts DEF IInv, Save
  <2> QED BY <2>1 DEF Placed, Relays, Calls
<1>3. PICK s \in Session : s = b.id
  BY <1>2
<1>4. PICK c : c = [b EXCEPT !.pc = "unlock"]
  OBVIOUS
<1>5. /\ Moves(r, c) /\ left' = left
      /\ sessions' = [sessions EXCEPT ![s] = [gen |-> b.gen, age |-> "fresh"]]
      /\ marks' = marks \cup {m \in {<<"overlap", s>>} :
                   \E q \in Req : call[q].pc = "touchSet" /\ call[q].id = s}
      /\ UNCHANGED <<sessionsBySid, preAuth, refreshLocks, browser, provider, ended>>
  BY <1>1, <1>3, <1>4 DEF Save, SaveSession, Moves
<1>6. /\ c \in Calls /\ c.pc = "unlock" /\ c.kind = b.kind /\ c.login = b.login
      /\ c.next = b.next /\ c.cookie = b.cookie /\ c.id = s /\ c.ops = {}
  BY <1>2, <1>3, <1>4, SetPc DEF Points
<1>7. Shaped(c) /\ Follows(b, c)
  BY <1>2, <1>3, <1>6 DEF Shaped, Placed, Callbacks, Relays, Follows, Writes
<1>8. /\ CallsInv' /\ call' \in [Req -> Calls] /\ call'[r] = c
      /\ \A q \in Req \ {r} : call'[q] = call[q]
  BY <1>5, <1>7, CallsStep DEF Moves, IInv
<1>9. /\ sessions' \in [Session -> Records \cup {Absent}]
      /\ sessions'[s] = [gen |-> b.gen, age |-> "fresh"] /\ sessions'[s] # Absent
      /\ \A t \in Session \ {s} : sessions'[t] = sessions[t]
  <2>1. [gen |-> b.gen, age |-> "fresh"] \in Records
    BY <1>2 DEF Records
  <2>2. sessions \in [Session -> Records \cup {Absent}]
    BY DEF IInv, TypeOK
  <2> QED BY <1>5, <2>1, <2>2, Constants
<1>10. /\ marks \subseteq marks'
       /\ marks' \subseteq {"lapse", "lost", "overlap", "revived", "reuse", "replay"} \X Session
       /\ \A k, t : k # "overlap" => (<<k, t>> \in marks' <=> <<k, t>> \in marks)
       /\ (\E q \in Req : call[q].pc = "touchSet" /\ call[q].id = s) => <<"overlap", s>> \in marks'
  <2>1. marks \subseteq {"lapse", "lost", "overlap", "revived", "reuse", "replay"} \X Session
    BY DEF IInv, TypeOK
  <2> QED BY <1>5, <2>1
<1>11. TypeOK'
  BY <1>5, <1>8, <1>9, <1>10 DEF TypeOK, IInv
<1>12. LoginInv'
  BY <1>1, <1>2, <1>5, <1>6, <1>7, LoginKept DEF IInv, Redeeming
<1>13. Stored(s) \/ Revived(s)
  <2>1. MayWrite(r, s)
    BY <1>1, <1>2, <1>3 DEF MayWrite
  <2>2. ~Has(r, "set", s)
    BY <1>1, <1>2 DEF Has
  <2> QED BY <2>1, <2>2 DEF IInv, StoreInv, CopyOf
<1>14. ~Secret(s)
  <2>1. Knows(r, s)
    BY <1>1, <1>3 DEF Knows
  <2> QED BY <2>1 DEF IInv, StoreInv, SecretOf
<1>15. StoreInv'
  <2>1. ASSUME NEW t \in Session
        PROVE  /\ Stored(t) => Stored(t)'
               /\ Stored(t)' => Stored(t) \/ (Revived(t) /\ ~Secret(t))
    BY <1>9, <1>13, <1>14 DEF Stored
  <2> QED BY <1>1, <1>5, <1>7, <1>10, <2>1, QuietStep DEF IInv
<1>16. \A t \in Session : MarksKept(t)
  BY <1>10 DEF MarksKept, IInv, TokenInv
<1>17. \A t \in Session : Holds(r, t)' <=> Holds(r, t)
  BY <1>1, <1>2, <1>3, <1>6, <1>8 DEF Holds
<1>18. ASSUME NEW t \in Session \ {s} PROVE TokenOf(t)'
  <2>1. Stored(t)' => Stored(t) /\ sessions'[t].gen = sessions[t].gen
    BY <1>9 DEF Stored
  <2>2. ~Saving(r, t)
    BY <1>1, <1>3 DEF Saving
  <2> QED BY <1>5, <1>6, <1>7, <1>16, <1>17, <2>1, <2>2, TokenKept DEF IInv
<1>19. TokenOf(s)'
  <2>1. LockOf(s)'
    BY <1>5, <1>7, <1>10, <1>17, LockKept DEF IInv
  <2>2. Holds(r, s) /\ Saving(r, s)
    BY <1>1, <1>2, <1>3 DEF Holds, Saving
  <2>3. Steady(s)' => /\ Steady(s) /\ Stored(s)
                      /\ \A q \in Req : ~(call[q].pc = "touchSet" /\ call[q].id = s)
                      /\ \A q \in Req \ {r} : ~Holds(q, s) /\ ~Saving(q, s)
    BY <1>10, <1>13, <2>2, OneHolder DEF Steady, Revived
  <2>4. GenOf(s)'
    <3> SUFFICES ASSUME Steady(s)', NEW q \in Req, call'[q].id = s
                 PROVE  call'[q].pc \notin {"touchSet", "refresh", "save"}
      BY DEF GenOf
    <3>1. CASE q = r
      BY <1>6, <1>8, <3>1
    <3>2. CASE q # r
      BY <1>8, <2>3, <3>2 DEF Holds
    <3> QED BY <3>1, <3>2
  <2>5. Clean(s)' => sessions'[s].gen = family'[s].head /\ \A q \in Req : ~Saving(q, s)'
    <3> SUFFICES ASSUME Clean(s)'
                 PROVE  sessions'[s].gen = family'[s].head /\ \A q \in Req : ~Saving(q, s)'
      OBVIOUS
    <3>1. Clean(s) /\ Stored(s) /\ \A q \in Req \ {r} : ~Saving(q, s)
      BY <1>10, <2>3 DEF Clean
    <3>2. b.gen = family[s].head
      BY <1>1, <2>2, <3>1 DEF IInv, TokenInv, HeadOf
    <3>3. \A q \in Req : ~Saving(q, s)'
      BY <1>6, <1>8, <3>1 DEF Saving
    <3> QED BY <1>5, <1>9, <3>2, <3>3
  <2>6. HeadOf(s)'
    BY <2>5 DEF HeadOf
  <2>7. ReuseOf(s)' /\ <<"replay", s>> \notin marks'
    BY <1>10 DEF ReuseOf, IInv, TokenInv, Clean, Steady
  <2> QED BY <2>1, <2>4, <2>6, <2>7 DEF TokenOf
<1> QED
  BY <1>8, <1>11, <1>12, <1>15, <1>18, <1>19 DEF IInv, TokenInv, TokenOf


\* An answer of the token endpoint changes nothing in the store, nor any other session's tokens.
LEMMA RefreshAnswered ==
  ASSUME IInv, NEW r \in Req, NEW s \in Session, call[r].pc = "refresh", call[r].id = s, call[r].ops = {},
         NEW c, Shaped(c), Moves(r, c), Follows(call[r], c), left' = left,
         c.pc \in {"save", "dropRejected", "unlock"}, c.kind = "api", c.id = s,
         faults' \in 0 .. MaxFaults,
         UNCHANGED <<stores, cookie, preAuthCookie, login, due, ended>>,
         family' \in [Session -> [head : Gens, alive : BOOLEAN]],
         \A t \in Session \ {s} : family'[t] = family[t],
         marks \subseteq marks',
         marks' \subseteq {"lapse", "lost", "overlap", "revived", "reuse", "replay"} \X Session,
         \A k, t : t # s => (<<k, t>> \in marks' <=> <<k, t>> \in marks),
         TokenOf(s)'
  PROVE  IInv'
<1>1. /\ CallsInv' /\ call' \in [Req -> Calls] /\ call'[r] = c
      /\ \A q \in Req \ {r} : call'[q] = call[q]
  BY CallsStep DEF Moves, IInv
<1>2. TypeOK'
  BY <1>1 DEF TypeOK, IInv
<1>3. LoginInv'
  BY LoginKept DEF IInv, Redeeming
<1>4. ~Secret(s)
  BY DEF IInv, StoreInv, SecretOf, Knows
<1>5. StoreInv'
  <2>1. ASSUME NEW t \in Session
        PROVE  /\ Stored(t) <=> Stored(t)'
               /\ Secret(t) => family'[t].head = family[t].head
    BY <1>4 DEF Stored
  <2> QED BY <2>1, QuietStep DEF IInv
<1>6. ASSUME NEW t \in Session \ {s} PROVE TokenOf(t)'
  <2>1. MarksKept(t)
    BY DEF MarksKept, IInv, TokenInv
  <2>2. Stored(t)' => Stored(t) /\ sessions'[t].gen = sessions[t].gen
    BY DEF Stored
  <2>3. ~Holds(r, t)' /\ ~Saving(r, t)
    BY <1>1 DEF Holds, Saving
  <2>4. TypeOK /\ CallsInv /\ TokenInv /\ family'[t].head = family[t].head /\ refreshLocks' = refreshLocks
    BY DEF IInv
  <2>5. /\ LockOf(t)'
        /\ GenOf(t) /\ HeadOf(t) /\ ReuseOf(t) /\ <<"replay", t>> \notin marks
    BY <2>3, <2>4, LockKept DEF TokenInv
  <2>6. (Steady(t)' <=> Steady(t)) /\ (Clean(t)' <=> Clean(t)) /\ (<<"reuse", t>> \in marks' <=> <<"reuse", t>> \in marks)
    BY DEF Steady, Clean
  <2>7. \A q \in Req : (Saving(q, t)' <=> Saving(q, t)) /\ (call'[q].id = t => q # r)
    BY <1>1, <2>3 DEF Saving
  <2>8. GenOf(t)'
    BY <1>1, <2>2, <2>5, <2>6, <2>7 DEF GenOf
  <2>9. HeadOf(t)'
    <3>1. \A q \in Req : Saving(q, t)' => call'[q].gen = call[q].gen
      BY <1>1, <2>7 DEF Saving
    <3> QED BY <2>2, <2>4, <2>5, <2>6, <2>7, <3>1 DEF HeadOf
  <2> QED BY <2>1, <2>5, <2>6, <2>8, <2>9 DEF TokenOf, ReuseOf, MarksKept
<1> QED
  BY <1>1, <1>2, <1>3, <1>5, <1>6 DEF IInv, TokenInv, TokenOf

\* A clean session's holder of the lock sends the newest token.
LEMMA HolderHasNewest ==
  ASSUME IInv, NEW r \in Req, NEW s \in Session, call[r].pc = "refresh", call[r].id = s, Clean(s),
         call[r].ops = {}
  PROVE  Stored(s) /\ call[r].gen = sessions[s].gen /\ sessions[s].gen = family[s].head
<1>1. Holds(r, s) /\ MayWrite(r, s) /\ ~Saving(r, s) /\ ~Has(r, "set", s)
  BY DEF Holds, MayWrite, Saving, Has
<1>2. Stored(s)
  BY <1>1 DEF IInv, StoreInv, CopyOf, Clean, Steady, Revived
<1>3. call[r].gen = sessions[s].gen
  BY <1>2 DEF IInv, TokenInv, GenOf, Clean
<1>4. \A q \in Req : ~Saving(q, s)
  BY <1>1, OneHolder DEF Clean, Steady
<1> QED
  BY <1>2, <1>3, <1>4 DEF IInv, TokenInv, HeadOf

\* The refresh-token grant.
LEMMA RefreshStep == ASSUME IInv, NEW r \in Req, Refresh(r) PROVE IInv'
<1>1. PICK b : b = call[r]
  OBVIOUS
<1>2. /\ b \in Calls /\ Placed(b) /\ b.pc = "refresh" /\ b.ops = {} /\ b.kind = "api"
      /\ b.id \in Session /\ b.gen \in Gens
  <2>1. b \in Calls /\ Placed(b) /\ b.pc = "refresh" /\ b.ops = {}
    BY <1>1, CallFacts DEF IInv, Refresh
  <2> QED BY <2>1 DEF Placed, Relays, Calls
<1>3. PICK s \in Session : s = b.id
  BY <1>2
<1>4. family \in [Session -> [head : Gens, alive : BOOLEAN]]
  BY DEF IInv, TypeOK
<1>5. marks \subseteq {"lapse", "lost", "overlap", "revived", "reuse", "replay"} \X Session
  BY DEF IInv, TypeOK
<1>6. /\ UNCHANGED <<stores, cookie, preAuthCookie, login, due, ended>> /\ left' = left
      /\ faults' = faults \/ (faults > 0 /\ faults' = faults - 1)
      /\ \/ /\ b.gen = family[s].head /\ b.gen < MaxGen
            /\ family' = [family EXCEPT ![s].head = b.gen + 1] /\ marks' = marks
            /\ Moves(r, [b EXCEPT !.pc = "save", !.gen = b.gen + 1, !.forced = FALSE])
         \/ /\ ~(b.gen = family[s].head /\ family[s].alive)
            /\ family' = [family EXCEPT ![s].alive = FALSE]
            /\ marks' = marks \cup {m \in {<<"reuse", s>>} : family[s].alive}
            /\ Moves(r, [b EXCEPT !.pc = "dropRejected", !.failed = TRUE, !.ops = DestroyOps(s)])
         \/ /\ family' = family \/ (b.gen < MaxGen /\ family' = [family EXCEPT ![s].head = b.gen + 1])
            /\ marks' = marks \cup {<<"lost", s>>}
            /\ Moves(r, [b EXCEPT !.pc = "unlock", !.failed = TRUE])
  BY <1>1, <1>3 DEF Refresh, Rotate, Moves
<1>7. faults' \in 0 .. MaxFaults
  BY <1>6, Constants DEF IInv, TypeOK
<1>8. Holds(r, s) /\ ~Saving(r, s)
  BY <1>1, <1>2, <1>3 DEF Holds, Saving
<1>9. LockOf(s) /\ GenOf(s) /\ HeadOf(s) /\ ReuseOf(s) /\ <<"replay", s>> \notin marks
  BY DEF IInv, TokenInv
<1>10. b.gen < MaxGen => b.gen + 1 \in Gens
  BY <1>2, Constants DEF Gens
<1>11. CASE /\ b.gen = family[s].head /\ b.gen < MaxGen
            /\ family' = [family EXCEPT ![s].head = b.gen + 1] /\ marks' = marks
            /\ Moves(r, [b EXCEPT !.pc = "save", !.gen = b.gen + 1, !.forced = FALSE])
  <2>1. PICK c1 : c1 = [b EXCEPT !.pc = "save"]
    OBVIOUS
  <2>2. PICK g : g = b.gen + 1
    OBVIOUS
  <2>3. PICK c2 : c2 = [c1 EXCEPT !.gen = g]
    OBVIOUS
  <2>4. PICK c : c = [c2 EXCEPT !.forced = FALSE]
    OBVIOUS
  <2>5. Moves(r, c)
    BY <1>11, <2>1, <2>2, <2>3, <2>4 DEF Moves
  <2>6. /\ c1 \in Calls /\ c1.pc = "save" /\ c1.kind = b.kind /\ c1.login = b.login
        /\ c1.next = b.next /\ c1.cookie = b.cookie /\ c1.id = b.id /\ c1.ops = {}
    BY <1>2, <2>1, SetPc DEF Points
  <2>7. /\ c2 \in Calls /\ c2.pc = "save" /\ c2.kind = b.kind /\ c2.login = b.login /\ c2.gen = g
        /\ c2.next = b.next /\ c2.cookie = b.cookie /\ c2.id = b.id /\ c2.ops = {}
    <3>1. g \in Gens
      BY <1>10, <1>11, <2>2
    <3> QED BY <2>3, <2>6, <3>1, SetGen
  <2>8. /\ c \in Calls /\ c.pc = "save" /\ c.kind = b.kind /\ c.login = b.login /\ c.gen = g
        /\ c.next = b.next /\ c.cookie = b.cookie /\ c.id = b.id /\ c.ops = {}
    BY <2>4, <2>7 DEF Calls
  <2>9. Shaped(c) /\ Follows(b, c)
    BY <1>2, <2>8 DEF Shaped, Placed, Callbacks, Relays, Follows, Writes
  <2>10. /\ family' \in [Session -> [head : Gens, alive : BOOLEAN]] /\ family'[s].head = g
         /\ \A t \in Session \ {s} : family'[t] = family[t]
    BY <1>4, <1>10, <1>11, <2>2
  <2>11. call'[r] = c /\ \A q \in Req \ {r} : call'[q] = call[q]
    BY <2>5, <2>9, CallsStep DEF Moves, IInv
  <2>12. (Steady(s)' <=> Steady(s)) /\ (Clean(s)' <=> Clean(s)) /\ (Stored(s)' <=> Stored(s))
    BY <1>6, <1>11 DEF Steady, Clean, Stored
  <2>13. TokenOf(s)'
    <3>1. LockOf(s)'
      <4>1. refreshLocks' = refreshLocks /\ marks \subseteq marks'
        BY <1>6, <1>11
      <4> QED BY <1>8, <2>5, <2>9, <4>1, LockKept DEF IInv
    <3>2. GenOf(s)'
      <4> SUFFICES ASSUME Steady(s)', Stored(s)', NEW q \in Req, call'[q].id = s
                   PROVE  /\ call'[q].pc \in {"touchSet", "refresh"} => call'[q].gen = sessions'[s].gen
                          /\ call'[q].pc = "save" => call'[q].gen = sessions'[s].gen + 1
        BY DEF GenOf
      <4>1. sessions' = sessions
        BY <1>6
      <4>2. CASE q = r
        <5>1. b.gen = sessions[s].gen
          BY <1>1, <1>2, <1>3, <1>9, <2>12 DEF GenOf
        <5> QED BY <2>2, <2>8, <2>11, <4>1, <4>2, <5>1
      <4>3. CASE q # r
        BY <1>9, <2>11, <2>12, <4>1, <4>3 DEF GenOf
      <4> QED BY <4>2, <4>3
    <3>3. HeadOf(s)'
      <4>1. Saving(r, s)'
        BY <1>3, <2>8, <2>11 DEF Saving
      <4>2. Clean(s) => \A q \in Req \ {r} : ~Saving(q, s)
        BY <1>8, OneHolder DEF Clean, Steady
      <4>3. \A q \in Req \ {r} : Saving(q, s)' => Saving(q, s)
        BY <2>11 DEF Saving
      <4> QED BY <2>8, <2>10, <2>11, <2>12, <4>1, <4>2, <4>3 DEF HeadOf
    <3>4. ReuseOf(s)' /\ <<"replay", s>> \notin marks'
      BY <1>9, <1>11, <2>12 DEF ReuseOf
    <3> QED BY <3>1, <3>2, <3>3, <3>4 DEF TokenOf
  <2>14. c.pc = "save" /\ c.kind = "api" /\ c.id = s
    BY <1>2, <1>3, <2>8
  <2> QED
    BY <1>1, <1>2, <1>3, <1>5, <1>6, <1>7, <1>11, <2>5, <2>9, <2>10, <2>13, <2>14, RefreshAnswered
<1>12. CASE /\ ~(b.gen = family[s].head /\ family[s].alive)
            /\ family' = [family EXCEPT ![s].alive = FALSE]
            /\ marks' = marks \cup {m \in {<<"reuse", s>>} : family[s].alive}
            /\ Moves(r, [b EXCEPT !.pc = "dropRejected", !.failed = TRUE, !.ops = DestroyOps(s)])
  <2>1. PICK c1 : c1 = [b EXCEPT !.pc = "dropRejected"]
    OBVIOUS
  <2>2. PICK c2 : c2 = [c1 EXCEPT !.failed = TRUE]
    OBVIOUS
  <2>3. PICK c : c = [c2 EXCEPT !.ops = DestroyOps(s)]
    OBVIOUS
  <2>4. Moves(r, c)
    BY <1>12, <2>1, <2>2, <2>3 DEF Moves
  <2>5. /\ c1 \in Calls /\ c1.pc = "dropRejected" /\ c1.kind = b.kind /\ c1.login = b.login
        /\ c1.next = b.next /\ c1.cookie = b.cookie /\ c1.id = b.id
    BY <1>2, <2>1, SetPc DEF Points
  <2>6. /\ c2 \in Calls /\ c2.pc = "dropRejected" /\ c2.kind = b.kind /\ c2.login = b.login
        /\ c2.next = b.next /\ c2.cookie = b.cookie /\ c2.id = b.id /\ c2.failed = TRUE
    BY <2>2, <2>5 DEF Calls
  <2>7. /\ c \in Calls /\ c.pc = "dropRejected" /\ c.kind = b.kind /\ c.login = b.login
        /\ c.next = b.next /\ c.cookie = b.cookie /\ c.id = b.id /\ c.failed = TRUE
        /\ c.ops = DestroyOps(s)
    <3>1. DestroyOps(s) \in SUBSET Commands
      BY Destroying
    <3> QED BY <2>3, <2>6, <3>1, SetOps
  <2>8. Shaped(c)
    BY <1>2, <1>3, <2>7 DEF Shaped, Placed, Issued, Callbacks, Relays
  <2>9. Follows(b, c)
    BY <1>2, <1>3, <2>7 DEF Follows, Writes
  <2>10. /\ family' \in [Session -> [head : Gens, alive : BOOLEAN]] /\ family'[s].head = family[s].head
         /\ \A t \in Session \ {s} : family'[t] = family[t]
    BY <1>4, <1>12
  <2>11. call'[r] = c
    BY <2>4, <2>8, CallsStep DEF Moves, IInv
  <2>12. /\ marks \subseteq marks'
         /\ marks' \subseteq {"lapse", "lost", "overlap", "revived", "reuse", "replay"} \X Session
         /\ \A k, t : t # s \/ k # "reuse" => (<<k, t>> \in marks' <=> <<k, t>> \in marks)
         /\ <<"reuse", s>> \in marks' => <<"reuse", s>> \in marks \/ family[s].alive
    BY <1>5, <1>12
  <2>13. MarksKept(s)
    <3>1. Clean(s) => ~family[s].alive
      BY <1>1, <1>2, <1>3, <1>12, HolderHasNewest
    <3>2. <<"reuse", s>> \in marks' => <<"reuse", s>> \in marks \/ ~Clean(s)
      BY <2>12, <3>1
    <3> QED BY <1>9, <2>12, <3>2 DEF MarksKept
  <2>14. TokenOf(s)'
    <3>1. refreshLocks' = refreshLocks /\ sessions' = sessions /\ (Stored(s)' <=> Stored(s))
      BY <1>6 DEF Stored
    <3> QED BY <1>8, <2>4, <2>7, <2>8, <2>10, <2>13, <3>1, TokenKept DEF IInv
  <2>15. c.pc = "dropRejected" /\ c.kind = "api" /\ c.id = s
    BY <1>2, <1>3, <2>7
  <2> QED
    BY <1>1, <1>2, <1>3, <1>6, <1>7, <2>4, <2>8, <2>9, <2>10, <2>12, <2>14, <2>15, RefreshAnswered
<1>13. CASE /\ family' = family \/ (b.gen < MaxGen /\ family' = [family EXCEPT ![s].head = b.gen + 1])
            /\ marks' = marks \cup {<<"lost", s>>}
            /\ Moves(r, [b EXCEPT !.pc = "unlock", !.failed = TRUE])
  <2>1. PICK c1 : c1 = [b EXCEPT !.pc = "unlock"]
    OBVIOUS
  <2>2. PICK c : c = [c1 EXCEPT !.failed = TRUE]
    OBVIOUS
  <2>3. Moves(r, c)
    BY <1>13, <2>1, <2>2 DEF Moves
  <2>4. /\ c1 \in Calls /\ c1.pc = "unlock" /\ c1.kind = b.kind /\ c1.login = b.login
        /\ c1.next = b.next /\ c1.cookie = b.cookie /\ c1.id = b.id /\ c1.ops = {}
    BY <1>2, <2>1, SetPc DEF Points
  <2>5. /\ c \in Calls /\ c.pc = "unlock" /\ c.kind = b.kind /\ c.login = b.login
        /\ c.next = b.next /\ c.cookie = b.cookie /\ c.id = b.id /\ c.failed = TRUE /\ c.ops = {}
    BY <2>2, <2>4 DEF Calls
  <2>6. Shaped(c) /\ Follows(b, c)
    BY <1>2, <2>5 DEF Shaped, Placed, Callbacks, Relays, Follows, Writes
  <2>7. /\ family' \in [Session -> [head : Gens, alive : BOOLEAN]]
        /\ \A t \in Session \ {s} : family'[t] = family[t]
    <3>1. CASE family' = family
      BY <1>4, <3>1
    <3>2. CASE b.gen < MaxGen /\ family' = [family EXCEPT ![s].head = b.gen + 1]
      BY <1>4, <1>10, <3>2
    <3> QED BY <1>13, <3>1, <3>2
  <2>8. call'[r] = c
    BY <2>3, <2>6, CallsStep DEF Moves, IInv
  <2>9. /\ marks \subseteq marks' /\ <<"lost", s>> \in marks'
        /\ marks' \subseteq {"lapse", "lost", "overlap", "revived", "reuse", "replay"} \X Session
        /\ \A k, t : t # s \/ k # "lost" => (<<k, t>> \in marks' <=> <<k, t>> \in marks)
    BY <1>5, <1>13
  <2>10. MarksKept(s)
    BY <1>9, <2>9 DEF MarksKept
  <2>11. TokenOf(s)'
    <3>1. refreshLocks' = refreshLocks /\ sessions' = sessions /\ (Stored(s)' <=> Stored(s))
      BY <1>6 DEF Stored
    <3> QED BY <1>8, <2>3, <2>5, <2>6, <2>9, <2>10, <3>1, TokenKept DEF IInv
  <2>12. c.pc = "unlock" /\ c.kind = "api" /\ c.id = s
    BY <1>2, <1>3, <2>5
  <2> QED
    BY <1>1, <1>2, <1>3, <1>6, <1>7, <2>3, <2>6, <2>7, <2>9, <2>11, <2>12, RefreshAnswered
<1> QED
  BY <1>6, <1>11, <1>12, <1>13


-----------------------------------------------------------------------------
(* Failures, and time *)

\* A request that breaks off leaves its commands undone: their sessions are marked.
LEMMA AbortStep == ASSUME IInv, NEW r \in Req, Abort(r) PROVE IInv'
<1>1. PICK b : b = call[r]
  OBVIOUS
<1>2. b \in Calls /\ Placed(b) /\ b.ops \subseteq Issued(b) /\ b.ops \subseteq Commands /\ b.id \in Session \cup {NoSession}
  <2>1. b \in Calls /\ Placed(b) /\ b.ops \subseteq Issued(b) /\ b.id \in Session \cup {NoSession}
    BY <1>1, CallFacts DEF IInv
  <2> QED BY <2>1 DEF Calls
<1>3. /\ faults > 0 /\ faults' = faults - 1 /\ Moves(r, Idle) /\ left' = left
      /\ marks' = marks \cup {<<"revived", o[2]>> : o \in {p \in b.ops : p[1] # "deleteSid"}}
                        \cup {m \in {<<"lost", b.id>>} : b.pc \in {"refresh", "save"}}
      /\ UNCHANGED <<stores, cookie, preAuthCookie, login, provider, ended>>
  BY <1>1 DEF Abort, Moves
<1>4. /\ Shaped(Idle) /\ Idle.pc = "idle" /\ Idle.kind = "none" /\ Idle.ops = {}
      /\ Idle.cookie = NoSession /\ Idle.id = NoSession /\ Idle.next = "keep"
  BY IdleFacts DEF Shaped
<1>5. CallsInv' /\ call' \in [Req -> Calls] /\ call'[r] = Idle
  BY <1>3, <1>4, CallsStep DEF Moves, IInv
<1>6. marks \subseteq marks'
  BY <1>3
<1>7. \A o \in b.ops : o[1] # "deleteSid" => o[2] \in Session
  BY <1>2 DEF Commands
<1>8. b.pc \in {"refresh", "save"} => b.id \in Session
  BY <1>2 DEF Placed, Relays
<1>9. marks' \subseteq {"lapse", "lost", "overlap", "revived", "reuse", "replay"} \X Session
  <2>1. marks \subseteq {"lapse", "lost", "overlap", "revived", "reuse", "replay"} \X Session
    BY DEF IInv, TypeOK
  <2>2. \A o \in {p \in b.ops : p[1] # "deleteSid"} :
            <<"revived", o[2]>> \in {"lapse", "lost", "overlap", "revived", "reuse", "replay"} \X Session
    BY <1>7
  <2>3. \A m \in {m \in {<<"lost", b.id>>} : b.pc \in {"refresh", "save"}} :
            m \in {"lapse", "lost", "overlap", "revived", "reuse", "replay"} \X Session
    BY <1>8
  <2> QED BY <1>3, <2>1, <2>2, <2>3
<1>10. TypeOK'
  BY <1>3, <1>5, <1>9, Constants DEF TypeOK, IInv
<1>11. LoginInv'
  BY <1>3, <1>4, LoginKept DEF IInv, Redeeming
<1>12. ASSUME NEW k \in {"reuse", "replay"}, NEW t PROVE <<k, t>> \in marks' <=> <<k, t>> \in marks
  <2>1. <<k, t>> \notin {<<"revived", o[2]>> : o \in {p \in b.ops : p[1] # "deleteSid"}}
    OBVIOUS
  <2>2. <<k, t>> \notin {m \in {<<"lost", b.id>>} : b.pc \in {"refresh", "save"}}
    OBVIOUS
  <2> QED BY <1>3, <2>1, <2>2
<1>13. ASSUME NEW t \in Session, NEW k \in {"set", "add", "delete", "remove"}
       PROVE  Has(r, k, t) => Revived(t)'
  <2> SUFFICES ASSUME Has(r, k, t) PROVE Revived(t)'
    OBVIOUS
  <2>1. <<k, t>> \in b.ops /\ <<k, t>>[1] # "deleteSid" /\ <<k, t>>[2] = t
    BY <1>1 DEF Has
  <2>2. <<"revived", t>> \in {<<"revived", o[2]>> : o \in {p \in b.ops : p[1] # "deleteSid"}}
    BY <2>1
  <2> QED BY <1>3, <2>2 DEF Revived
<1>14. ASSUME NEW t \in Session PROVE StoreOf(t)'
  <2>1. Stored(t)' = Stored(t) /\ Listed(t)' = Listed(t) /\ (Revived(t) => Revived(t)')
    BY <1>3, <1>6 DEF Stored, Listed, Revived
  <2>2. ~Creating(r, t)' /\ ~Preparing(r, t)' /\ ~Knows(r, t)'
    BY <1>4, <1>5, Constants DEF Creating, Preparing, Knows
  <2>3. \A k \in {"set", "add", "delete", "remove"} : ~Has(r, k, t)'
    BY <1>4, <1>5 DEF Has
  <2>4. ~MayWrite(r, t)' /\ ~Touches(r, t)'
    BY <1>4, <1>5, <2>3 DEF MayWrite, Has, Touches
  <2>5. login' = login /\ family' = family /\ cookie' = cookie /\ ended' = ended
    BY <1>3
  <2> QED BY <1>3, <1>4, <1>13, <2>1, <2>2, <2>3, <2>4, <2>5, StoreKept DEF IInv
<1>15. StoreInv'
  <2>1. ListsTyped'
    BY <1>3 DEF ListsTyped, IInv, StoreInv
  <2> QED BY <1>14, <2>1 DEF StoreInv, StoreOf, ListsTyped
<1>16. ASSUME NEW t \in Session PROVE TokenOf(t)'
  <2>1. MarksKept(t)
    BY <1>6, <1>12 DEF MarksKept, IInv, TokenInv
  <2>2. Stored(t)' => Stored(t) /\ sessions'[t].gen = sessions[t].gen
    BY <1>3 DEF Stored
  <2>3. ~Holds(r, t)'
    BY <1>4, <1>5 DEF Holds
  <2>4. Saving(r, t) => <<"lost", t>> \in marks'
    BY <1>1, <1>3 DEF Saving
  <2>5. family' = family /\ refreshLocks' = refreshLocks
    BY <1>3
  <2> QED BY <1>3, <1>4, <2>1, <2>2, <2>3, <2>4, <2>5, TokenKept DEF IInv
<1> QED
  BY <1>5, <1>10, <1>11, <1>15, <1>16 DEF IInv, TokenInv, TokenOf

\* What happens between two steps of the requests.
LEMMA Meanwhile ==
  ASSUME IInv, TypeOK', UNCHANGED <<call, sessionsBySid, cookie, login, ended>>, preAuth' \subseteq preAuth,
         \A s \in Session : Stored(s)' <=> Stored(s),
         \A s \in Session : Stored(s) => sessions'[s].gen = sessions[s].gen,
         \A s \in Session : family'[s].head = family[s].head,
         marks \subseteq marks', \A k, s : k # "lapse" => (<<k, s>> \in marks' <=> <<k, s>> \in marks),
         \A s \in Session : s \in refreshLocks => s \in refreshLocks' \/ <<"lapse", s>> \in marks'
  PROVE  IInv'
<1>1. CallsInv'
  BY DEF IInv, CallsInv
<1>2. LoginInv'
  BY DEF IInv, LoginInv
<1>3. ASSUME NEW s \in Session PROVE StoreOf(s)'
  <2>1. \A r \in Req : /\ Knows(r, s)' <=> Knows(r, s)
                       /\ Creating(r, s)' <=> Creating(r, s)
                       /\ Preparing(r, s)' <=> Preparing(r, s)
                       /\ MayWrite(r, s)' <=> MayWrite(r, s)
                       /\ \A o : Has(r, o, s)' <=> Has(r, o, s)
    BY DEF Knows, Creating, Preparing, MayWrite, Has
  <2>2. /\ Stored(s)' <=> Stored(s)
        /\ Listed(s)' <=> Listed(s)
        /\ Revived(s)' <=> Revived(s)
        /\ Deleting(s)' <=> Deleting(s)
        /\ Adding(s)' <=> Adding(s)
        /\ Gone(s)' <=> Gone(s)
        /\ Secret(s)' <=> Secret(s)
        /\ Unborn(s)' <=> Unborn(s)
    BY <2>1 DEF Listed, Revived, Deleting, Adding, Gone, Secret, Unborn
  <2>3. SecretOf(s)'
    BY <2>1, <2>2 DEF IInv, StoreInv, SecretOf
  <2>4. UnbornOf(s)'
    BY <2>1, <2>2 DEF IInv, StoreInv, UnbornOf
  <2>5. EndedOf(s)' /\ ListedOf(s)'
    BY <2>2 DEF IInv, StoreInv, EndedOf, ListedOf
  <2>6. \A r \in Req : CopyOf(r, s)'
    BY <2>1, <2>2 DEF IInv, StoreInv, CopyOf
  <2> QED BY <2>3, <2>4, <2>5, <2>6 DEF StoreOf
<1>4. StoreInv'
  <2>1. ListsTyped'
    BY DEF ListsTyped, IInv, StoreInv
  <2> QED BY <1>3, <2>1 DEF StoreInv, StoreOf, ListsTyped
<1>5. ASSUME NEW s \in Session PROVE TokenOf(s)'
  <2>1. \A r \in Req : (Holds(r, s)' <=> Holds(r, s)) /\ (Saving(r, s)' <=> Saving(r, s))
    BY DEF Holds, Saving
  <2>2. (Steady(s)' => Steady(s)) /\ (Clean(s)' => Clean(s))
    BY DEF Steady, Clean
  <2>3. LockOf(s)'
    BY <2>1 DEF IInv, TokenInv, LockOf
  <2>4. GenOf(s)'
    <3> SUFFICES ASSUME Steady(s)', Stored(s)', NEW r \in Req, call'[r].id = s
        PROVE /\ call'[r].pc \in {"touchSet", "refresh"} => call'[r].gen = sessions'[s].gen
              /\ call'[r].pc = "save" => call'[r].gen = sessions'[s].gen + 1
      BY DEF GenOf
    <3>1. Steady(s) /\ Stored(s) /\ sessions'[s].gen = sessions[s].gen /\ call' = call
      BY <2>2
    <3>2. \A q \in Req : call[q].id = s =>
              /\ call[q].pc \in {"touchSet", "refresh"} => call[q].gen = sessions[s].gen
              /\ call[q].pc = "save" => call[q].gen = sessions[s].gen + 1
      BY <3>1 DEF IInv, TokenInv, GenOf
    <3>3. /\ call[r].pc \in {"touchSet", "refresh"} => call[r].gen = sessions[s].gen
          /\ call[r].pc = "save" => call[r].gen = sessions[s].gen + 1
      BY <3>1, <3>2
    <3> QED BY <3>1, <3>3
  <2>5. HeadOf(s)'
    <3> SUFFICES ASSUME Clean(s)', Stored(s)'
        PROVE /\ \A r \in Req : Saving(r, s)' => call'[r].gen = family'[s].head
              /\ (\A r \in Req : ~Saving(r, s)') => sessions'[s].gen = family'[s].head
      BY DEF HeadOf
    <3>1. Clean(s) /\ Stored(s) /\ sessions'[s].gen = sessions[s].gen /\ family'[s].head = family[s].head
      BY <2>2
    <3>2. /\ \A r \in Req : Saving(r, s) => call[r].gen = family[s].head
          /\ (\A r \in Req : ~Saving(r, s)) => sessions[s].gen = family[s].head
      BY <3>1 DEF IInv, TokenInv, HeadOf
    <3> QED BY <2>1, <3>1, <3>2
  <2>6. ReuseOf(s)' /\ <<"replay", s>> \notin marks'
    BY <2>2 DEF IInv, TokenInv, ReuseOf
  <2> QED BY <2>3, <2>4, <2>5, <2>6 DEF TokenOf
<1> QED
  BY <1>1, <1>2, <1>4, <1>5 DEF IInv, TokenInv, TokenOf

LEMMA AgeStep == ASSUME IInv, NEW s \in Session, Age(s) PROVE IInv'
<1>1. PICK age \in {"old", "idle"} :
         /\ faults > 0 /\ faults' = faults - 1 /\ sessions[s] # Absent
         /\ sessions' = [sessions EXCEPT ![s].age = age]
         /\ UNCHANGED <<sessionsBySid, preAuth, refreshLocks, cookie, preAuthCookie, login, provider, call, left, history>>
  BY DEF Age
<1>2. sessions \in [Session -> Records \cup {Absent}] /\ sessions[s] \in Records
  BY <1>1 DEF IInv, TypeOK
<1>3. /\ sessions' \in [Session -> Records \cup {Absent}] /\ sessions'[s] \in Records
      /\ sessions'[s].gen = sessions[s].gen
      /\ \A t \in Session \ {s} : sessions'[t] = sessions[t]
  BY <1>1, <1>2 DEF Records
<1>4. TypeOK'
  BY <1>1, <1>3, Constants DEF TypeOK, IInv
<1>5. ASSUME NEW t \in Session
      PROVE  (Stored(t)' <=> Stored(t)) /\ sessions'[t].gen = sessions[t].gen
  BY <1>1, <1>3, Constants DEF Stored
<1> QED
  BY <1>1, <1>4, <1>5, Meanwhile

LEMMA TokenDueStep == ASSUME IInv, NEW s \in Session, TokenDue(s) PROVE IInv'
<1>1. /\ due[s] < MaxGen /\ due' = [due EXCEPT ![s] = @ + 1]
      /\ UNCHANGED <<stores, browser, family, call, left, history>>
  BY DEF TokenDue
<1>2. due \in [Session -> Gens]
  BY DEF IInv, TypeOK
<1>3. due' \in [Session -> Gens]
  <2>1. due[s] + 1 \in Gens
    BY <1>1, <1>2, Constants DEF Gens
  <2> QED BY <1>1, <1>2, <2>1
<1>4. TypeOK'
  BY <1>1, <1>3 DEF TypeOK, IInv
<1>5. \A t \in Session : (Stored(t)' <=> Stored(t)) /\ sessions'[t].gen = sessions[t].gen
  BY <1>1 DEF Stored
<1> QED
  BY <1>1, <1>4, <1>5, Meanwhile

LEMMA LockExpiresStep == ASSUME IInv, NEW s \in Session, LockExpires(s) PROVE IInv'
<1>1. /\ faults > 0 /\ faults' = faults - 1 /\ refreshLocks' = refreshLocks \ {s}
      /\ marks' = marks \cup {<<"lapse", s>>}
      /\ UNCHANGED <<sessions, sessionsBySid, preAuth, cookie, preAuthCookie, login, provider, call, left, ended>>
  BY DEF LockExpires
<1>2. /\ marks' \subseteq {"lapse", "lost", "overlap", "revived", "reuse", "replay"} \X Session
      /\ \A k, t : k # "lapse" => (<<k, t>> \in marks' <=> <<k, t>> \in marks)
  <2>1. marks \subseteq {"lapse", "lost", "overlap", "revived", "reuse", "replay"} \X Session
    BY DEF IInv, TypeOK
  <2> QED BY <1>1, <2>1
<1>3. TypeOK'
  BY <1>1, <1>2, Constants DEF TypeOK, IInv
<1>4. \A t \in Session : (Stored(t)' <=> Stored(t)) /\ sessions'[t].gen = sessions[t].gen
  BY <1>1 DEF Stored
<1>5. \A t \in Session : t \in refreshLocks => t \in refreshLocks' \/ <<"lapse", t>> \in marks'
  BY <1>1
<1> QED
  BY <1>1, <1>2, <1>3, <1>4, <1>5, Meanwhile

LEMMA PreAuthExpiresStep == ASSUME IInv, NEW s \in Session, PreAuthExpires(s) PROVE IInv'
<1>1. /\ faults > 0 /\ faults' = faults - 1 /\ preAuth' = preAuth \ {s}
      /\ UNCHANGED <<sessions, sessionsBySid, refreshLocks, cookie, preAuthCookie, login, provider, call, left, history>>
  BY DEF PreAuthExpires
<1>2. TypeOK'
  BY <1>1, Constants DEF TypeOK, IInv
<1>3. \A t \in Session : (Stored(t)' <=> Stored(t)) /\ sessions'[t].gen = sessions[t].gen
  BY <1>1 DEF Stored
<1> QED
  BY <1>1, <1>2, <1>3, Meanwhile

LEMMA StutterStep == ASSUME IInv, UNCHANGED vars PROVE IInv'
<1>1. TypeOK'
  BY DEF IInv, TypeOK, vars
<1>2. \A t \in Session : (Stored(t)' <=> Stored(t)) /\ sessions'[t].gen = sessions[t].gen
  BY DEF Stored, vars
<1> QED
  BY <1>1, <1>2, Meanwhile DEF vars

-----------------------------------------------------------------------------
(* The specification *)

\* At the start there is at most the browser's own session, stored and listed.
LEMMA InitIInv == Init => IInv
<1> SUFFICES ASSUME Init PROVE IInv
  OBVIOUS
<1> USE DEF Init
<1>1. \A r \in Req : call[r] = Idle
  OBVIOUS
<1>2. /\ Shaped(Idle) /\ Idle.pc = "idle" /\ Idle.kind = "none" /\ Idle.ops = {}
      /\ Idle.cookie = NoSession /\ Idle.id = NoSession /\ Idle.next = "keep"
  BY IdleFacts DEF Shaped
<1>3. \A s \in Session :
         /\ Stored(s) <=> s = Initial
         /\ Listed(s) <=> s = Initial
         /\ Stored(s) => sessions[s].gen = 0
         /\ login[s] = (IF s = Initial THEN "exchanged" ELSE "none")
         /\ family[s].head = 0
  <2> SUFFICES ASSUME NEW s \in Session
               PROVE  /\ Stored(s) <=> s = Initial
                      /\ Listed(s) <=> s = Initial
                      /\ Stored(s) => sessions[s].gen = 0
                      /\ login[s] = (IF s = Initial THEN "exchanged" ELSE "none")
                      /\ family[s].head = 0
    OBVIOUS
  <2>1. [gen |-> 0, age |-> "fresh"] \in Records
    BY Constants DEF Records, Gens
  <2>2. (Stored(s) <=> s = Initial) /\ (Stored(s) => sessions[s].gen = 0)
    BY <2>1, Constants DEF Stored
  <2>3. Listed(s) <=> s = Initial
    BY Constants DEF Listed
  <2> QED BY <2>2, <2>3
<1>4. TypeOK
  <2>1. [gen |-> 0, age |-> "fresh"] \in Records
    BY Constants DEF Records, Gens
  <2>2. call \in [Req -> Calls]
    BY <1>2 DEF Shaped
  <2>3. sessions \in [Session -> Records \cup {Absent}]
    BY <2>1
  <2>4. sessionsBySid \in [Sid -> SUBSET Session]
    OBVIOUS
  <2>5. family \in [Session -> [head : Gens, alive : BOOLEAN]] /\ due \in [Session -> Gens]
    BY Constants DEF Gens
  <2>6. login \in [Session -> {"none", "begun", "sent", "exchanged"}]
    OBVIOUS
  <2> QED BY <2>2, <2>3, <2>4, <2>5, <2>6, Constants DEF TypeOK, Ids
<1>5. CallsInv
  BY <1>1, <1>2 DEF CallsInv, Shaped
<1>6. LoginInv
  BY <1>1, <1>2 DEF LoginInv
<1>7. ASSUME NEW r \in Req, NEW s \in Session
      PROVE  /\ ~Knows(r, s) /\ ~Preparing(r, s) /\ ~Creating(r, s) /\ ~Holds(r, s) /\ ~Saving(r, s)
             /\ \A o : ~Has(r, o, s)
             /\ call[r].id # s /\ call[r].pc = "idle" /\ ~MayWrite(r, s)
  BY <1>1, <1>2, Constants DEF Knows, Preparing, Creating, Holds, Saving, Has, MayWrite
<1>8. StoreInv
  <2>1. \A d \in Sid : \A s \in sessionsBySid[d] : SidOf[s] = d
    OBVIOUS
  <2>2. \A s \in Session : SecretOf(s) /\ UnbornOf(s) /\ EndedOf(s) /\ ListedOf(s)
    BY <1>3, <1>7, Constants DEF SecretOf, Secret, UnbornOf, Unborn, EndedOf, ListedOf
  <2>3. \A r \in Req, s \in Session : CopyOf(r, s)
    BY <1>7 DEF CopyOf
  <2> QED BY <2>1, <2>2, <2>3 DEF StoreInv
<1>9. TokenInv
  <2> SUFFICES ASSUME NEW s \in Session
               PROVE  LockOf(s) /\ GenOf(s) /\ HeadOf(s) /\ ReuseOf(s) /\ <<"replay", s>> \notin marks
    BY DEF TokenInv
  <2>1. LockOf(s) /\ GenOf(s) /\ ReuseOf(s) /\ <<"replay", s>> \notin marks
    BY <1>7 DEF LockOf, GenOf, ReuseOf
  <2>2. HeadOf(s)
    BY <1>3, <1>7 DEF HeadOf
  <2> QED BY <2>1, <2>2
<1> QED
  BY <1>4, <1>5, <1>6, <1>8, <1>9 DEF IInv

\* Every await of a request that is being served.
LEMMA StepPreserves == ASSUME IInv, NEW r \in Req, Step(r) PROVE IInv'
<1>1. CASE SetRecord(r) \/ AddToSid(r) \/ DeleteRecord(r) \/ RemoveFromSid(r) \/ DeleteSid(r)
  BY <1>1, SetRecordStep, AddToSidStep, DeleteRecordStep, RemoveFromSidStep, DeleteSidStep
<1>2. CASE LoadSession(r) \/ DropIdle(r) \/ TouchGet(r) \/ TouchSet(r)
  BY <1>2, LoadSessionStep, DropIdleStep, TouchGetStep, TouchSetStep
<1>3. CASE DiscoveryFails(r) \/ SetPreAuth(r) \/ TakePreAuth(r) \/ ExchangeCode(r)
  BY <1>3, DiscoveryFailsStep, SetPreAuthStep, TakePreAuthStep, ExchangeCodeStep
<1>4. CASE VerifyIdToken(r) \/ LoadExisting(r) \/ DropExisting(r) \/ Created(r)
  BY <1>4, VerifyIdTokenStep, LoadExistingStep, DropExistingStep, CreatedStep
<1>5. CASE \/ RevokeAndDestroy(r) \/ CsrfMismatch(r) \/ DropLogout(r)
           \/ SidMembers(r) \/ DropSid(r) \/ Respond(r)
  BY <1>5, RevokeAndDestroyStep, CsrfMismatchStep, DropLogoutStep, SidMembersStep, DropSidStep,
     RespondStep
<1>6. CASE EnsureFresh(r) \/ Reload(r) \/ DropReload(r) \/ Refresh(r) \/ Save(r)
  BY <1>6, EnsureFreshStep, ReloadStep, DropReloadStep, RefreshStep, SaveStep
<1>7. CASE DropRejected(r) \/ Unlock(r) \/ Wait(r) \/ DropWait(r) \/ Fetch(r)
  BY <1>7, DropRejectedStep, UnlockStep, WaitStep, DropWaitStep, FetchStep
<1> QED
  BY <1>1, <1>2, <1>3, <1>4, <1>5, <1>6, <1>7 DEF Step

LEMMA NextPreserves == ASSUME IInv, [Next]_vars PROVE IInv'
<1>1. CASE \E r \in Req : BeginLogin(r) \/ Callback(r) \/ ApiCall(r) \/ Logout(r) \/ Backchannel(r)
  BY <1>1, BeginLoginStep, CallbackStep, ApiCallStep, LogoutStep, BackchannelStep
<1>2. CASE \E r \in Req : Step(r) \/ Abort(r)
  BY <1>2, StepPreserves, AbortStep
<1>3. CASE \E s \in Session : Age(s) \/ TokenDue(s) \/ LockExpires(s) \/ PreAuthExpires(s)
  BY <1>3, AgeStep, TokenDueStep, LockExpiresStep, PreAuthExpiresStep
<1>4. CASE UNCHANGED vars
  BY <1>4, StutterStep
<1> QED
  BY <1>1, <1>2, <1>3, <1>4 DEF Next

\* The invariant is inductive, for any number of requests and sessions: whatever overlaps in
\* the web server, whichever request breaks off between two of its commands, and whether or
\* not a lock outlives its ten seconds.
THEOREM Invariance == Spec => []IInv
<1>1. Init => IInv
  BY InitIInv
<1>2. IInv /\ [Next]_vars => IInv'
  BY NextPreserves
<1> QED
  BY <1>1, <1>2, PTL DEF Spec

\* What writes the records of the store.
LEMMA WhoWrites ==
  ASSUME Next
  PROVE  \/ \E r \in Req : SetRecord(r) \/ DeleteRecord(r) \/ TouchSet(r) \/ Save(r)
         \/ \E s \in Session : Age(s)
         \/ sessions' = sessions
<1>1. ASSUME NEW r \in Req, BeginLogin(r) \/ Callback(r) \/ ApiCall(r) \/ Logout(r) \/ Backchannel(r)
      PROVE  sessions' = sessions
  BY <1>1 DEF BeginLogin, Callback, ApiCall, Logout, Backchannel, Arrive
<1>2. ASSUME NEW r \in Req, Abort(r) PROVE sessions' = sessions
  BY <1>2 DEF Abort
<1>3. ASSUME NEW r \in Req, AddToSid(r) \/ RemoveFromSid(r) \/ DeleteSid(r) \/ LoadSession(r) \/ DropIdle(r)
      PROVE  sessions' = sessions
  BY <1>3 DEF AddToSid, RemoveFromSid, DeleteSid, LoadSession, DropIdle
<1>4. ASSUME NEW r \in Req, TouchGet(r) \/ DiscoveryFails(r) \/ SetPreAuth(r) \/ TakePreAuth(r) \/ ExchangeCode(r)
      PROVE  sessions' = sessions
  BY <1>4 DEF TouchGet, DiscoveryFails, SetPreAuth, TakePreAuth, ExchangeCode
<1>5. ASSUME NEW r \in Req, VerifyIdToken(r) \/ LoadExisting(r) \/ DropExisting(r) \/ Created(r)
      PROVE  sessions' = sessions
  BY <1>5 DEF VerifyIdToken, LoadExisting, DropExisting, Created
<1>6. ASSUME NEW r \in Req, \/ RevokeAndDestroy(r) \/ CsrfMismatch(r) \/ DropLogout(r)
                           \/ SidMembers(r) \/ DropSid(r) \/ Respond(r)
      PROVE  sessions' = sessions
  BY <1>6 DEF RevokeAndDestroy, CsrfMismatch, DropLogout, SidMembers, DropSid, Respond
<1>7. ASSUME NEW r \in Req, EnsureFresh(r) \/ Reload(r) \/ DropReload(r) \/ Refresh(r)
      PROVE  sessions' = sessions
  BY <1>7 DEF EnsureFresh, Reload, DropReload, Refresh
<1>8. ASSUME NEW r \in Req, DropRejected(r) \/ Unlock(r) \/ Wait(r) \/ DropWait(r) \/ Fetch(r)
      PROVE  sessions' = sessions
  BY <1>8 DEF DropRejected, Unlock, Wait, DropWait, Fetch
<1>9. ASSUME NEW s \in Session, TokenDue(s) \/ LockExpires(s) \/ PreAuthExpires(s)
      PROVE  sessions' = sessions
  BY <1>9 DEF TokenDue, LockExpires, PreAuthExpires
<1>10. ASSUME NEW r \in Req, Step(r)
       PROVE  SetRecord(r) \/ DeleteRecord(r) \/ TouchSet(r) \/ Save(r) \/ sessions' = sessions
  BY <1>3, <1>4, <1>5, <1>6, <1>7, <1>8, <1>10 DEF Step
<1> QED
  BY <1>1, <1>2, <1>9, <1>10 DEF Next

\* What a mark says: k happened to s.
LEMMA MarkedIs ==
  ASSUME TypeOK, NEW s \in Session, NEW k
  PROVE  k \in Marked(s) <=> <<k, s>> \in marks
<1>1. marks \subseteq {"lapse", "lost", "overlap", "revived", "reuse", "replay"} \X Session
  BY DEF TypeOK
<1>2. ASSUME k \in Marked(s) PROVE <<k, s>> \in marks
  <2>1. PICK m \in {n \in marks : n[2] = s} : k = m[1]
    BY <1>2 DEF Marked
  <2> QED BY <1>1, <2>1
<1>3. ASSUME <<k, s>> \in marks PROVE k \in Marked(s)
  <2>1. <<k, s>> \in {n \in marks : n[2] = s}
    BY <1>3
  <2>2. <<k, s>>[1] \in {m[1] : m \in {n \in marks : n[2] = s}}
    BY <2>1
  <2> QED BY <2>2 DEF Marked
<1> QED
  BY <1>2, <1>3

\* The stores and the requests keep their types.
THEOREM TypeCorrect == Spec => []TypeOK
<1>1. IInv => TypeOK
  BY DEF IInv
<1> QED
  BY <1>1, Invariance, PTL

\* A session that was logged out, rejected, too idle or replaced stays gone, unless a request
\* still had a copy to write back when its record was deleted (touchSession and
\* ensureFreshAccessToken save whether or not the record is still there).
THEOREM EndingIsFinal == Spec => []EndedIsFinal
<1>1. IInv => EndedIsFinal
  <2> SUFFICES ASSUME IInv, NEW s \in ended, "revived" \notin Marked(s) PROVE sessions[s] = Absent
    BY DEF EndedIsFinal
  <2>1. s \in Session /\ TypeOK
    BY DEF IInv, TypeOK
  <2>2. EndedOf(s) /\ <<"revived", s>> \notin marks
    BY <2>1, MarkedIs DEF IInv, StoreInv
  <2> QED BY <2>2 DEF EndedOf, Gone, Revived, Stored
<1> QED
  BY <1>1, Invariance, PTL

\* A stored session nobody is creating or destroying is listed under its sid, where a
\* back-channel logout looks for it (session-store: createSession, destroySession).
THEOREM StoredIsListed == Spec => []ListedWhileStored
<1>1. IInv => ListedWhileStored
  <2>1. ASSUME IInv, NEW s \in Session, sessions[s] # Absent, "revived" \notin Marked(s),
               \A r \in Req : \A o \in call[r].ops : o[2] # s
        PROVE  s \in sessionsBySid[SidOf[s]]
    <3>1. Stored(s) /\ ~Revived(s)
      BY <2>1, MarkedIs DEF Stored, Revived, IInv
    <3>2. \A r \in Req : \A k : <<k, s>> \notin call[r].ops
      <4> SUFFICES ASSUME NEW r \in Req, NEW k, <<k, s>> \in call[r].ops PROVE FALSE
        OBVIOUS
      <4>1. <<k, s>>[2] # s
        BY <2>1
      <4> QED BY <4>1
    <3>3. ~Adding(s) /\ ~Deleting(s)
      BY <3>2 DEF Adding, Deleting, Has
    <3> QED BY <2>1, <3>1, <3>3 DEF IInv, StoreInv, ListedOf, Listed
  <2> QED BY <2>1 DEF ListedWhileStored, IInv
<1> QED
  BY <1>1, Invariance, PTL

\* A refresh token is sent twice only after a lapsed lock, a lost answer, a touch that
\* overlapped a refresh or a revived session: never because of how requests overlap alone
\* (the refresh lock and the second read under it, ensureFreshAccessToken).
THEOREM ReuseTakesFault == Spec => []ReuseNeedsFault
<1>1. IInv => ReuseNeedsFault
  <2> SUFFICES ASSUME IInv, NEW s \in Session, "reuse" \in Marked(s)
               PROVE  Marked(s) \cap {"lapse", "lost", "overlap", "revived"} # {}
    BY DEF ReuseNeedsFault
  <2>1. \A k : k \in Marked(s) <=> <<k, s>> \in marks
    BY MarkedIs DEF IInv
  <2>2. ~Clean(s)
    BY <2>1 DEF IInv, TokenInv, ReuseOf
  <2>3. PICK k \in {"lapse", "lost", "overlap", "revived"} : <<k, s>> \in marks
    BY <2>2 DEF Clean, Steady
  <2> QED BY <2>1, <2>3
<1> QED
  BY <1>1, Invariance, PTL

\* However often a callback is sent, its code is redeemed once: the pre-auth record is taken
\* out in one command (takePreAuth).
THEOREM CodeIsSentOnce == Spec => []CodeSentOnce
<1>1. IInv => CodeSentOnce
  <2> SUFFICES ASSUME IInv, NEW s \in Session PROVE "replay" \notin Marked(s)
    BY DEF CodeSentOnce
  <2> QED BY MarkedIs DEF IInv, TokenInv
<1> QED
  BY <1>1, Invariance, PTL

\* A stored session never goes back to older tokens, unless a lock lapsed, a touch overlapped
\* a refresh or the session was revived (touchSession writes what it read).
THEOREM TokensMoveForward == Spec => TokensNeverRollBack
<1>1. IInv /\ [Next]_vars =>
        [\A s \in Session :
           /\ sessions[s] # Absent /\ sessions'[s] # Absent
           /\ sessions'[s].gen < sessions[s].gen
           => Marked(s) \cap {"lapse", "overlap", "revived"} # {}]_vars
  <2> SUFFICES ASSUME IInv, Next, NEW s \in Session, sessions[s] # Absent, sessions'[s] # Absent,
                      Steady(s)
               PROVE  ~(sessions'[s].gen < sessions[s].gen)
    <3>1. ASSUME IInv, NEW s \in Session, ~Steady(s)
          PROVE  Marked(s) \cap {"lapse", "overlap", "revived"} # {}
      <4>1. PICK k \in {"lapse", "overlap", "revived"} : <<k, s>> \in marks
        BY <3>1 DEF Steady
      <4>2. k \in Marked(s)
        BY <3>1, <4>1, MarkedIs DEF IInv
      <4> QED BY <4>2
    <3> QED BY <3>1
  <2>1. Stored(s) /\ sessions \in [Session -> Records \cup {Absent}]
    BY DEF Stored, IInv, TypeOK
  <2>2. sessions[s].gen \in Nat
    BY <2>1 DEF Stored, Records, Gens
  <2>3. CASE \E r \in Req : SetRecord(r)
    <3>1. PICK r \in Req, t \in Session :
             /\ <<"set", t>> \in call[r].ops
             /\ sessions' = [sessions EXCEPT ![t] = [gen |-> 0, age |-> "fresh"]]
      BY <2>3 DEF SetRecord
    <3>2. ~Stored(t)
      BY <3>1 DEF IInv, StoreInv, CopyOf, Has
    <3> QED BY <2>1, <2>2, <3>1, <3>2
  <2>4. CASE \E r \in Req : DeleteRecord(r)
    <3>1. PICK t \in Session : sessions' = [sessions EXCEPT ![t] = Absent]
      BY <2>4 DEF DeleteRecord
    <3> QED BY <2>1, <2>2, <3>1
  <2>5. CASE \E r \in Req : TouchSet(r) \/ Save(r)
    <3>1. PICK r \in Req :
             /\ call[r].pc \in {"touchSet", "save"}
             /\ sessions' = [sessions EXCEPT ![call[r].id] = [gen |-> call[r].gen, age |-> "fresh"]]
      BY <2>5 DEF TouchSet, Save, SaveSession
    <3>2. CASE call[r].id = s
      <4>1. call[r].gen \in {sessions[s].gen, sessions[s].gen + 1}
        BY <2>1, <3>1, <3>2 DEF IInv, TokenInv, GenOf
      <4>2. sessions'[s].gen = call[r].gen
        BY <2>1, <3>1, <3>2
      <4> QED BY <2>2, <4>1, <4>2
    <3> QED BY <2>1, <2>2, <3>1, <3>2
  <2>6. CASE \E t \in Session : Age(t)
    <3>1. PICK t \in Session : \E age : sessions' = [sessions EXCEPT ![t].age = age]
      BY <2>6 DEF Age
    <3>2. PICK age : sessions' = [sessions EXCEPT ![t].age = age]
      BY <3>1
    <3>3. sessions'[s].gen = sessions[s].gen
      BY <2>1, <3>2 DEF Stored, Records
    <3> QED BY <2>2, <3>3
  <2>7. CASE sessions' = sessions
    BY <2>2, <2>7
  <2> QED
    BY <2>3, <2>4, <2>5, <2>6, <2>7, WhoWrites
<1> QED
  BY <1>1, Invariance, PTL DEF Spec, TokensNeverRollBack

=============================================================================
