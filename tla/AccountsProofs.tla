--------------------------- MODULE AccountsProofs ---------------------------
(***************************************************************************)
(* The safety properties of Accounts, for any number of requests, people,  *)
(* addresses, rows, logins, attempts and secrets, and for every start.     *)
(***************************************************************************)
EXTENDS Accounts, TLAPS

-----------------------------------------------------------------------------
(* The inductive invariant: requests *)

\* Who has read the record of its login, and who has proved the second factor.
Held     == {"respond", "bump", "dropFailed", "dropDone", "associate", "saveSetup", "verify", "enable"}
Lookup   == {"bySub", "byEmail", "link"}
Settled  == {"recordMethod", "createSession"}
Answers  == {"consume", "resume"}

\* What kind of request gets to a point, and what it has in its hands there.
Placed(c) ==
    /\ c.kind \in {"challenge", "begin", "setup"} <=> c.mid \in Pending
    /\ c.pc = "idle" => c.mid \notin Pending
    /\ c.pc = "storeRequest" => c.rid \in Rid /\ c.kind = "authorize"
    /\ c.pc \in {"loadRequest", "authenticate", "storePending"} => c.kind = "login"
    /\ c.pc \in {"csrf", "loadRequest", "authenticate"} /\ c.kind = "login" => c.sub \in Person
    /\ c.pc = "csrf" => c.kind \in {"login", "challenge", "setup"}
    /\ c.pc = "load" => c.kind \in {"challenge", "begin", "setup"}
    /\ c.pc \in {"respond", "bump"} => c.kind = "challenge"
    /\ c.pc \in {"associate", "saveSetup"} => c.kind = "begin"
    /\ c.pc \in {"verify", "enable"} => c.kind = "setup"
    /\ c.pc \in {"dropFailed", "dropDone"} \cup Lookup \cup Settled \cup Answers =>
           c.kind \in {"challenge", "setup"}
    /\ c.pc = "create" => c.kind \in {"challenge", "setup", "invite"}
    /\ c.pc \in {"findInvited", "upsert"} => c.kind = "invite"
    /\ c.pc \in {"findUser", "remove"} => c.kind = "revoke"
    /\ c.pc = "contract" => c.kind \in {"invite", "revoke"}
    /\ c.pc \in Held \cup {"storePending"} => c.pending \in MfaPending /\ c.pending.attempts < MaxAttempts
    /\ c.pc = "storePending" => c.pending.attempts = 0
    /\ c.pc \in Lookup => c.sub \in Person
    /\ c.pc = "create" /\ c.kind # "invite" => c.sub \in Person
    /\ c.kind = "invite" => c.sub = NoSub
    /\ c.pc \in {"link", "upsert"} \cup Settled \/ c.kind = "revoke" => c.user \in UserId
    /\ c.pc \in Answers => c.rid \in Rid

\* The request is about the login its form names, and about that login's account.
Same(a, b) == a.kind = b.kind /\ a.person = b.person
Fits(c)    == c.kind = "challenge" <=> logins[c.mid].kind = "totp_challenge"

Grounded(c) ==
    /\ c.mid \in Pending => logins[c.mid] # Absent
    /\ c.pc \in Held => Same(c.pending, logins[c.mid]) /\ Fits(c)
    /\ c.mid \in Pending /\ c.pc \in {"dropDone", "create"} \cup Lookup \cup Settled \cup Answers =>
           c.mid \in proved /\ Fits(c)
    /\ c.mid \in Pending /\ c.pc \in Lookup \cup {"create"} => c.sub = logins[c.mid].person
    /\ c.pc = "link" => users[c.user] # Absent
    /\ c.pc \in Settled => users[c.user] # Absent /\ users[c.user].sub = logins[c.mid].person
    /\ c.pc = "createSession" => c.user \in mfaMethods

CallsInv == \A r \in Req : Placed(call[r]) /\ Grounded(call[r])

-----------------------------------------------------------------------------
(* Logins *)

For(r, p) == call[r].mid = p

\* The record of a login is about it, and still has an attempt left.
RecordOf(p) ==
    /\ logins[p] = Absent => /\ mfaPending[p] = Absent /\ guesses[p] = 0 /\ sessions[p] = <<>>
                             /\ p \notin challenges
    /\ mfaPending[p] # Absent => /\ Same(mfaPending[p], logins[p])
                                 /\ mfaPending[p].attempts < MaxAttempts

\* Undisturbed, a login has one request at a time, and the record, or the copy about
\* to be written, counts the wrong codes.
Writes(c) == c.pc \in {"respond", "bump", "associate", "saveSetup"}
Counted(p) == mfaPending[p] # Absent => mfaPending[p].attempts = guesses[p]
CountOf(p) == p \notin disturbed =>
    /\ \A q, r \in Req : q # r => ~(For(q, p) /\ For(r, p))
    /\ guesses[p] <= MaxAttempts
    /\ (\A r \in Req : For(r, p) => call[r].pc \notin {"bump", "dropFailed"}) => Counted(p)
    /\ \A r \in Req : For(r, p) /\ Writes(call[r]) => call[r].pending.attempts = guesses[p]

\* A request that has proved its login and has no session yet.
Settles(c) == c.pc \in {"dropDone", "create"} \cup Lookup \cup Settled

\* A challenge that is open has come to nothing; one that was answered, to one session
\* or to one request on its way to it.
ChallengeOf(p) == logins[p] # Absent /\ logins[p].kind = "totp_challenge" =>
    /\ Len(sessions[p]) <= 1
    /\ p \in challenges => sessions[p] = <<>> /\ \A r \in Req : ~(For(r, p) /\ Settles(call[r]))
    /\ \A r \in Req : For(r, p) /\ Settles(call[r]) =>
           /\ sessions[p] = <<>>
           /\ \A q \in Req \ {r} : ~(For(q, p) /\ Settles(call[q]))

\* An undisturbed enrolment: its record is gone when the user is looked up.
EnrolmentOf(p) == logins[p] # Absent /\ logins[p].kind = "totp_setup" /\ p \notin disturbed =>
    /\ Len(sessions[p]) <= 1
    /\ sessions[p] # <<>> =>
           /\ mfaPending[p] = Absent
           /\ \A r \in Req : For(r, p) => call[r].pc \in {"csrf", "load"} \cup Answers
    /\ \A r \in Req : For(r, p) /\ Settles(call[r]) /\ call[r].pc # "dropDone" => mfaPending[p] = Absent

\* A session belongs to the account that logged in.
EarnedOf(p) == \A i \in DOMAIN sessions[p] :
    /\ p \in proved /\ sessions[p][i] \in mfaMethods
    /\ users[sessions[p][i]] # Absent /\ users[sessions[p][i]].sub = logins[p].person

LoginOf(p) == RecordOf(p) /\ CountOf(p) /\ ChallengeOf(p) /\ EnrolmentOf(p) /\ EarnedOf(p)
LoginsInv  == \A p \in Pending : LoginOf(p)

-----------------------------------------------------------------------------
(* Rows and authorization requests *)

Present(u) == users[u] # Absent
Mailbox(u) == Lower[users[u].email]

\* One row per account and, unless two insertions raced, per mailbox; who is about to
\* insert one has found none.
RowsInv ==
    /\ \A u, v \in UserId : u # v /\ Present(u) /\ Present(v) =>
           /\ Mailbox(u) = Mailbox(v) => Mailbox(u) \in raced
           /\ users[u].sub # users[v].sub \/ users[u].sub = NoSub
    /\ \A r \in Req : call[r].pc = "create" =>
           \A u \in UserId : Present(u) /\ Mailbox(u) = Lower[call[r].email] => Mailbox(u) \in raced

\* A request about to be stored, or taken out to be answered, is nowhere else.
Owns(c) == c.pc \in {"storeRequest", "resume"}
RequestsInv ==
    /\ AnsweredOnce
    /\ \A r \in Req : Owns(call[r]) =>
           /\ call[r].rid \notin requests /\ answered[call[r].rid] = 0
           /\ \A q \in Req \ {r} : ~(Owns(call[q]) /\ call[q].rid = call[r].rid)

IInv == TypeOK /\ CallsInv /\ LoginsInv /\ RowsInv /\ RequestsInv

-----------------------------------------------------------------------------
(* Requests and their locals *)

USE DEF tables, stores, provider, history, Go, At, Fault, Well

LEMMA Constants ==
  /\ EmailOf \in [Person -> Email] /\ Email # {}
  /\ MaxAttempts \in Nat \ {0} /\ MaxSecrets \in Nat \ {0} /\ MaxCalls \in Nat /\ MaxFaults \in Nat
  /\ NoSub \notin Person /\ NoRid \notin Rid /\ NoUser \notin UserId /\ NoLogin \notin Pending
  /\ Absent \notin Users /\ Absent \notin MfaPending
  BY AccountsAssumption

\* Setting one local of a request leaves the others alone.
LEMMA SetPc ==
  ASSUME NEW c \in Calls, NEW x \in Points, NEW d, d = [c EXCEPT !.pc = x]
  PROVE  /\ d \in Calls /\ d.pc = x
         /\ d.kind = c.kind /\ d.mid = c.mid /\ d.rid = c.rid /\ d.sub = c.sub /\ d.email = c.email
         /\ d.code = c.code /\ d.renew = c.renew /\ d.pending = c.pending /\ d.user = c.user
  BY DEF Calls

LEMMA SetKind ==
  ASSUME NEW c \in Calls, NEW x \in Kinds, NEW d, d = [c EXCEPT !.kind = x]
  PROVE  /\ d \in Calls /\ d.kind = x
         /\ d.pc = c.pc /\ d.mid = c.mid /\ d.rid = c.rid /\ d.sub = c.sub /\ d.email = c.email
         /\ d.code = c.code /\ d.renew = c.renew /\ d.pending = c.pending /\ d.user = c.user
  BY DEF Calls

LEMMA SetMid ==
  ASSUME NEW c \in Calls, NEW x \in Pending \cup {NoLogin}, NEW d, d = [c EXCEPT !.mid = x]
  PROVE  /\ d \in Calls /\ d.mid = x
         /\ d.pc = c.pc /\ d.kind = c.kind /\ d.rid = c.rid /\ d.sub = c.sub /\ d.email = c.email
         /\ d.code = c.code /\ d.renew = c.renew /\ d.pending = c.pending /\ d.user = c.user
  BY DEF Calls

LEMMA SetRid ==
  ASSUME NEW c \in Calls, NEW x \in Rid \cup {NoRid}, NEW d, d = [c EXCEPT !.rid = x]
  PROVE  /\ d \in Calls /\ d.rid = x
         /\ d.pc = c.pc /\ d.kind = c.kind /\ d.mid = c.mid /\ d.sub = c.sub /\ d.email = c.email
         /\ d.code = c.code /\ d.renew = c.renew /\ d.pending = c.pending /\ d.user = c.user
  BY DEF Calls

LEMMA SetSub ==
  ASSUME NEW c \in Calls, NEW x \in Subs, NEW d, d = [c EXCEPT !.sub = x]
  PROVE  /\ d \in Calls /\ d.sub = x
         /\ d.pc = c.pc /\ d.kind = c.kind /\ d.mid = c.mid /\ d.rid = c.rid /\ d.email = c.email
         /\ d.code = c.code /\ d.renew = c.renew /\ d.pending = c.pending /\ d.user = c.user
  BY DEF Calls

LEMMA SetEmail ==
  ASSUME NEW c \in Calls, NEW x \in Email, NEW d, d = [c EXCEPT !.email = x]
  PROVE  /\ d \in Calls /\ d.email = x
         /\ d.pc = c.pc /\ d.kind = c.kind /\ d.mid = c.mid /\ d.rid = c.rid /\ d.sub = c.sub
         /\ d.code = c.code /\ d.renew = c.renew /\ d.pending = c.pending /\ d.user = c.user
  BY DEF Calls

LEMMA SetCode ==
  ASSUME NEW c \in Calls, NEW x \in Secrets, NEW d, d = [c EXCEPT !.code = x]
  PROVE  /\ d \in Calls /\ d.code = x
         /\ d.pc = c.pc /\ d.kind = c.kind /\ d.mid = c.mid /\ d.rid = c.rid /\ d.sub = c.sub
         /\ d.email = c.email /\ d.renew = c.renew /\ d.pending = c.pending /\ d.user = c.user
  BY DEF Calls

LEMMA SetRenew ==
  ASSUME NEW c \in Calls, NEW x \in BOOLEAN, NEW d, d = [c EXCEPT !.renew = x]
  PROVE  /\ d \in Calls /\ d.renew = x
         /\ d.pc = c.pc /\ d.kind = c.kind /\ d.mid = c.mid /\ d.rid = c.rid /\ d.sub = c.sub
         /\ d.email = c.email /\ d.code = c.code /\ d.pending = c.pending /\ d.user = c.user
  BY DEF Calls

LEMMA SetPending ==
  ASSUME NEW c \in Calls, NEW x \in MfaPending \cup {Absent}, NEW d, d = [c EXCEPT !.pending = x]
  PROVE  /\ d \in Calls /\ d.pending = x
         /\ d.pc = c.pc /\ d.kind = c.kind /\ d.mid = c.mid /\ d.rid = c.rid /\ d.sub = c.sub
         /\ d.email = c.email /\ d.code = c.code /\ d.renew = c.renew /\ d.user = c.user
  BY DEF Calls

LEMMA SetUser ==
  ASSUME NEW c \in Calls, NEW x \in UserId \cup {NoUser}, NEW d, d = [c EXCEPT !.user = x]
  PROVE  /\ d \in Calls /\ d.user = x
         /\ d.pc = c.pc /\ d.kind = c.kind /\ d.mid = c.mid /\ d.rid = c.rid /\ d.sub = c.sub
         /\ d.email = c.email /\ d.code = c.code /\ d.renew = c.renew /\ d.pending = c.pending
  BY DEF Calls

LEMMA IdleFacts ==
  /\ Idle \in Calls /\ Idle.pc = "idle" /\ Idle.kind = "none" /\ Idle.mid = NoLogin /\ Idle.rid = NoRid
  /\ Idle.sub = NoSub /\ Idle.code = 0 /\ Idle.renew = FALSE /\ Idle.pending = Absent /\ Idle.user = NoUser
<1>1. (CHOOSE e \in Email : TRUE) \in Email
  BY Constants
<1>2. 0 \in Secrets
  BY Constants DEF Secrets
<1> QED
  BY <1>1, <1>2 DEF Idle, Calls, Points, Kinds, Subs

LEMMA IdleIsPlaced == Placed(Idle) /\ Grounded(Idle)
<1>1. Placed(Idle)
  BY IdleFacts, Constants DEF Placed, Held, Lookup, Settled, Answers
<1>2. Grounded(Idle)
  BY IdleFacts, Constants DEF Grounded, Held, Lookup, Settled, Answers
<1> QED
  BY <1>1, <1>2

-----------------------------------------------------------------------------
(* What a step does to each part of the invariant *)

Moves(r, c) == call' = [call EXCEPT ![r] = c]

\* Rows, logins, proofs and recorded methods are never taken back.
Grows ==
  /\ \A p \in Pending : logins[p] # Absent => logins'[p] = logins[p]
  /\ proved \subseteq proved' /\ mfaMethods \subseteq mfaMethods'
  /\ \A u \in UserId : Present(u) => Present(u)' /\ (users[u].sub # NoSub => users'[u].sub = users[u].sub)

LEMMA GroundedKept ==
  ASSUME TypeOK, Grows, NEW c \in Calls, Placed(c), Grounded(c)
  PROVE  Grounded(c)'
<1> USE DEF Held, Lookup, Settled, Answers
<1>1. c.mid \in Pending => logins[c.mid] # Absent /\ logins'[c.mid] = logins[c.mid]
  BY DEF Grounded, Grows
<1>2. c.pc \in Held \cup {"create"} \cup Lookup \cup Settled \cup Answers =>
          c.mid \in Pending \/ c.kind = "invite"
  BY DEF Placed
<1>3. logins \in [Pending -> MfaPending \cup {Absent}] /\ \A x \in MfaPending : x.person \in Person
  BY DEF TypeOK, MfaPending
<1>4. c.pc \in Held => Same(c.pending, logins[c.mid])' /\ Fits(c)'
  <2>1. c.pc \in Held => c.mid \in Pending
    BY DEF Placed
  <2> QED BY <1>1, <2>1 DEF Grounded, Same, Fits
<1>5. c.mid \in Pending /\ c.pc \in {"dropDone", "create"} \cup Lookup \cup Settled \cup Answers =>
           c.mid \in proved' /\ Fits(c)'
  BY <1>1 DEF Grounded, Grows, Fits
<1>6. c.mid \in Pending /\ c.pc \in Lookup \cup {"create"} => c.sub = logins'[c.mid].person
  BY <1>1 DEF Grounded
<1>7. (c.pc = "link" => users'[c.user] # Absent) /\ (c.pc = "createSession" => c.user \in mfaMethods')
  BY DEF Grounded, Grows, Placed, Present
<1>8. c.pc \in Settled => users'[c.user] # Absent /\ users'[c.user].sub = logins'[c.mid].person
  <2> SUFFICES ASSUME c.pc \in Settled PROVE users'[c.user] # Absent /\ users'[c.user].sub = logins'[c.mid].person
    OBVIOUS
  <2>1. c.user \in UserId /\ c.mid \in Pending
    BY DEF Placed
  <2>2. users[c.user] # Absent /\ users[c.user].sub = logins[c.mid].person /\ logins[c.mid] \in MfaPending
    BY <1>1, <1>3, <2>1 DEF Grounded
  <2>3. users[c.user].sub # NoSub
    BY <1>3, <2>2, Constants
  <2> QED BY <1>1, <2>1, <2>2, <2>3 DEF Grows, Present
<1> QED
  BY <1>1, <1>4, <1>5, <1>6, <1>7, <1>8 DEF Grounded

LEMMA CallsKept ==
  ASSUME TypeOK, CallsInv, Grows, NEW r \in Req, NEW c \in Calls, Placed(c), Grounded(c)', Moves(r, c)
  PROVE  CallsInv' /\ call' \in [Req -> Calls] /\ call'[r] = c /\ \A q \in Req \ {r} : call'[q] = call[q]
<1>1. call \in [Req -> Calls]
  BY DEF TypeOK
<1>2. call' \in [Req -> Calls] /\ call'[r] = c /\ \A q \in Req \ {r} : call'[q] = call[q]
  BY <1>1 DEF Moves
<1>3. \A q \in Req : Placed(call[q])' /\ Grounded(call[q])'
  <2> SUFFICES ASSUME NEW q \in Req PROVE Placed(call[q])' /\ Grounded(call[q])'
    OBVIOUS
  <2>1. CASE q = r
    BY <1>2, <2>1
  <2>2. CASE q # r
    <3>1. PICK d : d = call[q] /\ d \in Calls /\ Placed(d) /\ Grounded(d)
      BY <1>1 DEF CallsInv
    <3>2. Grounded(d)'
      BY <3>1, GroundedKept
    <3> QED BY <1>2, <2>2, <3>1, <3>2
  <2> QED BY <2>1, <2>2
<1> QED
  BY <1>2, <1>3 DEF CallsInv


-----------------------------------------------------------------------------
(* What a step of r, which goes on as c, does to login p *)

\* A request comes in for p, which is disturbed when another is at it.
Joins(c, p) == ~Settles(c) /\ (p \in disturbed' \/ \A q \in Req : ~For(q, p))

\* It is no news for p: r was about p before, or comes in, gets no further without cause,
\* and takes along the count it has read.
Tame(r, c, p) ==
    /\ c.mid = p => For(r, p) \/ Joins(c, p)
    /\ c.mid = p /\ Settles(c) => For(r, p) /\ (Settles(call[r]) \/ logins[p].kind = "totp_setup")
    /\ c.mid = p /\ Settles(c) /\ c.pc # "dropDone" =>
           \/ Settles(call[r]) /\ call[r].pc # "dropDone"
           \/ mfaPending'[p] = Absent
    /\ p \notin disturbed' =>
         /\ c.mid = p /\ Writes(c) => c.pending.attempts = guesses[p]
         /\ For(r, p) /\ call[r].pc \in {"bump", "dropFailed"} =>
                (c.mid = p /\ c.pc \in {"bump", "dropFailed"}) \/ Counted(p)'
         /\ c.mid = p /\ logins[p].kind = "totp_setup" /\ sessions[p] # <<>> =>
                c.pc \in {"csrf", "load"} \cup Answers

\* The record of p is as it was, only older, or gone.
RecordKept(p) == mfaPending'[p] # Absent =>
    /\ mfaPending[p] # Absent /\ Same(mfaPending'[p], mfaPending[p])
    /\ mfaPending'[p].attempts = mfaPending[p].attempts

LoginKept(p) ==
    /\ logins'[p] = logins[p] /\ sessions'[p] = sessions[p] /\ guesses'[p] = guesses[p]
    /\ p \in challenges' => p \in challenges
    /\ p \in disturbed => p \in disturbed'
    /\ RecordKept(p)

LEMMA EarnedKept ==
  ASSUME TypeOK, Grows, NEW p \in Pending, RecordOf(p), EarnedOf(p),
         logins'[p] = logins[p], sessions'[p] = sessions[p]
  PROVE  EarnedOf(p)'
<1> SUFFICES ASSUME NEW i \in DOMAIN sessions[p]
             PROVE  /\ p \in proved' /\ sessions[p][i] \in mfaMethods'
                    /\ users'[sessions[p][i]] # Absent /\ users'[sessions[p][i]].sub = logins'[p].person
  BY DEF EarnedOf
<1>1. sessions[p] \in Seq(UserId) /\ sessions[p] # <<>>
  BY DEF TypeOK
<1>2. sessions[p][i] \in UserId
  BY <1>1
<1>3. logins[p] # Absent /\ logins[p] \in MfaPending
  BY <1>1 DEF TypeOK, RecordOf
<1>4. logins[p].person \in Person
  BY <1>3 DEF MfaPending
<1>5. /\ p \in proved /\ sessions[p][i] \in mfaMethods
      /\ users[sessions[p][i]] # Absent /\ users[sessions[p][i]].sub = logins[p].person
  BY DEF EarnedOf
<1> QED
  BY <1>2, <1>4, <1>5, Constants DEF Grows, Present

LEMMA LoginStep ==
  ASSUME TypeOK, Grows, NEW r \in Req, NEW p \in Pending, NEW c \in Calls, Moves(r, c),
         LoginOf(p), LoginKept(p), Tame(r, c, p)
  PROVE  LoginOf(p)'
<1>1. call'[r] = c /\ \A q \in Req \ {r} : call'[q] = call[q]
  BY DEF TypeOK, Moves
<1>2. \A q \in Req \ {r} : /\ For(q, p)' <=> For(q, p)
                           /\ Settles(call[q])' <=> Settles(call[q])
                           /\ Writes(call[q])' <=> Writes(call[q])
  BY <1>1 DEF For, Settles, Writes
<1>3. /\ For(r, p)' <=> c.mid = p
      /\ Settles(call[r])' <=> Settles(c)
      /\ Writes(call[r])' <=> Writes(c)
  BY <1>1 DEF For, Settles, Writes
<1>4. RecordOf(p)'
  BY DEF LoginOf, RecordOf, LoginKept, RecordKept, Same
<1>5. CountOf(p)'
  <2> SUFFICES ASSUME p \notin disturbed' PROVE
        /\ \A q, s \in Req : q # s => ~(For(q, p)' /\ For(s, p)')
        /\ guesses'[p] <= MaxAttempts
        /\ (\A q \in Req : For(q, p)' => call'[q].pc \notin {"bump", "dropFailed"}) => Counted(p)'
        /\ \A q \in Req : For(q, p)' /\ Writes(call[q])' => call'[q].pending.attempts = guesses'[p]
    BY DEF CountOf
  <2>1. p \notin disturbed /\ guesses'[p] = guesses[p]
    BY DEF LoginKept
  <2>2. /\ \A q, s \in Req : q # s => ~(For(q, p) /\ For(s, p))
        /\ guesses[p] <= MaxAttempts
        /\ (\A q \in Req : For(q, p) => call[q].pc \notin {"bump", "dropFailed"}) => Counted(p)
        /\ \A q \in Req : For(q, p) /\ Writes(call[q]) => call[q].pending.attempts = guesses[p]
    BY <2>1 DEF LoginOf, CountOf
  <2>3. \A q, s \in Req : q # s => ~(For(q, p)' /\ For(s, p)')
    BY <1>2, <1>3, <2>2 DEF Tame, Joins
  <2>4. ASSUME \A q \in Req : For(q, p)' => call'[q].pc \notin {"bump", "dropFailed"} PROVE Counted(p)'
    <3>1. CASE For(r, p) /\ call[r].pc \in {"bump", "dropFailed"}
      BY <1>1, <1>3, <2>4, <3>1 DEF Tame
    <3>2. CASE ~(For(r, p) /\ call[r].pc \in {"bump", "dropFailed"})
      <4>1. \A q \in Req : For(q, p) => call[q].pc \notin {"bump", "dropFailed"}
        BY <1>1, <1>2, <2>4, <3>2
      <4>2. Counted(p)
        BY <2>2, <4>1
      <4> QED BY <2>1, <4>2 DEF Counted, LoginKept, RecordKept
    <3> QED BY <3>1, <3>2
  <2>5. \A q \in Req : For(q, p)' /\ Writes(call[q])' => call'[q].pending.attempts = guesses'[p]
    BY <1>1, <1>2, <1>3, <2>1, <2>2 DEF Tame
  <2> QED BY <2>1, <2>2, <2>3, <2>4, <2>5
<1>6. ChallengeOf(p)'
  <2> SUFFICES ASSUME logins'[p] # Absent, logins'[p].kind = "totp_challenge" PROVE
        /\ Len(sessions'[p]) <= 1
        /\ p \in challenges' => sessions'[p] = <<>> /\ \A q \in Req : ~(For(q, p)' /\ Settles(call[q])')
        /\ \A q \in Req : For(q, p)' /\ Settles(call[q])' =>
               /\ sessions'[p] = <<>>
               /\ \A s \in Req \ {q} : ~(For(s, p)' /\ Settles(call[s])')
    BY DEF ChallengeOf
  <2>1. /\ Len(sessions[p]) <= 1
        /\ p \in challenges => sessions[p] = <<>> /\ \A q \in Req : ~(For(q, p) /\ Settles(call[q]))
        /\ \A q \in Req : For(q, p) /\ Settles(call[q]) =>
               /\ sessions[p] = <<>>
               /\ \A s \in Req \ {q} : ~(For(s, p) /\ Settles(call[s]))
    BY DEF LoginOf, ChallengeOf, LoginKept
  <2>2. \A q \in Req : For(q, p)' /\ Settles(call[q])' => For(q, p) /\ Settles(call[q])
    BY <1>2, <1>3 DEF Tame, Joins, LoginKept
  <2>3. sessions'[p] = sessions[p] /\ (p \in challenges' => p \in challenges)
    BY DEF LoginKept
  <2> QED BY <2>1, <2>2, <2>3
<1>7. EnrolmentOf(p)'
  <2> SUFFICES ASSUME logins'[p] # Absent, logins'[p].kind = "totp_setup", p \notin disturbed' PROVE
        /\ Len(sessions'[p]) <= 1
        /\ sessions'[p] # <<>> =>
               /\ mfaPending'[p] = Absent
               /\ \A q \in Req : For(q, p)' => call'[q].pc \in {"csrf", "load"} \cup Answers
        /\ \A q \in Req : For(q, p)' /\ Settles(call[q])' /\ call'[q].pc # "dropDone" => mfaPending'[p] = Absent
    BY DEF EnrolmentOf
  <2>1. logins[p] # Absent /\ logins[p].kind = "totp_setup" /\ p \notin disturbed /\ sessions'[p] = sessions[p]
    BY DEF LoginKept
  <2>2. /\ Len(sessions[p]) <= 1
        /\ sessions[p] # <<>> =>
               /\ mfaPending[p] = Absent
               /\ \A q \in Req : For(q, p) => call[q].pc \in {"csrf", "load"} \cup Answers
        /\ \A q \in Req : For(q, p) /\ Settles(call[q]) /\ call[q].pc # "dropDone" => mfaPending[p] = Absent
    BY <2>1 DEF LoginOf, EnrolmentOf
  <2>3. mfaPending[p] = Absent => mfaPending'[p] = Absent
    BY DEF LoginKept, RecordKept
  <2>4. sessions[p] # <<>> => \A q \in Req : For(q, p)' => call'[q].pc \in {"csrf", "load"} \cup Answers
    BY <1>1, <1>2, <1>3, <2>1, <2>2 DEF Tame
  <2>5. \A q \in Req : For(q, p)' /\ Settles(call[q])' /\ call'[q].pc # "dropDone" => mfaPending'[p] = Absent
    <3> SUFFICES ASSUME NEW q \in Req, For(q, p)', Settles(call[q])', call'[q].pc # "dropDone"
                 PROVE  mfaPending'[p] = Absent
      OBVIOUS
    <3>1. CASE q = r
      BY <1>1, <1>3, <2>2, <2>3, <3>1 DEF Tame, Joins
    <3>2. CASE q # r
      BY <1>1, <1>2, <2>2, <2>3, <3>2
    <3> QED BY <3>1, <3>2
  <2> QED BY <2>1, <2>2, <2>3, <2>4, <2>5
<1>8. EarnedOf(p)'
  BY EarnedKept DEF LoginOf, LoginKept
<1> QED
  BY <1>4, <1>5, <1>6, <1>7, <1>8 DEF LoginOf

\* A login r has nothing to do with, before or after.
LEMMA LoginAside ==
  ASSUME TypeOK, Grows, NEW r \in Req, NEW p \in Pending, NEW c \in Calls, Moves(r, c),
         LoginOf(p), LoginKept(p), ~For(r, p), c.mid # p
  PROVE  LoginOf(p)'
<1>1. Tame(r, c, p)
  BY DEF Tame
<1> QED
  BY <1>1, LoginStep

-----------------------------------------------------------------------------
(* ... to the rows and the authorization requests *)

LEMMA RowsKept ==
  ASSUME TypeOK, RowsInv, NEW r \in Req, NEW c \in Calls, Moves(r, c), users' = users, raced \subseteq raced',
         c.pc = "create" => (call[r].pc = "create" /\ c.email = call[r].email) \/ ByEmail(c.email) = {}
  PROVE  RowsInv'
<1>1. call'[r] = c /\ \A q \in Req \ {r} : call'[q] = call[q]
  BY DEF TypeOK, Moves
<1>2. \A u \in UserId : (Present(u)' <=> Present(u)) /\ Mailbox(u)' = Mailbox(u)
  BY DEF Present, Mailbox
<1>3. \A u, v \in UserId : u # v /\ Present(u)' /\ Present(v)' =>
           /\ Mailbox(u)' = Mailbox(v)' => Mailbox(u)' \in raced'
           /\ users'[u].sub # users'[v].sub \/ users'[u].sub = NoSub
  BY <1>2 DEF RowsInv
<1>4. ASSUME NEW q \in Req, call'[q].pc = "create",
             NEW u \in UserId, Present(u)', Mailbox(u)' = Lower[call'[q].email]
      PROVE  Mailbox(u)' \in raced'
  <2>1. CASE q # r
    BY <1>1, <1>2, <1>4, <2>1 DEF RowsInv
  <2>2. CASE q = r /\ call[r].pc = "create" /\ c.email = call[r].email
    BY <1>1, <1>2, <1>4, <2>2 DEF RowsInv
  <2>3. CASE q = r /\ ByEmail(c.email) = {}
    BY <1>1, <1>2, <1>4, <2>3 DEF ByEmail, Rows, Present, Mailbox
  <2> QED BY <1>1, <1>4, <2>1, <2>2, <2>3
<1> QED
  BY <1>3, <1>4 DEF RowsInv

LEMMA RequestsKept ==
  ASSUME TypeOK, RequestsInv, NEW r \in Req, NEW c \in Calls, Moves(r, c), requests' \subseteq requests,
         answered' = answered, Owns(c) => Owns(call[r]) /\ c.rid = call[r].rid
  PROVE  RequestsInv'
<1>1. call'[r] = c /\ \A q \in Req \ {r} : call'[q] = call[q]
  BY DEF TypeOK, Moves
<1>2. AnsweredOnce'
  BY DEF RequestsInv, AnsweredOnce
<1>3. \A q \in Req : Owns(call[q])' => Owns(call[q]) /\ call'[q].rid = call[q].rid
  BY <1>1 DEF Owns
<1>4. ASSUME NEW q \in Req, Owns(call[q])'
      PROVE  /\ call'[q].rid \notin requests' /\ answered'[call'[q].rid] = 0
             /\ \A s \in Req \ {q} : ~(Owns(call[s])' /\ call'[s].rid = call'[q].rid)
  BY <1>3, <1>4 DEF RequestsInv
<1> QED
  BY <1>2, <1>4 DEF RequestsInv

-----------------------------------------------------------------------------
(* Steps that change nothing but the request's own state *)

\* What r may become by itself, rows and authorization requests considered.
Plain(r, c) ==
    /\ c.pc = "create" => (call[r].pc = "create" /\ c.email = call[r].email) \/ ByEmail(c.email) = {}
    /\ Owns(c) => Owns(call[r]) /\ c.rid = call[r].rid

LEMMA GrowsIfUnchanged == ASSUME UNCHANGED <<users, mfaMethods, logins, proved>> PROVE Grows
  BY DEF Grows, Present

LEMMA FaultsStay == ASSUME TypeOK, Well \/ Fault PROVE faults' \in 0 .. MaxFaults
<1>1. faults \in 0 .. MaxFaults
  BY DEF TypeOK
<1> QED
  BY <1>1, Constants

LEMMA LocalStep ==
  ASSUME IInv, NEW r \in Req, NEW c \in Calls, Placed(c), Grounded(c), Moves(r, c), left' = left,
         Well \/ Fault, UNCHANGED <<tables, stores, provider, history>>,
         call[r].pc \notin {"bump", "dropFailed"},
         c.mid \in Pending => Tame(r, c, c.mid), Plain(r, c)
  PROVE  IInv'
<1>1. Grows
  BY GrowsIfUnchanged
<1>2. Grounded(c)'
  BY <1>1, GroundedKept DEF IInv
<1>3. CallsInv' /\ call' \in [Req -> Calls]
  BY <1>1, <1>2, CallsKept DEF IInv
<1>4. TypeOK'
  BY <1>3, FaultsStay DEF IInv, TypeOK
<1>5. ASSUME NEW p \in Pending PROVE LoginOf(p)'
  <2>1. LoginKept(p)
    BY DEF LoginKept, RecordKept, Same
  <2>2. Tame(r, c, p)
    BY DEF Tame
  <2> QED BY <1>1, <2>1, <2>2, LoginStep DEF IInv, LoginsInv
<1>6. RowsInv' /\ RequestsInv'
  BY RowsKept, RequestsKept DEF IInv, Plain
<1> QED
  BY <1>3, <1>4, <1>5, <1>6 DEF IInv, LoginsInv

\* An answer, or an exception, ends a request that is not about to write.
LEMMA FinishStep ==
  ASSUME IInv, NEW r \in Req, Finish(r), Well \/ Fault, call[r].pc \notin {"bump", "dropFailed"}
  PROVE  IInv'
<1>1. Moves(r, Idle) /\ left' = left /\ UNCHANGED <<tables, stores, provider, history>>
  BY DEF Finish, Continue, Moves
<1>2. Plain(r, Idle) /\ Idle.mid \notin Pending /\ Idle \in Calls
  BY IdleFacts, Constants DEF Plain, Owns
<1> QED
  BY <1>1, <1>2, IdleIsPlaced, LocalStep

LEMMA CallFacts ==
  ASSUME IInv, NEW r \in Req
  PROVE  call[r] \in Calls /\ Placed(call[r]) /\ Grounded(call[r])
  BY DEF IInv, TypeOK, CallsInv

LEMMA CheckCsrfStep == ASSUME IInv, NEW r \in Req, CheckCsrf(r) PROVE IInv'
<1>1. PICK b : b = call[r] /\ b \in Calls /\ Placed(b) /\ Grounded(b)
  BY CallFacts
<1>2. b.pc = "csrf" /\ Well
  BY <1>1 DEF CheckCsrf
<1>3. CASE Finish(r)
  BY <1>1, <1>2, <1>3, FinishStep
<1>4. CASE Continue(r, [b EXCEPT !.pc = IF b.kind = "login" THEN "loadRequest" ELSE "load"])
  <2>1. PICK x : x = IF b.kind = "login" THEN "loadRequest" ELSE "load"
    OBVIOUS
  <2>2. PICK c : c = [b EXCEPT !.pc = x]
    OBVIOUS
  <2>3. /\ c \in Calls /\ c.pc = x /\ c.kind = b.kind /\ c.mid = b.mid /\ c.sub = b.sub /\ c.user = b.user
        /\ x \in {"loadRequest", "load"} /\ (x = "loadRequest" <=> b.kind = "login")
    BY <1>1, <2>1, <2>2, SetPc DEF Points
  <2>4. Placed(c) /\ Grounded(c)
    BY <1>1, <1>2, <2>3 DEF Placed, Grounded, Held, Lookup, Settled, Answers
  <2>5. Moves(r, c) /\ left' = left /\ UNCHANGED <<tables, stores, provider, history>>
    BY <1>4, <2>1, <2>2 DEF Continue, Moves, tables, stores, provider, history, Go
  <2>6. Plain(r, c) /\ (c.mid \in Pending => Tame(r, c, c.mid))
    <3>1. ~Settles(c) /\ ~Writes(c) /\ ~Owns(c) /\ c.pc # "create"
      BY <2>3 DEF Settles, Writes, Owns, Lookup, Settled
    <3>2. For(r, c.mid) /\ call[r].pc = "csrf" /\ (c.mid \in Pending => c.pc = "load")
      BY <1>1, <1>2, <2>3 DEF For, Placed
    <3> QED BY <3>1, <3>2 DEF Plain, Tame
  <2> QED BY <1>1, <1>2, <2>3, <2>4, <2>5, <2>6, LocalStep
<1> QED
  BY <1>1, <1>3, <1>4 DEF CheckCsrf

\* Requests that are about no login go on by themselves.
LEMMA FreeStep ==
  ASSUME IInv, NEW r \in Req, NEW c \in Calls, Placed(c), Grounded(c), c.mid \notin Pending, Continue(r, c),
         Well \/ Fault, call[r].pc \notin {"bump", "dropFailed"}, Plain(r, c)
  PROVE  IInv'
<1>1. Moves(r, c) /\ left' = left /\ UNCHANGED <<tables, stores, provider, history>>
  BY DEF Continue, Moves
<1> QED
  BY <1>1, LocalStep

LEMMA LoadPendingAuthorizationStep ==
  ASSUME IInv, NEW r \in Req, LoadPendingAuthorization(r) PROVE IInv'
<1>1. PICK b : b = call[r] /\ b \in Calls /\ Placed(b) /\ Grounded(b)
  BY CallFacts
<1>2. b.pc = "loadRequest" /\ Well /\ b.mid \notin Pending /\ b.kind = "login"
  BY <1>1 DEF LoadPendingAuthorization, Placed
<1>3. PICK c : c = [b EXCEPT !.pc = "authenticate"]
  OBVIOUS
<1>4. c \in Calls /\ c.pc = "authenticate" /\ c.kind = b.kind /\ c.mid = b.mid /\ c.sub = b.sub /\ c.user = b.user
  BY <1>1, <1>3, SetPc DEF Points
<1>5. Placed(c) /\ Grounded(c) /\ Plain(r, c)
  BY <1>1, <1>2, <1>4 DEF Placed, Grounded, Held, Lookup, Settled, Answers, Plain, Owns
<1>6. Finish(r) \/ Continue(r, c)
  BY <1>1, <1>3 DEF LoadPendingAuthorization
<1> QED
  BY <1>1, <1>2, <1>4, <1>5, <1>6, FinishStep, FreeStep

LEMMA AuthenticateStep == ASSUME IInv, NEW r \in Req, Authenticate(r) PROVE IInv'
<1>1. PICK b : b = call[r] /\ b \in Calls /\ Placed(b) /\ Grounded(b)
  BY CallFacts
<1>2. b.pc = "authenticate" /\ b.mid \notin Pending /\ b.kind = "login" /\ b.sub \in Person
  BY <1>1 DEF Authenticate, Placed
<1>3. PICK o \in AuthenticateOutcomes(cognito[b.sub]) :
         /\ Proceed(o)
         /\ IF o.answer \notin {"totp_required", "authenticated"} THEN Finish(r)
            ELSE Continue(r, [b EXCEPT !.pc = "storePending", !.sub = NoSub, !.rid = NoRid,
                   !.pending = [kind |-> IF o.answer = "totp_required" THEN "totp_challenge"
                                         ELSE "totp_setup",
                                person |-> b.sub, rid |-> b.rid,
                                attempts |-> 0, secret |-> 0, aged |-> FALSE]])
  BY <1>1 DEF Authenticate
<1>4. Well \/ Fault
  BY <1>3 DEF Proceed
<1>5. PICK m : m = [kind |-> IF o.answer = "totp_required" THEN "totp_challenge" ELSE "totp_setup",
                    person |-> b.sub, rid |-> b.rid, attempts |-> 0, secret |-> 0, aged |-> FALSE]
  OBVIOUS
<1>6. m \in MfaPending /\ m.attempts = 0
  BY <1>1, <1>2, <1>5, Constants DEF MfaPending, Calls, Secrets
<1>7. PICK c1, c2, c3 : /\ c1 = [b EXCEPT !.pc = "storePending"] /\ c2 = [c1 EXCEPT !.sub = NoSub]
                        /\ c3 = [c2 EXCEPT !.rid = NoRid]
  OBVIOUS
<1>8. PICK c : c = [c3 EXCEPT !.pending = m]
  OBVIOUS
<1>9. c1 \in Calls /\ c1.pc = "storePending" /\ c1.kind = b.kind /\ c1.mid = b.mid /\ c1.user = b.user
  BY <1>1, <1>7, SetPc DEF Points
<1>10. c2 \in Calls /\ c2.pc = "storePending" /\ c2.kind = b.kind /\ c2.mid = b.mid /\ c2.user = b.user
  <2>1. NoSub \in Subs /\ c2 = [c1 EXCEPT !.sub = NoSub]
    BY <1>7 DEF Subs
  <2> QED BY <1>9, <2>1, SetSub
<1>11. c3 \in Calls /\ c3.pc = "storePending" /\ c3.kind = b.kind /\ c3.mid = b.mid /\ c3.user = b.user
  <2>1. NoRid \in Rid \cup {NoRid} /\ c3 = [c2 EXCEPT !.rid = NoRid]
    BY <1>7
  <2> QED BY <1>10, <2>1, SetRid
<1>12. c \in Calls /\ c.pc = "storePending" /\ c.kind = b.kind /\ c.mid = b.mid /\ c.pending = m
  BY <1>6, <1>8, <1>11, SetPending
<1>13. Placed(c) /\ Grounded(c) /\ Plain(r, c)
  <2>1. c.pc = "storePending" /\ c.kind = "login" /\ c.mid \notin Pending /\ c.pending \in MfaPending
        /\ c.pending.attempts = 0 /\ 0 < MaxAttempts
    BY <1>2, <1>6, <1>12, Constants
  <2> QED BY <2>1 DEF Placed, Grounded, Held, Lookup, Settled, Answers, Plain, Owns
<1>14. c = [b EXCEPT !.pc = "storePending", !.sub = NoSub, !.rid = NoRid, !.pending = m]
  BY <1>7, <1>8
<1>15. Finish(r) \/ Continue(r, c)
  BY <1>3, <1>5, <1>14
<1> QED
  BY <1>1, <1>2, <1>4, <1>12, <1>13, <1>15, FinishStep, FreeStep

LEMMA ResolveContractedTenantStep ==
  ASSUME IInv, NEW r \in Req, ResolveContractedTenant(r) PROVE IInv'
<1>1. PICK b : b = call[r] /\ b \in Calls /\ Placed(b) /\ Grounded(b)
  BY CallFacts
<1>2. b.pc = "contract" /\ Well /\ b.mid \notin Pending /\ b.kind \in {"invite", "revoke"}
  BY <1>1 DEF ResolveContractedTenant, Placed
<1>3. PICK x : x = IF b.kind = "invite" THEN "findInvited" ELSE "findUser"
  OBVIOUS
<1>4. PICK c : c = [b EXCEPT !.pc = x]
  OBVIOUS
<1>5. /\ c \in Calls /\ c.pc = x /\ c.kind = b.kind /\ c.mid = b.mid /\ c.sub = b.sub /\ c.user = b.user
      /\ x \in {"findInvited", "findUser"} /\ (x = "findInvited" <=> b.kind = "invite")
  BY <1>1, <1>3, <1>4, SetPc DEF Points
<1>6. Placed(c) /\ Grounded(c) /\ Plain(r, c)
  BY <1>1, <1>2, <1>5 DEF Placed, Grounded, Held, Lookup, Settled, Answers, Plain, Owns
<1>7. Finish(r) \/ Continue(r, c)
  BY <1>1, <1>3, <1>4 DEF ResolveContractedTenant
<1> QED
  BY <1>1, <1>2, <1>5, <1>6, <1>7, FinishStep, FreeStep

LEMMA FindInvitedStep == ASSUME IInv, NEW r \in Req, FindInvited(r) PROVE IInv'
<1>1. PICK b : b = call[r] /\ b \in Calls /\ Placed(b) /\ Grounded(b)
  BY CallFacts
<1>2. b.pc = "findInvited" /\ Well /\ b.mid \notin Pending /\ b.kind = "invite"
  BY <1>1 DEF FindInvited, Placed
<1>3. CASE ByEmail(b.email) = {}
  <2>1. PICK c : c = [b EXCEPT !.pc = "create"]
    OBVIOUS
  <2>2. c \in Calls /\ c.pc = "create" /\ c.kind = b.kind /\ c.mid = b.mid /\ c.sub = b.sub /\ c.email = b.email
    BY <1>1, <2>1, SetPc DEF Points
  <2>3. Placed(c) /\ Grounded(c) /\ Plain(r, c)
    BY <1>1, <1>2, <1>3, <2>2 DEF Placed, Grounded, Held, Lookup, Settled, Answers, Plain, Owns
  <2>4. Continue(r, c)
    BY <1>1, <1>3, <2>1 DEF FindInvited
  <2> QED BY <1>1, <1>2, <2>2, <2>3, <2>4, FreeStep
<1>4. CASE ByEmail(b.email) # {}
  <2>1. PICK u \in ByEmail(b.email) : Continue(r, [b EXCEPT !.pc = "upsert", !.user = u])
    BY <1>1, <1>4 DEF FindInvited
  <2>2. u \in UserId
    BY <2>1 DEF ByEmail, Rows
  <2>3. PICK d : d = [b EXCEPT !.pc = "upsert"]
    OBVIOUS
  <2>4. PICK c : c = [d EXCEPT !.user = u]
    OBVIOUS
  <2>5. d \in Calls /\ d.pc = "upsert" /\ d.kind = b.kind /\ d.mid = b.mid /\ d.sub = b.sub
    BY <1>1, <2>3, SetPc DEF Points
  <2>6. c \in Calls /\ c.pc = "upsert" /\ c.kind = b.kind /\ c.mid = b.mid /\ c.sub = b.sub /\ c.user = u
    BY <2>2, <2>4, <2>5, SetUser
  <2>7. Placed(c) /\ Grounded(c) /\ Plain(r, c)
    BY <1>1, <1>2, <2>2, <2>6 DEF Placed, Grounded, Held, Lookup, Settled, Answers, Plain, Owns
  <2>8. Continue(r, c)
    BY <2>1, <2>3, <2>4
  <2> QED BY <1>1, <1>2, <2>6, <2>7, <2>8, FreeStep
<1> QED
  BY <1>3, <1>4

LEMMA FindUserByIdStep == ASSUME IInv, NEW r \in Req, FindUserById(r) PROVE IInv'
<1>1. PICK b : b = call[r] /\ b \in Calls /\ Placed(b) /\ Grounded(b)
  BY CallFacts
<1>2. b.pc = "findUser" /\ Well /\ b.mid \notin Pending /\ b.kind = "revoke"
  BY <1>1 DEF FindUserById, Placed
<1>3. PICK c : c = [b EXCEPT !.pc = "remove"]
  OBVIOUS
<1>4. c \in Calls /\ c.pc = "remove" /\ c.kind = b.kind /\ c.mid = b.mid /\ c.user = b.user
  BY <1>1, <1>3, SetPc DEF Points
<1>5. Placed(c) /\ Grounded(c) /\ Plain(r, c)
  BY <1>1, <1>2, <1>4 DEF Placed, Grounded, Held, Lookup, Settled, Answers, Plain, Owns
<1>6. Finish(r) \/ Continue(r, c)
  BY <1>1, <1>3 DEF FindUserById
<1> QED
  BY <1>1, <1>2, <1>4, <1>5, <1>6, FinishStep, FreeStep

\* loadKind: the copy a request takes along counts what Cognito has seen.
LEMMA LoadKindStep == ASSUME IInv, NEW r \in Req, LoadKind(r) PROVE IInv'
<1>1. PICK b : b = call[r] /\ b \in Calls /\ Placed(b) /\ Grounded(b)
  BY CallFacts
<1>2. b.pc = "load" /\ Well /\ b.mid \in Pending /\ b.kind \in {"challenge", "begin", "setup"}
  BY <1>1 DEF LoadKind, Placed
<1>3. PICK p \in Pending : p = b.mid
  BY <1>2
<1>4. PICK rec : rec = mfaPending[p]
  OBVIOUS
<1>5. CASE Finish(r)
  BY <1>1, <1>2, <1>5, FinishStep
<1>6. CASE ~Finish(r)
  <2>1. PICK k : k = IF b.kind = "challenge" THEN "totp_challenge" ELSE "totp_setup"
    OBVIOUS
  <2>2. rec # Absent /\ rec.kind = k
    BY <1>1, <1>3, <1>4, <1>6, <2>1 DEF LoadKind
  <2>3. PICK x : x = IF b.kind = "challenge" THEN "respond" ELSE IF b.kind = "begin" THEN "associate" ELSE "verify"
    OBVIOUS
  <2>4. Continue(r, [b EXCEPT !.pc = x, !.pending = rec])
    <3>1. CASE b.kind = "challenge"
      BY <1>1, <1>3, <1>4, <1>6, <2>1, <2>2, <2>3, <3>1 DEF LoadKind
    <3>2. CASE b.kind = "begin"
      BY <1>1, <1>3, <1>4, <1>6, <2>1, <2>2, <2>3, <3>2 DEF LoadKind
    <3>3. CASE b.kind = "setup"
      BY <1>1, <1>3, <1>4, <1>6, <2>1, <2>2, <2>3, <3>3 DEF LoadKind
    <3> QED BY <1>2, <3>1, <3>2, <3>3
  <2>5. LoginOf(p) /\ logins[p] # Absent
    BY <1>1, <1>2, <1>3 DEF IInv, LoginsInv, Grounded
  <2>6. rec \in MfaPending /\ Same(rec, logins[p]) /\ rec.attempts < MaxAttempts
    BY <1>4, <2>2, <2>5 DEF IInv, TypeOK, LoginOf, RecordOf
  <2>7. PICK d : d = [b EXCEPT !.pc = x]
    OBVIOUS
  <2>8. PICK c : c = [d EXCEPT !.pending = rec]
    OBVIOUS
  <2>9. d \in Calls /\ d.pc = x /\ d.kind = b.kind /\ d.mid = b.mid
    BY <1>1, <2>3, <2>7, SetPc DEF Points
  <2>10. c \in Calls /\ c.pc = x /\ c.kind = b.kind /\ c.mid = p /\ c.pending = rec
    BY <1>3, <2>6, <2>8, <2>9, SetPending
  <2>11. /\ x \in {"respond", "associate", "verify"}
         /\ x = "respond" <=> b.kind = "challenge"
         /\ x = "associate" <=> b.kind = "begin"
         /\ x = "verify" <=> b.kind = "setup"
    BY <1>2, <2>3
  <2>12. Placed(c)
    BY <1>2, <1>3, <2>6, <2>10, <2>11 DEF Placed, Held, Lookup, Settled, Answers
  <2>13. Fits(c)
    BY <1>2, <2>1, <2>2, <2>6, <2>10 DEF Fits, Same
  <2>14. Grounded(c)
    BY <2>5, <2>6, <2>10, <2>11, <2>13 DEF Grounded, Held, Lookup, Settled, Answers
  <2>15. Moves(r, c) /\ left' = left /\ UNCHANGED <<tables, stores, provider, history>>
    BY <2>4, <2>7, <2>8 DEF Continue, Moves
  <2>16. Plain(r, c) /\ ~Settles(c) /\ For(r, p) /\ call[r].pc = "load"
    BY <1>1, <1>2, <1>3, <2>10, <2>11 DEF Plain, Owns, Settles, Lookup, Settled, For
  <2>17. Tame(r, c, p)
    <3>1. ASSUME p \notin disturbed PROVE rec.attempts = guesses[p]
      <4>1. \A q \in Req : For(q, p) => call[q].pc \notin {"bump", "dropFailed"}
        BY <2>5, <2>16, <3>1 DEF LoginOf, CountOf
      <4> QED BY <1>4, <2>2, <2>5, <3>1, <4>1 DEF LoginOf, CountOf, Counted
    <3>2. logins[p].kind = "totp_setup" /\ p \notin disturbed => sessions[p] = <<>>
      BY <1>4, <2>2, <2>5 DEF LoginOf, EnrolmentOf
    <3>3. disturbed' = disturbed
      BY <2>15
    <3> QED BY <2>10, <2>16, <3>1, <3>2, <3>3 DEF Tame
  <2> QED BY <1>1, <1>2, <2>10, <2>12, <2>14, <2>15, <2>16, <2>17, LocalStep
<1> QED
  BY <1>5, <1>6

\* On its way to a session a login gets on without further ado.
LEMMA Onward ==
  ASSUME IInv, NEW r \in Req, NEW p \in Pending, NEW c, c.mid = p, For(r, p),
         call[r].pc \in {"create"} \cup Lookup \cup Settled,
         Settles(c), c.pc # "dropDone", p \in disturbed => p \in disturbed'
  PROVE  Tame(r, c, p)
<1>1. LoginOf(p) /\ logins[p] # Absent
  BY CallFacts DEF IInv, LoginsInv, Grounded, For
<1>2. logins[p].kind = "totp_setup" /\ p \notin disturbed => sessions[p] = <<>>
  BY <1>1 DEF LoginOf, EnrolmentOf, Lookup, Settled, Answers
<1> QED
  BY <1>2 DEF Tame, Settles, Writes, Lookup, Settled

\* An active user is found: the method is recorded next.
LEMMA ResolvedFacts ==
  ASSUME IInv, NEW b \in Calls, Placed(b), NEW u \in UserId, NEW active \in BOOLEAN, NEW c, c = Resolved(b, u, active)
  PROVE  \/ c = Idle
         \/ /\ c \in Calls /\ c.pc = "recordMethod" /\ c.user = u /\ c.mid = b.mid /\ c.kind = b.kind
            /\ c.rid = b.rid /\ c.sub = b.sub
<1>1. PICK d : d = [b EXCEPT !.pc = "recordMethod"]
  OBVIOUS
<1>2. d \in Calls /\ d.pc = "recordMethod" /\ d.mid = b.mid /\ d.kind = b.kind /\ d.rid = b.rid /\ d.sub = b.sub
  BY <1>1, SetPc DEF Points
<1>3. PICK e : e = [d EXCEPT !.user = u]
  OBVIOUS
<1>4. e \in Calls /\ e.pc = "recordMethod" /\ e.user = u /\ e.mid = b.mid /\ e.kind = b.kind
      /\ e.rid = b.rid /\ e.sub = b.sub
  BY <1>2, <1>3, SetUser
<1>5. c = Idle \/ c = e
  BY <1>1, <1>3 DEF Resolved
<1> QED
  BY <1>4, <1>5

LEMMA FindUserByCognitoSubStep ==
  ASSUME IInv, NEW r \in Req, FindUserByCognitoSub(r) PROVE IInv'
<1>1. PICK b : b = call[r] /\ b \in Calls /\ Placed(b) /\ Grounded(b)
  BY CallFacts
<1>2. /\ b.pc = "bySub" /\ Well /\ b.mid \in Pending /\ b.kind \in {"challenge", "setup"} /\ b.sub \in Person
      /\ b.mid \in proved /\ Fits(b) /\ b.sub = logins[b.mid].person /\ logins[b.mid] # Absent
  BY <1>1 DEF FindUserByCognitoSub, Placed, Grounded, Lookup
<1>3. CASE Continue(r, [b EXCEPT !.pc = "byEmail"])
  <2>1. PICK c : c = [b EXCEPT !.pc = "byEmail"]
    OBVIOUS
  <2>2. c \in Calls /\ c.pc = "byEmail" /\ c.kind = b.kind /\ c.mid = b.mid /\ c.sub = b.sub
    BY <1>1, <2>1, SetPc DEF Points
  <2>3. Placed(c) /\ Grounded(c)
    BY <1>2, <2>2 DEF Placed, Grounded, Held, Lookup, Settled, Answers, Fits
  <2>4. Moves(r, c) /\ left' = left /\ UNCHANGED <<tables, stores, provider, history>>
    BY <1>3, <2>1 DEF Continue, Moves
  <2>5. Plain(r, c)
    BY <2>2 DEF Plain, Owns
  <2>6. Tame(r, c, c.mid)
    BY <1>1, <1>2, <2>2, <2>4, Onward DEF For, Settles, Lookup
  <2> QED BY <1>1, <1>2, <2>2, <2>3, <2>4, <2>5, <2>6, LocalStep
<1>4. CASE \E u \in BySub(b.sub) : Continue(r, Resolved(b, u, users[u].active))
  <2>1. PICK u \in BySub(b.sub) : Continue(r, Resolved(b, u, users[u].active))
    BY <1>4
  <2>2. u \in UserId /\ Present(u) /\ users[u].sub = b.sub
    BY <2>1 DEF BySub, Rows, Present
  <2>3. users[u].active \in BOOLEAN
    BY <2>2 DEF IInv, TypeOK, Users, Present
  <2>4. PICK c : c = Resolved(b, u, users[u].active)
    OBVIOUS
  <2>5. Continue(r, c)
    BY <2>1, <2>4
  <2>6. CASE c = Idle
    BY <1>1, <1>2, <2>5, <2>6, FinishStep DEF Finish
  <2>7. CASE c # Idle
    <3>1. c \in Calls /\ c.pc = "recordMethod" /\ c.user = u /\ c.mid = b.mid /\ c.kind = b.kind
      BY <1>1, <2>2, <2>3, <2>4, <2>7, ResolvedFacts
    <3>2. Placed(c) /\ Grounded(c)
      BY <1>2, <2>2, <3>1 DEF Placed, Grounded, Held, Lookup, Settled, Answers, Fits, Present
    <3>3. Moves(r, c) /\ left' = left /\ UNCHANGED <<tables, stores, provider, history>>
      BY <2>5 DEF Continue, Moves
    <3>4. Plain(r, c)
      BY <3>1 DEF Plain, Owns
    <3>5. Tame(r, c, c.mid)
      BY <1>1, <1>2, <3>1, <3>3, Onward DEF For, Settles, Lookup, Settled
    <3> QED BY <1>1, <1>2, <3>1, <3>2, <3>3, <3>4, <3>5, LocalStep
  <2> QED BY <2>6, <2>7
<1> QED
  BY <1>1, <1>3, <1>4 DEF FindUserByCognitoSub

LEMMA FindUserByEmailStep == ASSUME IInv, NEW r \in Req, FindUserByEmail(r) PROVE IInv'
<1>1. PICK b : b = call[r] /\ b \in Calls /\ Placed(b) /\ Grounded(b)
  BY CallFacts
<1>2. /\ b.pc = "byEmail" /\ Well /\ b.mid \in Pending /\ b.kind \in {"challenge", "setup"} /\ b.sub \in Person
      /\ b.mid \in proved /\ Fits(b) /\ b.sub = logins[b.mid].person /\ logins[b.mid] # Absent
  BY <1>1 DEF FindUserByEmail, Placed, Grounded, Lookup
<1>3. CASE ByEmail(b.email) = {} /\ Continue(r, [b EXCEPT !.pc = "create"])
  <2>1. PICK c : c = [b EXCEPT !.pc = "create"]
    OBVIOUS
  <2>2. c \in Calls /\ c.pc = "create" /\ c.kind = b.kind /\ c.mid = b.mid /\ c.sub = b.sub /\ c.email = b.email
    BY <1>1, <2>1, SetPc DEF Points
  <2>3. Placed(c) /\ Grounded(c)
    BY <1>2, <2>2 DEF Placed, Grounded, Held, Lookup, Settled, Answers, Fits
  <2>4. Moves(r, c) /\ left' = left /\ UNCHANGED <<tables, stores, provider, history>>
    BY <1>3, <2>1 DEF Continue, Moves
  <2>5. Plain(r, c)
    BY <1>3, <2>2 DEF Plain, Owns
  <2>6. Tame(r, c, c.mid)
    BY <1>1, <1>2, <2>2, <2>4, Onward DEF For, Settles, Lookup
  <2> QED BY <1>1, <1>2, <2>2, <2>3, <2>4, <2>5, <2>6, LocalStep
<1>4. CASE Finish(r)
  BY <1>1, <1>2, <1>4, FinishStep
<1>5. CASE \E u \in ByEmail(b.email) : Continue(r, [b EXCEPT !.pc = "link", !.user = u])
  <2>1. PICK u \in ByEmail(b.email) : Continue(r, [b EXCEPT !.pc = "link", !.user = u])
    BY <1>5
  <2>2. u \in UserId /\ Present(u)
    BY <2>1 DEF ByEmail, Rows, Present
  <2>3. PICK d : d = [b EXCEPT !.pc = "link"]
    OBVIOUS
  <2>4. PICK c : c = [d EXCEPT !.user = u]
    OBVIOUS
  <2>5. d \in Calls /\ d.pc = "link" /\ d.kind = b.kind /\ d.mid = b.mid /\ d.sub = b.sub
    BY <1>1, <2>3, SetPc DEF Points
  <2>6. c \in Calls /\ c.pc = "link" /\ c.kind = b.kind /\ c.mid = b.mid /\ c.sub = b.sub /\ c.user = u
    BY <2>2, <2>4, <2>5, SetUser
  <2>7. Placed(c) /\ Grounded(c)
    BY <1>2, <2>2, <2>6 DEF Placed, Grounded, Held, Lookup, Settled, Answers, Fits, Present
  <2>8. Moves(r, c) /\ left' = left /\ UNCHANGED <<tables, stores, provider, history>>
    BY <2>1, <2>3, <2>4 DEF Continue, Moves
  <2>9. Plain(r, c)
    BY <2>6 DEF Plain, Owns
  <2>10. Tame(r, c, c.mid)
    BY <1>1, <1>2, <2>6, <2>8, Onward DEF For, Settles, Lookup
  <2> QED BY <1>1, <1>2, <2>6, <2>7, <2>8, <2>9, <2>10, LocalStep
<1> QED
  BY <1>1, <1>3, <1>4, <1>5 DEF FindUserByEmail

-----------------------------------------------------------------------------
(* Steps that change a store or a table *)

LEMMA CoreStep ==
  ASSUME IInv, TypeOK', NEW r \in Req, NEW c \in Calls, Placed(c), Grounded(c)', Grows, Moves(r, c),
         \A p \in Pending : LoginKept(p),
         \A p \in Pending : p \in {call[r].mid, c.mid} => Tame(r, c, p),
         RowsInv', RequestsInv'
  PROVE  IInv'
<1>1. CallsInv'
  BY CallsKept DEF IInv
<1>2. ASSUME NEW p \in Pending PROVE LoginOf(p)'
  <2>1. CASE p \in {call[r].mid, c.mid}
    BY <2>1, LoginStep DEF IInv, LoginsInv
  <2>2. CASE p \notin {call[r].mid, c.mid}
    BY <2>2, LoginAside DEF IInv, LoginsInv, For
  <2> QED BY <2>1, <2>2
<1> QED
  BY <1>1, <1>2 DEF IInv, LoginsInv

\* The request that ends here was not about to write a count.
LEMMA TameIdle ==
  ASSUME NEW r \in Req, NEW p \in Pending,
         For(r, p) => call[r].pc \notin {"bump", "dropFailed"} \/ mfaPending'[p] = Absent \/ p \in disturbed'
  PROVE  Tame(r, Idle, p)
<1>1. Idle.mid # p
  BY IdleFacts, Constants
<1> QED
  BY <1>1 DEF Tame, Counted

LEMMA StorePendingAuthorizationStep ==
  ASSUME IInv, NEW r \in Req, StorePendingAuthorization(r) PROVE IInv'
<1>1. PICK b : b = call[r] /\ b \in Calls /\ Placed(b) /\ Grounded(b)
  BY CallFacts
<1>2. /\ b.pc = "storeRequest" /\ b.rid \in Rid /\ b.mid \notin Pending
      /\ requests' = requests \cup {b.rid} /\ Moves(r, Idle) /\ left' = left /\ Well
      /\ UNCHANGED <<tables, mfaPending, provider, history>>
  BY <1>1 DEF StorePendingAuthorization, Placed, Moves
<1>3. Grows
  BY <1>2, GrowsIfUnchanged
<1>4. Grounded(Idle)'
  BY <1>3, IdleFacts, IdleIsPlaced, GroundedKept DEF IInv
<1>5. call' \in [Req -> Calls] /\ call'[r] = Idle /\ \A q \in Req \ {r} : call'[q] = call[q]
  BY <1>2, <1>3, <1>4, IdleFacts, IdleIsPlaced, CallsKept DEF IInv
<1>6. TypeOK'
  BY <1>2, <1>5 DEF IInv, TypeOK
<1>7. \A p \in Pending : LoginKept(p) /\ Tame(r, Idle, p)
  <2>1. \A p \in Pending : LoginKept(p) /\ ~For(r, p)
    BY <1>1, <1>2 DEF LoginKept, RecordKept, Same, For
  <2> QED BY <2>1, TameIdle
<1>8. RowsInv'
  BY <1>2, IdleFacts, RowsKept DEF IInv
<1>9. RequestsInv'
  <2>1. Owns(b) /\ AnsweredOnce
    BY <1>2 DEF Owns, IInv, RequestsInv
  <2>2. answered[b.rid] = 0 /\ \A q \in Req \ {r} : ~(Owns(call[q]) /\ call[q].rid = b.rid)
    BY <1>1, <2>1 DEF IInv, RequestsInv
  <2>3. AnsweredOnce'
    BY <1>2, <2>1, <2>2 DEF AnsweredOnce
  <2>4. ~Owns(call[r])' /\ \A q \in Req \ {r} : Owns(call[q])' <=> Owns(call[q])
    BY <1>5, IdleFacts DEF Owns
  <2>5. ASSUME NEW q \in Req, Owns(call[q])'
        PROVE  /\ call'[q].rid \notin requests' /\ answered'[call'[q].rid] = 0
               /\ \A s \in Req \ {q} : ~(Owns(call[s])' /\ call'[s].rid = call'[q].rid)
    <3>1. q # r /\ Owns(call[q]) /\ call'[q] = call[q]
      BY <1>5, <2>4, <2>5
    <3>2. /\ call[q].rid \notin requests /\ answered[call[q].rid] = 0
          /\ \A s \in Req \ {q} : ~(Owns(call[s]) /\ call[s].rid = call[q].rid)
      BY <3>1 DEF IInv, RequestsInv
    <3>3. call[q].rid # b.rid
      BY <2>2, <3>1
    <3> QED BY <1>2, <1>5, <2>4, <3>1, <3>2, <3>3
  <2> QED BY <2>3, <2>5 DEF RequestsInv
<1> QED
  BY <1>2, <1>3, <1>4, <1>6, <1>7, <1>8, <1>9, IdleFacts, IdleIsPlaced, CoreStep

\* Steps on the members of a service.
LEMMA MembersStep ==
  ASSUME IInv, NEW r \in Req, call[r].mid \notin Pending, Moves(r, Idle), left' = left, Well,
         members' \subseteq UserId, UNCHANGED <<users, mfaMethods, stores, provider, history>>
  PROVE  IInv'
<1>1. Grows
  BY GrowsIfUnchanged
<1>2. Grounded(Idle)'
  BY <1>1, IdleFacts, IdleIsPlaced, GroundedKept DEF IInv
<1>3. call' \in [Req -> Calls]
  BY <1>1, <1>2, IdleFacts, IdleIsPlaced, CallsKept DEF IInv
<1>4. TypeOK'
  BY <1>3 DEF IInv, TypeOK
<1>5. \A p \in Pending : LoginKept(p) /\ ~For(r, p)
  BY DEF LoginKept, RecordKept, Same, For
<1>6. RowsInv' /\ RequestsInv'
  BY IdleFacts, RowsKept, RequestsKept DEF IInv, Owns
<1> QED
  BY <1>1, <1>2, <1>4, <1>5, <1>6, TameIdle, IdleFacts, IdleIsPlaced, CoreStep

LEMMA MembershipStep ==
  ASSUME IInv, NEW r \in Req, UpsertServiceMembership(r) \/ RemoveServiceMembership(r) PROVE IInv'
<1>1. PICK b : b = call[r] /\ b \in Calls /\ Placed(b)
  BY CallFacts
<1>2. /\ b.pc \in {"upsert", "remove"} /\ Moves(r, Idle) /\ left' = left /\ Well
      /\ members' \in {members \cup {b.user}, members \ {b.user}}
      /\ UNCHANGED <<users, mfaMethods, stores, provider, history>>
  BY <1>1 DEF UpsertServiceMembership, RemoveServiceMembership, Moves
<1>3. b.user \in UserId /\ b.mid \notin Pending
  BY <1>1, <1>2 DEF Placed
<1>4. members' \subseteq UserId
  BY <1>2, <1>3 DEF IInv, TypeOK
<1> QED
  BY <1>1, <1>2, <1>3, <1>4, MembersStep

LEMMA DeletePendingStep == ASSUME IInv, NEW r \in Req, DeletePending(r) PROVE IInv'
<1>1. PICK b : b = call[r] /\ b \in Calls /\ Placed(b) /\ Grounded(b)
  BY CallFacts
<1>2. /\ b.pc \in {"dropFailed", "dropDone"} /\ b.mid \in Pending /\ b.kind \in {"challenge", "setup"}
      /\ b.pending \in MfaPending /\ Same(b.pending, logins[b.mid]) /\ Fits(b) /\ logins[b.mid] # Absent
      /\ b.pc = "dropDone" => b.mid \in proved
  BY <1>1 DEF DeletePending, Placed, Grounded, Held
<1>3. PICK c : c = IF b.pc = "dropFailed" THEN Idle
                   ELSE [Idle EXCEPT !.pc = "bySub", !.kind = b.kind, !.mid = b.mid,
                                     !.rid = b.pending.rid, !.sub = b.pending.person,
                                     !.email = EmailOf[b.pending.person]]
  OBVIOUS
<1>4. /\ mfaPending' = [mfaPending EXCEPT ![b.mid] = Absent] /\ Moves(r, c) /\ left' = left /\ Well
      /\ UNCHANGED <<tables, requests, provider, history>>
  BY <1>1, <1>3 DEF DeletePending, Moves
<1>5. b.pc = "dropDone" => /\ c \in Calls /\ c.pc = "bySub" /\ c.kind = b.kind /\ c.mid = b.mid
                           /\ c.sub = b.pending.person
  <2> SUFFICES ASSUME b.pc = "dropDone" PROVE c \in Calls /\ c.pc = "bySub" /\ c.kind = b.kind /\ c.mid = b.mid
                                              /\ c.sub = b.pending.person
    OBVIOUS
  <2>1. b.pending.person \in Person /\ b.pending.rid \in Rid \cup {NoRid} /\ EmailOf[b.pending.person] \in Email
    BY <1>2, Constants DEF MfaPending
  <2>2. b.pending.person \in Subs /\ b.kind \in Kinds /\ b.mid \in Pending \cup {NoLogin}
    BY <1>1, <1>2, <2>1 DEF Calls, Subs
  <2>3. c = [Idle EXCEPT !.pc = "bySub", !.kind = b.kind, !.mid = b.mid, !.rid = b.pending.rid,
                         !.sub = b.pending.person, !.email = EmailOf[b.pending.person]]
    BY <1>3
  <2>4. PICK c1 : c1 = [Idle EXCEPT !.pc = "bySub"]
    OBVIOUS
  <2>5. PICK c2 : c2 = [c1 EXCEPT !.kind = b.kind]
    OBVIOUS
  <2>6. PICK c3 : c3 = [c2 EXCEPT !.mid = b.mid]
    OBVIOUS
  <2>7. PICK c4 : c4 = [c3 EXCEPT !.rid = b.pending.rid]
    OBVIOUS
  <2>8. PICK c5 : c5 = [c4 EXCEPT !.sub = b.pending.person]
    OBVIOUS
  <2>9. c1 \in Calls /\ c1.pc = "bySub"
    BY <2>4, IdleFacts, SetPc DEF Points
  <2>10. c2 \in Calls /\ c2.pc = "bySub" /\ c2.kind = b.kind
    BY <2>2, <2>5, <2>9, SetKind
  <2>11. c3 \in Calls /\ c3.pc = "bySub" /\ c3.kind = b.kind /\ c3.mid = b.mid
    BY <2>2, <2>6, <2>10, SetMid
  <2>12. c4 \in Calls /\ c4.pc = "bySub" /\ c4.kind = b.kind /\ c4.mid = b.mid
    BY <2>1, <2>7, <2>11, SetRid
  <2>13. c5 \in Calls /\ c5.pc = "bySub" /\ c5.kind = b.kind /\ c5.mid = b.mid /\ c5.sub = b.pending.person
    BY <2>2, <2>8, <2>12, SetSub
  <2>14. c = [c5 EXCEPT !.email = EmailOf[b.pending.person]]
    BY <2>3, <2>4, <2>5, <2>6, <2>7, <2>8
  <2> QED BY <2>1, <2>13, <2>14, SetEmail
<1>6. b.pc = "dropFailed" => c = Idle
  BY <1>3
<1>7. c \in Calls /\ Placed(c) /\ Grounded(c)
  <2>1. CASE b.pc = "dropFailed"
    BY <1>6, <2>1, IdleFacts, IdleIsPlaced
  <2>2. CASE b.pc = "dropDone"
    <3>1. c.sub = logins[b.mid].person /\ c.sub \in Person
      BY <1>2, <1>5, <2>2 DEF Same, MfaPending
    <3> QED BY <1>2, <1>5, <2>2, <3>1 DEF Placed, Grounded, Held, Lookup, Settled, Answers, Fits
  <2> QED BY <1>2, <2>1, <2>2
<1>8. Grows
  BY <1>4, GrowsIfUnchanged
<1>9. Grounded(c)'
  BY <1>7, <1>8, GroundedKept DEF IInv
<1>10. call' \in [Req -> Calls]
  BY <1>4, <1>7, <1>8, <1>9, CallsKept DEF IInv
<1>11. mfaPending' \in [Pending -> MfaPending \cup {Absent}] /\ mfaPending'[b.mid] = Absent
       /\ \A p \in Pending \ {b.mid} : mfaPending'[p] = mfaPending[p]
  BY <1>2, <1>4 DEF IInv, TypeOK
<1>12. TypeOK'
  BY <1>4, <1>10, <1>11 DEF IInv, TypeOK
<1>13. \A p \in Pending : LoginKept(p)
  BY <1>4, <1>11 DEF LoginKept, RecordKept, Same
<1>14. Tame(r, c, b.mid)
  <2>1. CASE b.pc = "dropFailed"
    BY <1>2, <1>6, <1>11, <2>1, TameIdle
  <2>2. CASE b.pc = "dropDone"
    <3>1. LoginOf(b.mid)
      BY <1>2 DEF IInv, LoginsInv
    <3>2. logins[b.mid].kind = "totp_setup" /\ b.mid \notin disturbed => sessions[b.mid] = <<>>
      BY <1>1, <1>2, <2>2, <3>1 DEF LoginOf, EnrolmentOf, For, Answers
    <3>3. Settles(call[r]) /\ For(r, b.mid) /\ ~Writes(c) /\ call[r].pc = "dropDone"
      BY <1>1, <1>5, <2>2 DEF Settles, For, Writes
    <3> QED BY <1>4, <1>5, <1>11, <2>2, <3>2, <3>3 DEF Tame
  <2> QED BY <1>2, <2>1, <2>2
<1>15. c.mid \in Pending => c.mid = b.mid
  BY <1>2, <1>5, <1>6, IdleFacts, Constants
<1>16. c.pc # "create" /\ ~Owns(c)
  BY <1>2, <1>5, <1>6, IdleFacts DEF Owns
<1>17. RowsInv' /\ RequestsInv'
  BY <1>4, <1>7, <1>16, RowsKept, RequestsKept DEF IInv
<1> QED
  BY <1>1, <1>4, <1>7, <1>8, <1>9, <1>12, <1>13, <1>14, <1>15, <1>17, CoreStep

-----------------------------------------------------------------------------
(* Arrivals *)

LEMMA ArriveStep ==
  ASSUME IInv, NEW r \in Req, NEW c \in Calls, Placed(c), Grounded(c), Arrive(r, c), c.pc # "create",
         UNCHANGED <<logins, proved, guesses, sessions, answered, raced>>,
         disturbed \subseteq disturbed', disturbed' \subseteq Pending,
         c.mid \in Pending => /\ c.pc \in {"csrf", "load"}
                              /\ c.mid \in disturbed' \/ \A q \in Req : ~For(q, c.mid),
         RequestsInv'
  PROVE  IInv'
<1>1. /\ Moves(r, c) /\ call[r] = Idle /\ left > 0 /\ left' = left - 1 /\ Well
      /\ UNCHANGED <<tables, stores, provider>>
  BY DEF Arrive, Moves
<1>2. Grows
  BY <1>1, GrowsIfUnchanged
<1>3. Grounded(c)'
  BY <1>2, GroundedKept DEF IInv
<1>4. call' \in [Req -> Calls]
  BY <1>1, <1>2, <1>3, CallsKept DEF IInv
<1>5. left' \in 0 .. MaxCalls
  BY <1>1, Constants DEF IInv, TypeOK
<1>6. TypeOK'
  BY <1>1, <1>4, <1>5 DEF IInv, TypeOK
<1>7. \A p \in Pending : LoginKept(p)
  BY <1>1 DEF LoginKept, RecordKept, Same
<1>8. ASSUME NEW p \in Pending PROVE Tame(r, c, p)
  <2>1. ~For(r, p)
    BY <1>1, IdleFacts, Constants DEF For
  <2>2. c.mid = p => ~Settles(c) /\ ~Writes(c) /\ c.pc \in {"csrf", "load"} /\ Joins(c, p)
    BY DEF Settles, Writes, Lookup, Settled, Joins
  <2> QED BY <2>1, <2>2 DEF Tame
<1>9. RowsInv'
  BY <1>1, RowsKept DEF IInv
<1> QED
  BY <1>1, <1>2, <1>3, <1>6, <1>7, <1>8, <1>9, CoreStep

\* ... for no login.
LEMMA GuestStep ==
  ASSUME IInv, NEW r \in Req, NEW c \in Calls, Placed(c), Grounded(c), Arrive(r, c), c.pc # "create",
         c.mid \notin Pending, UNCHANGED history, ~Owns(c)
  PROVE  IInv'
<1>1. RequestsInv'
  BY RequestsKept DEF Arrive, Moves, IInv
<1>2. disturbed \subseteq disturbed' /\ disturbed' \subseteq Pending
  BY DEF IInv, TypeOK
<1> QED
  BY <1>1, <1>2, ArriveStep

LEMMA PostLoginStep == ASSUME IInv, NEW r \in Req, PostLogin(r) PROVE IInv'
<1>1. PICK x \in Person, q \in requests \cup {NoRid} :
        /\ Arrive(r, [Idle EXCEPT !.pc = "csrf", !.kind = "login", !.sub = x, !.rid = q])
        /\ UNCHANGED history
  BY DEF PostLogin
<1>2. q \in Rid \cup {NoRid} /\ x \in Subs
  BY DEF IInv, TypeOK, Subs
<1>3. PICK c1 : c1 = [Idle EXCEPT !.pc = "csrf"]
  OBVIOUS
<1>4. PICK c2 : c2 = [c1 EXCEPT !.kind = "login"]
  OBVIOUS
<1>5. PICK c3 : c3 = [c2 EXCEPT !.sub = x]
  OBVIOUS
<1>6. PICK c : c = [c3 EXCEPT !.rid = q]
  OBVIOUS
<1>7. c1 \in Calls /\ c1.pc = "csrf" /\ c1.mid = NoLogin
  BY <1>3, IdleFacts, SetPc DEF Points
<1>8. c2 \in Calls /\ c2.pc = "csrf" /\ c2.mid = NoLogin /\ c2.kind = "login"
  <2>1. "login" \in Kinds /\ c2 = [c1 EXCEPT !.kind = "login"]
    BY <1>4 DEF Kinds
  <2> QED BY <1>7, <2>1, SetKind
<1>9. c3 \in Calls /\ c3.pc = "csrf" /\ c3.mid = NoLogin /\ c3.kind = "login" /\ c3.sub = x
  BY <1>2, <1>5, <1>8, SetSub
<1>10. c \in Calls /\ c.pc = "csrf" /\ c.mid = NoLogin /\ c.kind = "login" /\ c.sub = x
  BY <1>2, <1>6, <1>9, SetRid
<1>11. Placed(c) /\ Grounded(c) /\ c.mid \notin Pending /\ ~Owns(c) /\ c.pc # "create"
  BY <1>10, Constants DEF Placed, Grounded, Held, Lookup, Settled, Answers, Owns
<1>12. Arrive(r, c)
  BY <1>1, <1>3, <1>4, <1>5, <1>6
<1> QED
  BY <1>1, <1>10, <1>11, <1>12, GuestStep

LEMMA InviteServiceMemberStep == ASSUME IInv, NEW r \in Req, InviteServiceMember(r) PROVE IInv'
<1>1. PICK e \in Email :
        /\ Arrive(r, [Idle EXCEPT !.pc = "contract", !.kind = "invite", !.email = e])
        /\ UNCHANGED history
  BY DEF InviteServiceMember
<1>2. PICK c1 : c1 = [Idle EXCEPT !.pc = "contract"]
  OBVIOUS
<1>3. PICK c2 : c2 = [c1 EXCEPT !.kind = "invite"]
  OBVIOUS
<1>4. PICK c : c = [c2 EXCEPT !.email = e]
  OBVIOUS
<1>5. c1 \in Calls /\ c1.pc = "contract" /\ c1.mid = NoLogin /\ c1.sub = NoSub
  BY <1>2, IdleFacts, SetPc DEF Points
<1>6. c2 \in Calls /\ c2.pc = "contract" /\ c2.mid = NoLogin /\ c2.sub = NoSub /\ c2.kind = "invite"
  <2>1. "invite" \in Kinds /\ c2 = [c1 EXCEPT !.kind = "invite"]
    BY <1>3 DEF Kinds
  <2> QED BY <1>5, <2>1, SetKind
<1>7. c \in Calls /\ c.pc = "contract" /\ c.mid = NoLogin /\ c.sub = NoSub /\ c.kind = "invite"
  BY <1>4, <1>6, SetEmail
<1>8. Placed(c) /\ Grounded(c) /\ c.mid \notin Pending /\ ~Owns(c) /\ c.pc # "create"
  BY <1>7, Constants DEF Placed, Grounded, Held, Lookup, Settled, Answers, Owns
<1>9. Arrive(r, c)
  BY <1>1, <1>2, <1>3, <1>4
<1> QED
  BY <1>1, <1>7, <1>8, <1>9, GuestStep

LEMMA RevokeServiceMemberStep == ASSUME IInv, NEW r \in Req, RevokeServiceMember(r) PROVE IInv'
<1>1. PICK u \in UserId :
        /\ Arrive(r, [Idle EXCEPT !.pc = "contract", !.kind = "revoke", !.user = u])
        /\ UNCHANGED history
  BY DEF RevokeServiceMember
<1>2. PICK c1 : c1 = [Idle EXCEPT !.pc = "contract"]
  OBVIOUS
<1>3. PICK c2 : c2 = [c1 EXCEPT !.kind = "revoke"]
  OBVIOUS
<1>4. PICK c : c = [c2 EXCEPT !.user = u]
  OBVIOUS
<1>5. c1 \in Calls /\ c1.pc = "contract" /\ c1.mid = NoLogin
  BY <1>2, IdleFacts, SetPc DEF Points
<1>6. c2 \in Calls /\ c2.pc = "contract" /\ c2.mid = NoLogin /\ c2.kind = "revoke"
  <2>1. "revoke" \in Kinds /\ c2 = [c1 EXCEPT !.kind = "revoke"]
    BY <1>3 DEF Kinds
  <2> QED BY <1>5, <2>1, SetKind
<1>7. c \in Calls /\ c.pc = "contract" /\ c.mid = NoLogin /\ c.kind = "revoke" /\ c.user = u
  BY <1>4, <1>6, SetUser
<1>8. Placed(c) /\ Grounded(c) /\ c.mid \notin Pending /\ ~Owns(c) /\ c.pc # "create"
  BY <1>7, Constants DEF Placed, Grounded, Held, Lookup, Settled, Answers, Owns
<1>9. Arrive(r, c)
  BY <1>1, <1>2, <1>3, <1>4
<1> QED
  BY <1>1, <1>7, <1>8, <1>9, GuestStep

LEMMA ForLoginStep ==
  ASSUME IInv, NEW r \in Req, NEW p \in Drawn, NEW b \in Calls, ForLogin(r, p, b),
         (b.pc = "load" /\ b.kind = "begin") \/ (b.pc = "csrf" /\ b.kind \in {"challenge", "setup"})
  PROVE  IInv'
<1>1. p \in Pending /\ logins[p] # Absent
  BY DEF Drawn
<1>2. PICK c : c = [b EXCEPT !.mid = p]
  OBVIOUS
<1>3. c \in Calls /\ c.mid = p /\ c.pc = b.pc /\ c.kind = b.kind
  BY <1>1, <1>2, SetMid
<1>4. Placed(c) /\ Grounded(c) /\ ~Owns(c) /\ c.pc # "create" /\ c.pc \in {"csrf", "load"}
  BY <1>1, <1>3 DEF Placed, Grounded, Held, Lookup, Settled, Answers, Owns
<1>5. /\ Arrive(r, c)
      /\ disturbed' = disturbed \cup {t \in {p} : \E q \in Req : call[q].mid = p}
      /\ UNCHANGED <<logins, proved, guesses, sessions, answered, raced>>
  BY <1>2 DEF ForLogin
<1>6. disturbed \subseteq disturbed' /\ disturbed' \subseteq Pending
  BY <1>1, <1>5 DEF IInv, TypeOK
<1>7. p \in disturbed' \/ \A q \in Req : ~For(q, p)
  BY <1>5 DEF For
<1>8. RequestsInv'
  BY <1>3, <1>4, <1>5, RequestsKept DEF Arrive, Moves, IInv
<1> QED
  BY <1>3, <1>4, <1>5, <1>6, <1>7, <1>8, ArriveStep

LEMMA GetSetupStep == ASSUME IInv, NEW r \in Req, GetSetup(r) PROVE IInv'
<1>1. PICK p \in Drawn, renew \in BOOLEAN :
        ForLogin(r, p, [Idle EXCEPT !.pc = "load", !.kind = "begin", !.renew = renew])
  BY DEF GetSetup
<1>2. PICK c1 : c1 = [Idle EXCEPT !.pc = "load"]
  OBVIOUS
<1>3. PICK c2 : c2 = [c1 EXCEPT !.kind = "begin"]
  OBVIOUS
<1>4. PICK c : c = [c2 EXCEPT !.renew = renew]
  OBVIOUS
<1>5. c1 \in Calls /\ c1.pc = "load"
  BY <1>2, IdleFacts, SetPc DEF Points
<1>6. c2 \in Calls /\ c2.pc = "load" /\ c2.kind = "begin"
  <2>1. "begin" \in Kinds /\ c2 = [c1 EXCEPT !.kind = "begin"]
    BY <1>3 DEF Kinds
  <2> QED BY <1>5, <2>1, SetKind
<1>7. c \in Calls /\ c.pc = "load" /\ c.kind = "begin"
  BY <1>4, <1>6, SetRenew
<1>8. ForLogin(r, p, c)
  BY <1>1, <1>2, <1>3, <1>4
<1> QED
  BY <1>7, <1>8, ForLoginStep

LEMMA PostCodeStep == ASSUME IInv, NEW r \in Req, PostCode(r) PROVE IInv'
<1>1. PICK p \in Drawn, k \in {"challenge", "setup"} : \E n \in 0 .. cognito[logins[p].person].issued :
        ForLogin(r, p, [Idle EXCEPT !.pc = "csrf", !.kind = k, !.code = n])
  BY DEF PostCode
<1>2. PICK n \in 0 .. cognito[logins[p].person].issued :
        ForLogin(r, p, [Idle EXCEPT !.pc = "csrf", !.kind = k, !.code = n])
  BY <1>1
<1>3. p \in Pending /\ logins[p] \in MfaPending
  BY DEF IInv, TypeOK, Drawn
<1>4. logins[p].person \in Person
  BY <1>3 DEF MfaPending
<1>5. cognito[logins[p].person].issued \in Secrets
  BY <1>4 DEF IInv, TypeOK
<1>6. n \in Secrets
  BY <1>5, Constants DEF Secrets
<1>7. PICK c1 : c1 = [Idle EXCEPT !.pc = "csrf"]
  OBVIOUS
<1>8. PICK c2 : c2 = [c1 EXCEPT !.kind = k]
  OBVIOUS
<1>9. PICK c : c = [c2 EXCEPT !.code = n]
  OBVIOUS
<1>10. c1 \in Calls /\ c1.pc = "csrf"
  BY <1>7, IdleFacts, SetPc DEF Points
<1>11. c2 \in Calls /\ c2.pc = "csrf" /\ c2.kind = k
  BY <1>8, <1>10, SetKind DEF Kinds
<1>12. c \in Calls /\ c.pc = "csrf" /\ c.kind = k
  BY <1>6, <1>9, <1>11, SetCode
<1>13. ForLogin(r, p, c)
  BY <1>2, <1>7, <1>8, <1>9
<1> QED
  BY <1>12, <1>13, ForLoginStep

LEMMA AuthorizeStep == ASSUME IInv, NEW r \in Req, Authorize(r) PROVE IInv'
<1>1. PICK q \in Rid :
        /\ q \notin requests /\ answered[q] = 0
        /\ \A t \in Req : call[t].rid # q
        /\ Arrive(r, [Idle EXCEPT !.pc = "storeRequest", !.kind = "authorize", !.rid = q])
        /\ UNCHANGED history
  BY DEF Authorize
<1>2. PICK c1 : c1 = [Idle EXCEPT !.pc = "storeRequest"]
  OBVIOUS
<1>3. PICK c2 : c2 = [c1 EXCEPT !.kind = "authorize"]
  OBVIOUS
<1>4. PICK c : c = [c2 EXCEPT !.rid = q]
  OBVIOUS
<1>5. c1 \in Calls /\ c1.pc = "storeRequest" /\ c1.mid = NoLogin
  BY <1>2, IdleFacts, SetPc DEF Points
<1>6. c2 \in Calls /\ c2.pc = "storeRequest" /\ c2.mid = NoLogin /\ c2.kind = "authorize"
  <2>1. "authorize" \in Kinds /\ c2 = [c1 EXCEPT !.kind = "authorize"]
    BY <1>3 DEF Kinds
  <2> QED BY <1>5, <2>1, SetKind
<1>7. c \in Calls /\ c.pc = "storeRequest" /\ c.mid = NoLogin /\ c.kind = "authorize" /\ c.rid = q
  BY <1>4, <1>6, SetRid
<1>8. Placed(c) /\ Grounded(c) /\ c.mid \notin Pending /\ c.pc # "create"
  BY <1>7, Constants DEF Placed, Grounded, Held, Lookup, Settled, Answers
<1>9. Arrive(r, c) /\ call'[r] = c /\ (\A t \in Req \ {r} : call'[t] = call[t])
      /\ requests' = requests /\ answered' = answered
  BY <1>1, <1>2, <1>3, <1>4 DEF Arrive, IInv, TypeOK
<1>10. RequestsInv'
  <2>1. AnsweredOnce'
    BY <1>9 DEF IInv, RequestsInv, AnsweredOnce
  <2>2. ASSUME NEW t \in Req, Owns(call[t])'
        PROVE  /\ call'[t].rid \notin requests' /\ answered'[call'[t].rid] = 0
               /\ \A s \in Req \ {t} : ~(Owns(call[s])' /\ call'[s].rid = call'[t].rid)
    <3>1. CASE t = r
      <4>1. \A s \in Req \ {t} : call'[s].rid # q
        BY <1>1, <1>9, <3>1
      <4> QED BY <1>1, <1>7, <1>9, <3>1, <4>1
    <3>2. CASE t # r
      <4>1. Owns(call[t]) /\ call'[t] = call[t] /\ call[t].rid # q
        BY <1>1, <1>9, <2>2, <3>2 DEF Owns
      <4>2. /\ call[t].rid \notin requests /\ answered[call[t].rid] = 0
            /\ \A s \in Req \ {t} : ~(Owns(call[s]) /\ call[s].rid = call[t].rid)
        BY <4>1 DEF IInv, RequestsInv
      <4>3. ASSUME NEW s \in Req \ {t}, Owns(call[s])', call'[s].rid = call'[t].rid PROVE FALSE
        <5>1. CASE s = r
          BY <1>7, <1>9, <4>1, <4>3, <5>1
        <5>2. CASE s # r
          BY <1>9, <4>1, <4>2, <4>3, <5>2 DEF Owns
        <5> QED BY <5>1, <5>2
      <4> QED BY <1>9, <4>1, <4>2, <4>3
    <3> QED BY <3>1, <3>2
  <2> QED BY <2>1, <2>2 DEF RequestsInv
<1>11. disturbed \subseteq disturbed' /\ disturbed' \subseteq Pending
  BY <1>1 DEF IInv, TypeOK
<1> QED
  BY <1>1, <1>7, <1>8, <1>9, <1>10, <1>11, ArriveStep


-----------------------------------------------------------------------------
(* Steps that write the record of a login *)

LEMMA AssembleStep ==
  ASSUME IInv, TypeOK', NEW r \in Req, NEW c \in Calls, Placed(c), Grounded(c)', Grows, Moves(r, c),
         \A p \in Pending : LoginOf(p)', RowsInv', RequestsInv'
  PROVE  IInv'
<1>1. CallsInv'
  BY CallsKept DEF IInv
<1> QED
  BY <1>1 DEF IInv, LoginsInv

LEMMA RewriteStep ==
  ASSUME IInv, NEW r \in Req, call[r].pc \in {"bump", "saveSetup"}, NEW m \in {Absent, call[r].pending},
         mfaPending' = [mfaPending EXCEPT ![call[r].mid] = m],
         Moves(r, Idle), left' = left, Well, UNCHANGED <<tables, requests, provider, history>>
  PROVE  IInv'
<1>1. PICK b : b = call[r] /\ b \in Calls /\ Placed(b) /\ Grounded(b)
  BY CallFacts
<1>2. PICK p \in Pending : p = b.mid
  BY <1>1 DEF Placed
<1>3. /\ For(r, p) /\ Writes(call[r]) /\ logins[p] # Absent
      /\ b.pending \in MfaPending /\ b.pending.attempts < MaxAttempts /\ Same(b.pending, logins[p])
  BY <1>1, <1>2 DEF For, Writes, Placed, Grounded, Held
<1>4. /\ mfaPending' \in [Pending -> MfaPending \cup {Absent}] /\ mfaPending'[p] = m
      /\ \A q \in Pending \ {p} : mfaPending'[q] = mfaPending[q]
  BY <1>1, <1>2, <1>3 DEF IInv, TypeOK
<1>5. Grows
  BY GrowsIfUnchanged
<1>6. Grounded(Idle)'
  BY <1>5, IdleFacts, IdleIsPlaced, GroundedKept DEF IInv
<1>7. call' \in [Req -> Calls] /\ call'[r] = Idle /\ \A q \in Req \ {r} : call'[q] = call[q]
  BY <1>5, <1>6, IdleFacts, IdleIsPlaced, CallsKept DEF IInv
<1>8. TypeOK'
  BY <1>4, <1>7 DEF IInv, TypeOK
<1>9. LoginOf(p)
  BY DEF IInv, LoginsInv
<1>10. ASSUME NEW q \in Req, For(q, p)' PROVE q # r /\ For(q, p) /\ call'[q] = call[q]
  BY <1>7, <1>10, IdleFacts, Constants DEF For
<1>11. LoginOf(p)'
  <2>1. RecordOf(p)'
    BY <1>1, <1>3, <1>4 DEF RecordOf, Same
  <2>2. CountOf(p)'
    <3> SUFFICES ASSUME p \notin disturbed PROVE
          /\ \A q, s \in Req : q # s => ~(For(q, p)' /\ For(s, p)')
          /\ guesses[p] <= MaxAttempts
          /\ Counted(p)'
          /\ \A q \in Req : For(q, p)' /\ Writes(call[q])' => call'[q].pending.attempts = guesses[p]
      BY DEF CountOf
    <3>1. /\ \A q, s \in Req : q # s => ~(For(q, p) /\ For(s, p))
          /\ guesses[p] <= MaxAttempts /\ b.pending.attempts = guesses[p]
      BY <1>1, <1>3, <1>9 DEF LoginOf, CountOf
    <3>2. \A q \in Req : ~For(q, p)'
      BY <1>3, <1>10, <3>1
    <3> QED BY <1>1, <1>4, <3>1, <3>2 DEF Counted
  <2>3. ChallengeOf(p)'
    <3>1. \A q \in Req : For(q, p)' /\ Settles(call[q])' => q # r /\ For(q, p) /\ Settles(call[q])
      BY <1>10 DEF Settles
    <3> QED BY <1>9, <3>1 DEF LoginOf, ChallengeOf
  <2>4. EnrolmentOf(p)'
    <3> SUFFICES ASSUME logins[p].kind = "totp_setup", p \notin disturbed
                 PROVE  sessions[p] = <<>> /\ \A q \in Req : ~For(q, p)'
      BY DEF EnrolmentOf
    <3>1. sessions[p] = <<>>
      BY <1>3, <1>9 DEF LoginOf, EnrolmentOf, Answers
    <3>2. \A q \in Req : ~For(q, p)'
      BY <1>3, <1>9, <1>10 DEF LoginOf, CountOf
    <3> QED BY <3>1, <3>2
  <2>5. EarnedOf(p)'
    BY <1>5, <1>9, EarnedKept DEF LoginOf, IInv
  <2> QED BY <2>1, <2>2, <2>3, <2>4, <2>5 DEF LoginOf
<1>12. ASSUME NEW q \in Pending \ {p} PROVE LoginOf(q)'
  <2>1. LoginKept(q)
    BY <1>4 DEF LoginKept, RecordKept, Same
  <2>2. ~For(r, q) /\ Idle.mid # q
    BY <1>1, <1>2, IdleFacts, Constants DEF For
  <2> QED BY <1>5, <2>1, <2>2, IdleFacts, LoginAside DEF IInv, LoginsInv
<1>13. RowsInv' /\ RequestsInv'
  BY IdleFacts, RowsKept, RequestsKept DEF IInv, Owns
<1>14. \A q \in Pending : LoginOf(q)'
  BY <1>11, <1>12
<1> QED
  BY <1>5, <1>6, <1>8, <1>13, <1>14, IdleFacts, IdleIsPlaced, AssembleStep

LEMMA UpdatePendingStep == ASSUME IInv, NEW r \in Req, UpdatePending(r) PROVE IInv'
<1>1. PICK m : m = IF mfaPending[call[r].mid] = Absent THEN Absent ELSE call[r].pending
  OBVIOUS
<1>2. /\ call[r].pc = "bump" /\ m \in {Absent, call[r].pending}
      /\ mfaPending' = [mfaPending EXCEPT ![call[r].mid] = m]
      /\ Moves(r, Idle) /\ left' = left /\ Well /\ UNCHANGED <<tables, requests, provider, history>>
  BY <1>1 DEF UpdatePending, Moves, IInv, TypeOK
<1> QED
  BY <1>2, RewriteStep

LEMMA SavePendingStep == ASSUME IInv, NEW r \in Req, SavePending(r) PROVE IInv'
<1>1. /\ call[r].pc = "saveSetup" /\ mfaPending' = [mfaPending EXCEPT ![call[r].mid] = call[r].pending]
      /\ Moves(r, Idle) /\ left' = left /\ Well /\ UNCHANGED <<tables, requests, provider, history>>
  BY DEF SavePending, Moves
<1> QED
  BY <1>1, RewriteStep

LEMMA StorePendingStep == ASSUME IInv, NEW r \in Req, StorePending(r) PROVE IInv'
<1>1. PICK b : b = call[r] /\ b \in Calls /\ Placed(b) /\ Grounded(b)
  BY CallFacts
<1>2. PICK p \in Pending :
        /\ b.pc = "storePending" /\ logins[p] = Absent
        /\ mfaPending' = [mfaPending EXCEPT ![p] = b.pending]
        /\ logins' = [logins EXCEPT ![p] = b.pending]
        /\ challenges' = challenges \cup {t \in {p} : b.pending.kind = "totp_challenge"}
        /\ Moves(r, Idle) /\ left' = left /\ Well
        /\ UNCHANGED <<tables, requests, cognito, proved, guesses, sessions, answered, disturbed, raced>>
  BY <1>1 DEF StorePending, Moves
<1>3. b.mid \notin Pending /\ b.pending \in MfaPending /\ b.pending.attempts = 0
  BY <1>1, <1>2 DEF Placed
<1>4. /\ mfaPending' \in [Pending -> MfaPending \cup {Absent}] /\ mfaPending'[p] = b.pending
      /\ \A q \in Pending \ {p} : mfaPending'[q] = mfaPending[q]
      /\ logins' \in [Pending -> MfaPending \cup {Absent}] /\ logins'[p] = b.pending
      /\ \A q \in Pending \ {p} : logins'[q] = logins[q]
      /\ b.pending # Absent
  BY <1>2, <1>3, Constants DEF IInv, TypeOK
<1>5. Grows
  BY <1>2, <1>4 DEF Grows, Present
<1>6. Grounded(Idle)'
  BY <1>5, IdleFacts, IdleIsPlaced, GroundedKept DEF IInv
<1>7. call' \in [Req -> Calls] /\ call'[r] = Idle /\ \A q \in Req \ {r} : call'[q] = call[q]
  BY <1>2, <1>5, <1>6, IdleFacts, IdleIsPlaced, CallsKept DEF IInv
<1>8. TypeOK'
  BY <1>2, <1>4, <1>7 DEF IInv, TypeOK
<1>9. LoginOf(p)'
  <2>1. /\ guesses[p] = 0 /\ sessions[p] = <<>> /\ p \notin challenges
    BY <1>2 DEF IInv, LoginsInv, LoginOf, RecordOf
  <2>2. \A q \in Req : ~For(q, p)
    <3> SUFFICES ASSUME NEW q \in Req, For(q, p) PROVE FALSE
      OBVIOUS
    <3>1. PICK d : d = call[q] /\ Grounded(d) /\ d.mid = p
      BY CallFacts DEF For
    <3> QED BY <1>2, <3>1 DEF Grounded
  <2>3. \A q \in Req : ~For(q, p)'
    BY <1>7, <2>2, IdleFacts, Constants DEF For
  <2>4. RecordOf(p)'
    BY <1>3, <1>4, Constants DEF RecordOf, Same
  <2>5. CountOf(p)'
    BY <1>2, <1>3, <1>4, <2>1, <2>3, Constants DEF CountOf, Counted
  <2>6. ChallengeOf(p)' /\ EnrolmentOf(p)' /\ EarnedOf(p)'
    BY <1>2, <2>1, <2>3 DEF ChallengeOf, EnrolmentOf, EarnedOf
  <2> QED BY <2>4, <2>5, <2>6 DEF LoginOf
<1>10. ASSUME NEW q \in Pending \ {p} PROVE LoginOf(q)'
  <2>1. LoginKept(q)
    BY <1>2, <1>4 DEF LoginKept, RecordKept, Same
  <2>2. ~For(r, q) /\ Idle.mid # q
    BY <1>1, <1>3, IdleFacts, Constants DEF For
  <2> QED BY <1>2, <1>5, <2>1, <2>2, IdleFacts, LoginAside DEF IInv, LoginsInv
<1>11. RowsInv' /\ RequestsInv'
  BY <1>2, IdleFacts, RowsKept, RequestsKept DEF IInv, Owns
<1>12. \A q \in Pending : LoginOf(q)'
  BY <1>9, <1>10
<1> QED
  BY <1>2, <1>5, <1>6, <1>8, <1>11, <1>12, IdleFacts, IdleIsPlaced, AssembleStep

-----------------------------------------------------------------------------
(* Time and failures *)

LEMMA AbortStep == ASSUME IInv, NEW r \in Req, Abort(r) PROVE IInv'
<1>1. PICK b : b = call[r] /\ b \in Calls
  BY CallFacts
<1>2. /\ Fault /\ Moves(r, Idle) /\ left' = left /\ disturbed' = disturbed \cup ({b.mid} \cap Pending)
      /\ UNCHANGED <<tables, stores, provider, logins, proved, guesses, sessions, answered, raced>>
  BY <1>1 DEF Abort, Moves
<1>3. Grows
  BY <1>2, GrowsIfUnchanged
<1>4. Grounded(Idle)'
  BY <1>3, IdleFacts, IdleIsPlaced, GroundedKept DEF IInv
<1>5. call' \in [Req -> Calls]
  BY <1>2, <1>3, <1>4, IdleFacts, IdleIsPlaced, CallsKept DEF IInv
<1>6. TypeOK'
  BY <1>2, <1>5, FaultsStay DEF IInv, TypeOK
<1>7. ASSUME NEW p \in Pending PROVE LoginKept(p) /\ Tame(r, Idle, p)
  <2>1. LoginKept(p)
    BY <1>2 DEF LoginKept, RecordKept, Same
  <2>2. For(r, p) => p \in disturbed'
    BY <1>1, <1>2 DEF For
  <2> QED BY <2>1, <2>2, TameIdle
<1>8. RowsInv' /\ RequestsInv'
  BY <1>2, IdleFacts, RowsKept, RequestsKept DEF IInv, Owns
<1> QED
  BY <1>2, <1>3, <1>4, <1>6, <1>7, <1>8, IdleFacts, IdleIsPlaced, CoreStep

LEMMA LapseStep ==
  ASSUME IInv, TypeOK', \A p \in Pending : LoginKept(p), requests' \subseteq requests,
         UNCHANGED <<tables, call, left, history>>
  PROVE  IInv'
<1>1. Grows
  BY GrowsIfUnchanged
<1>2. ASSUME NEW q \in Req PROVE Placed(call[q])' /\ Grounded(call[q])'
  <2>1. PICK d : d = call[q] /\ d \in Calls /\ Placed(d) /\ Grounded(d)
    BY CallFacts
  <2>2. Grounded(d)'
    BY <1>1, <2>1, GroundedKept DEF IInv
  <2> QED BY <2>1, <2>2
<1>3. ASSUME NEW p \in Pending PROVE LoginOf(p)'
  <2>1. LoginOf(p) /\ LoginKept(p)
    BY DEF IInv, LoginsInv
  <2>2. RecordOf(p)'
    BY <2>1 DEF LoginOf, RecordOf, LoginKept, RecordKept, Same
  <2>3. Counted(p) => Counted(p)'
    BY <2>1 DEF Counted, LoginKept, RecordKept
  <2>4. CountOf(p)'
    BY <2>1, <2>3 DEF LoginOf, CountOf, For, Writes
  <2>5. ChallengeOf(p)'
    BY <2>1 DEF LoginOf, ChallengeOf, For, Settles, LoginKept
  <2>6. mfaPending[p] = Absent => mfaPending'[p] = Absent
    BY <2>1 DEF LoginKept, RecordKept
  <2>7. EnrolmentOf(p)'
    BY <2>1, <2>6 DEF LoginOf, EnrolmentOf, For, Settles
  <2>8. EarnedOf(p)'
    BY <2>1 DEF LoginOf, EarnedOf
  <2> QED BY <2>2, <2>4, <2>5, <2>7, <2>8 DEF LoginOf
<1>4. RowsInv'
  BY DEF IInv, RowsInv, Present, Mailbox
<1>5. RequestsInv'
  BY DEF IInv, RequestsInv, AnsweredOnce, Owns
<1> QED
  BY <1>2, <1>3, <1>4, <1>5 DEF IInv, CallsInv, LoginsInv

LEMMA PendingLapsesStep == ASSUME IInv, PendingLapses PROVE IInv'
<1>1. PICK p \in Pending :
        /\ Fault /\ mfaPending' = [mfaPending EXCEPT ![p] = Absent]
        /\ UNCHANGED <<tables, requests, provider, call, left, history>>
  BY DEF PendingLapses
<1>2. /\ mfaPending' \in [Pending -> MfaPending \cup {Absent}] /\ mfaPending'[p] = Absent
      /\ \A q \in Pending \ {p} : mfaPending'[q] = mfaPending[q]
  BY <1>1 DEF IInv, TypeOK
<1>3. TypeOK'
  BY <1>1, <1>2, FaultsStay DEF IInv, TypeOK
<1>4. \A q \in Pending : LoginKept(q)
  BY <1>1, <1>2 DEF LoginKept, RecordKept, Same
<1> QED
  BY <1>1, <1>3, <1>4, LapseStep

LEMMA SecretAgesStep == ASSUME IInv, SecretAges PROVE IInv'
<1>1. PICK p \in Pending :
        /\ Fault /\ mfaPending[p] # Absent /\ mfaPending' = [mfaPending EXCEPT ![p].aged = TRUE]
        /\ UNCHANGED <<tables, requests, provider, call, left, history>>
  BY DEF SecretAges
<1>2. PICK rec : rec = mfaPending[p] /\ rec \in MfaPending
  BY <1>1 DEF IInv, TypeOK
<1>3. PICK old : old = [rec EXCEPT !.aged = TRUE]
  OBVIOUS
<1>4. old \in MfaPending /\ Same(old, rec) /\ old.attempts = rec.attempts
  BY <1>2, <1>3 DEF MfaPending, Same
<1>5. mfaPending' = [mfaPending EXCEPT ![p] = old]
  BY <1>1, <1>2, <1>3
<1>6. /\ mfaPending' \in [Pending -> MfaPending \cup {Absent}] /\ mfaPending'[p] = old
      /\ \A q \in Pending \ {p} : mfaPending'[q] = mfaPending[q]
  BY <1>4, <1>5 DEF IInv, TypeOK
<1>7. TypeOK'
  BY <1>1, <1>6, FaultsStay DEF IInv, TypeOK
<1>8. \A q \in Pending : LoginKept(q)
  BY <1>1, <1>2, <1>4, <1>6 DEF LoginKept, RecordKept, Same
<1> QED
  BY <1>1, <1>7, <1>8, LapseStep

LEMMA LapsesStep == ASSUME IInv, RequestLapses \/ ChallengeLapses PROVE IInv'
<1>1. /\ Fault /\ requests' \subseteq requests /\ challenges' \subseteq challenges
      /\ UNCHANGED <<tables, mfaPending, cognito, call, left, history>>
  BY DEF RequestLapses, ChallengeLapses
<1>2. TypeOK'
  BY <1>1, FaultsStay DEF IInv, TypeOK
<1>3. \A q \in Pending : LoginKept(q)
  BY <1>1 DEF LoginKept, RecordKept, Same
<1> QED
  BY <1>1, <1>2, <1>3, LapseStep


-----------------------------------------------------------------------------
(* Steps of finishLogin *)

\* A login on its way to a session, or one that has it, goes on as c, which is about it too.
LEMMA ForwardStep ==
  ASSUME IInv, TypeOK', NEW r \in Req, NEW c \in Calls, Placed(c), Grounded(c)', Grows, Moves(r, c),
         UNCHANGED <<mfaPending, challenges, logins, guesses, sessions, disturbed>>,
         c.mid \in Pending => /\ c.mid = call[r].mid
                              /\ Tame(r, c, c.mid),
         call[r].pc \notin {"bump", "dropFailed"},
         RowsInv', RequestsInv'
  PROVE  IInv'
<1>1. ASSUME NEW p \in Pending PROVE LoginKept(p) /\ (p \in {call[r].mid, c.mid} => Tame(r, c, p))
  <2>1. LoginKept(p)
    BY DEF LoginKept, RecordKept, Same
  <2>2. CASE c.mid = p
    BY <2>1, <2>2
  <2>3. CASE c.mid # p
    BY <2>1, <2>3 DEF Tame
  <2> QED BY <2>2, <2>3
<1> QED
  BY <1>1, CoreStep

LEMMA RecordMfaMethodStep == ASSUME IInv, NEW r \in Req, RecordMfaMethod(r) PROVE IInv'
<1>1. PICK b : b = call[r] /\ b \in Calls /\ Placed(b) /\ Grounded(b)
  BY CallFacts
<1>2. PICK c : c = [b EXCEPT !.pc = "createSession"]
  OBVIOUS
<1>3. /\ b.pc = "recordMethod" /\ Well /\ mfaMethods' = mfaMethods \cup {b.user} /\ Moves(r, c) /\ left' = left
      /\ UNCHANGED <<users, members, stores, provider, history>>
  BY <1>1, <1>2 DEF RecordMfaMethod, Moves
<1>4. c \in Calls /\ c.pc = "createSession" /\ c.kind = b.kind /\ c.mid = b.mid /\ c.user = b.user
  BY <1>1, <1>2, SetPc DEF Points
<1>5. b.mid \in Pending /\ b.user \in UserId /\ b.kind \in {"challenge", "setup"}
  BY <1>1, <1>3 DEF Placed, Settled
<1>6. Grows
  BY <1>3 DEF Grows, Present
<1>7. Placed(c)
  BY <1>4, <1>5 DEF Placed, Held, Lookup, Settled, Answers
<1>8. Grounded(c)'
  <2>1. /\ logins[b.mid] # Absent /\ b.mid \in proved /\ Fits(b)
        /\ users[b.user] # Absent /\ users[b.user].sub = logins[b.mid].person
    BY <1>1, <1>3, <1>5 DEF Grounded, Settled
  <2> QED BY <1>3, <1>4, <1>5, <2>1 DEF Grounded, Fits, Held, Lookup, Settled, Answers
<1>9. call' \in [Req -> Calls]
  BY <1>3, <1>4, <1>6, <1>7, <1>8, CallsKept DEF IInv
<1>10. TypeOK'
  BY <1>3, <1>5, <1>9 DEF IInv, TypeOK
<1>11. Tame(r, c, c.mid)
  BY <1>1, <1>3, <1>4, <1>5, Onward DEF For, Settles, Settled
<1>12. RowsInv' /\ RequestsInv'
  BY <1>3, <1>4, RowsKept, RequestsKept DEF IInv, Owns
<1> QED
  BY <1>1, <1>3, <1>4, <1>6, <1>7, <1>8, <1>10, <1>11, <1>12, ForwardStep

LEMMA CreateSsoSessionStep == ASSUME IInv, NEW r \in Req, CreateSsoSession(r) PROVE IInv'
<1>1. PICK b : b = call[r] /\ b \in Calls /\ Placed(b) /\ Grounded(b)
  BY CallFacts
<1>2. b.pc = "createSession"
  BY <1>1 DEF CreateSsoSession
<1>3. PICK p \in Pending : p = b.mid
  BY <1>1, <1>2 DEF Placed, Settled
<1>4. /\ b.user \in UserId /\ b.kind \in {"challenge", "setup"} /\ logins[p] # Absent /\ p \in proved
      /\ users[b.user] # Absent /\ users[b.user].sub = logins[p].person /\ b.user \in mfaMethods /\ Fits(b)
  BY <1>1, <1>2, <1>3 DEF Placed, Grounded, Settled
<1>5. PICK d : d = [b EXCEPT !.pc = "consume"]
  OBVIOUS
<1>6. PICK c : c = IF b.rid = NoRid THEN Idle ELSE d
  OBVIOUS
<1>7. /\ sessions' = [sessions EXCEPT ![p] = Append(@, b.user)] /\ Moves(r, c) /\ left' = left /\ Well
      /\ UNCHANGED <<tables, stores, provider, logins, proved, guesses, answered, disturbed, raced>>
  BY <1>1, <1>3, <1>5, <1>6 DEF CreateSsoSession, Moves
<1>8. d \in Calls /\ d.pc = "consume" /\ d.kind = b.kind /\ d.mid = p /\ d.rid = b.rid
  BY <1>1, <1>3, <1>5, SetPc DEF Points
<1>9. b.rid # NoRid => b.rid \in Rid
  BY <1>1 DEF Calls
<1>10. /\ c \in Calls /\ Placed(c) /\ Grounded(c)
       /\ c.mid \in Pending => c.mid = p /\ c.pc = "consume"
  <2>1. CASE c = Idle
    BY <2>1, IdleFacts, IdleIsPlaced, Constants
  <2>2. CASE c # Idle
    <3>1. c = d /\ d.rid \in Rid
      BY <1>6, <1>8, <1>9, <2>2
    <3>2. Placed(d)
      BY <1>4, <1>8, <3>1 DEF Placed, Held, Lookup, Settled, Answers
    <3>3. Grounded(d)
      BY <1>3, <1>4, <1>8 DEF Grounded, Fits, Held, Lookup, Settled, Answers
    <3> QED BY <1>8, <3>1, <3>2, <3>3
  <2> QED BY <2>1, <2>2
<1>11. c.pc \in {"idle", "consume"}
  BY <1>6, <1>8, IdleFacts
<1>12. Grows
  BY <1>7, GrowsIfUnchanged
<1>13. Grounded(c)'
  BY <1>10, <1>12, GroundedKept DEF IInv
<1>14. call' \in [Req -> Calls] /\ call'[r] = c /\ \A q \in Req \ {r} : call'[q] = call[q]
  BY <1>7, <1>10, <1>12, <1>13, CallsKept DEF IInv
<1>15. PICK s : s = sessions[p] /\ s \in Seq(UserId)
  BY DEF IInv, TypeOK
<1>16. /\ sessions' \in [Pending -> Seq(UserId)] /\ sessions'[p] = Append(s, b.user)
       /\ \A q \in Pending \ {p} : sessions'[q] = sessions[q]
  BY <1>4, <1>7, <1>15 DEF IInv, TypeOK
<1>17. TypeOK'
  BY <1>7, <1>14, <1>16 DEF IInv, TypeOK
<1>18. LoginOf(p) /\ For(r, p) /\ Settles(call[r]) /\ call[r].pc # "dropDone"
  BY <1>1, <1>2, <1>3 DEF IInv, LoginsInv, For, Settles, Settled
<1>19. /\ \A q \in Req : For(q, p)' => For(q, p)
       /\ \A q \in Req : For(q, p)' /\ Settles(call[q])' => q # r /\ Settles(call[q])
       /\ \A q \in Req : For(q, p)' /\ Writes(call[q])' => q # r /\ Writes(call[q])
  BY <1>11, <1>14, <1>18 DEF For, Settles, Writes, Lookup, Settled
<1>20. LoginOf(p)'
  <2>1. RecordOf(p)'
    BY <1>4, <1>7, <1>18 DEF LoginOf, RecordOf, Same
  <2>2. CountOf(p)'
    <3> SUFFICES ASSUME p \notin disturbed PROVE
          /\ \A q, t \in Req : q # t => ~(For(q, p)' /\ For(t, p)')
          /\ guesses[p] <= MaxAttempts
          /\ Counted(p)'
          /\ \A q \in Req : For(q, p)' /\ Writes(call[q])' => call'[q].pending.attempts = guesses[p]
      BY <1>7 DEF CountOf
    <3>1. /\ \A q, t \in Req : q # t => ~(For(q, p) /\ For(t, p))
          /\ guesses[p] <= MaxAttempts
      BY <1>18 DEF LoginOf, CountOf
    <3>2. \A q \in Req : For(q, p) => call[q].pc \notin {"bump", "dropFailed"}
      BY <1>1, <1>2, <1>18, <3>1
    <3>3. Counted(p)
      BY <1>18, <3>2 DEF LoginOf, CountOf
    <3> QED BY <1>7, <1>14, <1>18, <1>19, <3>1, <3>3 DEF Counted
  <2>3. ChallengeOf(p)'
    <3> SUFFICES ASSUME logins[p].kind = "totp_challenge" PROVE
          /\ Len(sessions'[p]) <= 1
          /\ p \notin challenges
          /\ \A q \in Req : ~(For(q, p)' /\ Settles(call[q])')
      BY <1>7 DEF ChallengeOf
    <3>1. s = <<>> /\ p \notin challenges /\ \A q \in Req \ {r} : ~(For(q, p) /\ Settles(call[q]))
      BY <1>4, <1>15, <1>18 DEF LoginOf, ChallengeOf
    <3>2. Len(sessions'[p]) <= 1
      BY <1>4, <1>16, <3>1
    <3> QED BY <1>19, <3>1, <3>2
  <2>4. EnrolmentOf(p)'
    <3> SUFFICES ASSUME logins[p].kind = "totp_setup", p \notin disturbed PROVE
          /\ Len(sessions'[p]) <= 1
          /\ mfaPending[p] = Absent
          /\ \A q \in Req : For(q, p)' => call'[q].pc \in {"csrf", "load"} \cup Answers
      BY <1>7 DEF EnrolmentOf
    <3>1. s = <<>> /\ mfaPending[p] = Absent
      BY <1>1, <1>2, <1>4, <1>15, <1>18 DEF LoginOf, EnrolmentOf, Answers
    <3>2. Len(sessions'[p]) <= 1
      BY <1>4, <1>16, <3>1
    <3>3. ASSUME NEW q \in Req, For(q, p)' PROVE call'[q].pc = "consume"
      <4>1. q = r
        BY <1>18, <1>19, <3>3 DEF LoginOf, CountOf
      <4> QED BY <1>10, <1>14, <3>3, <4>1 DEF For
    <3> QED BY <3>1, <3>2, <3>3 DEF Answers
  <2>5. EarnedOf(p)'
    <3> SUFFICES ASSUME NEW i \in DOMAIN Append(s, b.user)
                 PROVE  /\ p \in proved /\ Append(s, b.user)[i] \in mfaMethods
                        /\ users[Append(s, b.user)[i]] # Absent
                        /\ users[Append(s, b.user)[i]].sub = logins[p].person
      BY <1>7, <1>16 DEF EarnedOf
    <3>1. i \in DOMAIN s \/ Append(s, b.user)[i] = b.user
      BY <1>4, <1>15
    <3>2. CASE i \in DOMAIN s
      <4>1. Append(s, b.user)[i] = s[i]
        BY <1>4, <1>15, <3>2
      <4> QED BY <1>15, <1>18, <3>2, <4>1 DEF LoginOf, EarnedOf
    <3>3. CASE Append(s, b.user)[i] = b.user
      BY <1>4, <3>3
    <3> QED BY <3>1, <3>2, <3>3
  <2> QED BY <2>1, <2>2, <2>3, <2>4, <2>5 DEF LoginOf
<1>21. ASSUME NEW q \in Pending \ {p} PROVE LoginOf(q)'
  <2>1. LoginKept(q)
    BY <1>7, <1>16 DEF LoginKept, RecordKept, Same
  <2>2. ~For(r, q) /\ c.mid # q
    BY <1>1, <1>3, <1>10 DEF For
  <2> QED BY <1>7, <1>10, <1>12, <2>1, <2>2, LoginAside DEF IInv, LoginsInv
<1>22. RowsInv' /\ RequestsInv'
  BY <1>7, <1>10, <1>11, RowsKept, RequestsKept DEF IInv, Owns
<1>23. \A q \in Pending : LoginOf(q)'
  BY <1>20, <1>21
<1> QED
  BY <1>7, <1>10, <1>12, <1>13, <1>17, <1>22, <1>23, AssembleStep

LEMMA ConsumePendingAuthorizationStep ==
  ASSUME IInv, NEW r \in Req, ConsumePendingAuthorization(r) PROVE IInv'
<1>1. PICK b : b = call[r] /\ b \in Calls /\ Placed(b) /\ Grounded(b)
  BY CallFacts
<1>2. b.pc = "consume" /\ Well
  BY <1>1 DEF ConsumePendingAuthorization
<1>3. CASE b.rid \notin requests
  <2>1. Finish(r)
    BY <1>1, <1>3 DEF ConsumePendingAuthorization
  <2> QED BY <1>1, <1>2, <2>1, FinishStep
<1>4. CASE b.rid \in requests
  <2>1. PICK c : c = [b EXCEPT !.pc = "resume"]
    OBVIOUS
  <2>2. /\ requests' = requests \ {b.rid} /\ Moves(r, c) /\ left' = left
        /\ UNCHANGED <<tables, mfaPending, provider, history>>
    BY <1>1, <1>4, <2>1 DEF ConsumePendingAuthorization, Moves
  <2>3. c \in Calls /\ c.pc = "resume" /\ c.kind = b.kind /\ c.mid = b.mid /\ c.rid = b.rid
    BY <1>1, <2>1, SetPc DEF Points
  <2>4. b.mid \in Pending /\ b.rid \in Rid /\ b.kind \in {"challenge", "setup"}
    BY <1>1, <1>2 DEF Placed, Answers
  <2>5. Placed(c) /\ Grounded(c)
    BY <1>1, <1>2, <2>3, <2>4 DEF Placed, Grounded, Fits, Held, Lookup, Settled, Answers
  <2>6. Grows
    BY <2>2, GrowsIfUnchanged
  <2>7. Grounded(c)'
    BY <2>3, <2>5, <2>6, GroundedKept DEF IInv
  <2>8. call' \in [Req -> Calls] /\ call'[r] = c /\ \A q \in Req \ {r} : call'[q] = call[q]
    BY <2>2, <2>3, <2>5, <2>6, <2>7, CallsKept DEF IInv
  <2>9. TypeOK'
    BY <1>2, <2>2, <2>8 DEF IInv, TypeOK
  <2>10. Tame(r, c, c.mid)
    BY <1>1, <1>2, <2>3 DEF Tame, For, Settles, Writes, Lookup, Settled, Answers
  <2>11. RowsInv'
    BY <2>2, <2>3, RowsKept DEF IInv
  <2>12. RequestsInv'
    <3>1. answered[b.rid] = 0 /\ AnsweredOnce'
      BY <1>4, <2>2, <2>4 DEF IInv, RequestsInv, AnsweredOnce
    <3>2. \A q \in Req \ {r} : Owns(call[q])' => Owns(call[q]) /\ call'[q].rid = call[q].rid /\ call[q].rid # b.rid
      BY <1>4, <2>8 DEF Owns, IInv, RequestsInv
    <3>3. ASSUME NEW q \in Req, Owns(call[q])'
          PROVE  /\ call'[q].rid \notin requests' /\ answered'[call'[q].rid] = 0
                 /\ \A t \in Req \ {q} : ~(Owns(call[t])' /\ call'[t].rid = call'[q].rid)
      <4>1. CASE q = r
        BY <2>2, <2>3, <2>8, <3>1, <3>2, <4>1
      <4>2. CASE q # r
        <5>1. /\ call[q].rid \notin requests /\ answered[call[q].rid] = 0
              /\ \A t \in Req \ {q} : ~(Owns(call[t]) /\ call[t].rid = call[q].rid)
          BY <3>2, <3>3, <4>2 DEF IInv, RequestsInv
        <5> QED BY <2>2, <2>3, <2>8, <3>2, <3>3, <4>2, <5>1
      <4> QED BY <4>1, <4>2
    <3> QED BY <3>1, <3>3 DEF RequestsInv
  <2> QED BY <1>1, <1>2, <2>2, <2>3, <2>5, <2>6, <2>7, <2>9, <2>10, <2>11, <2>12, ForwardStep
<1> QED
  BY <1>3, <1>4

LEMMA ResumePendingAuthorizationStep ==
  ASSUME IInv, NEW r \in Req, ResumePendingAuthorization(r) PROVE IInv'
<1>1. PICK b : b = call[r] /\ b \in Calls /\ Placed(b) /\ Grounded(b)
  BY CallFacts
<1>2. /\ b.pc = "resume" /\ b.rid \in Rid /\ answered' = [answered EXCEPT ![b.rid] = @ + 1]
      /\ Moves(r, Idle) /\ left' = left /\ Well
      /\ UNCHANGED <<tables, stores, provider, logins, proved, guesses, sessions, disturbed, raced>>
  BY <1>1 DEF ResumePendingAuthorization, Placed, Answers, Moves
<1>3. Grows
  BY <1>2, GrowsIfUnchanged
<1>4. Grounded(Idle)'
  BY <1>3, IdleFacts, IdleIsPlaced, GroundedKept DEF IInv
<1>5. call' \in [Req -> Calls] /\ call'[r] = Idle /\ \A q \in Req \ {r} : call'[q] = call[q]
  BY <1>2, <1>3, <1>4, IdleFacts, IdleIsPlaced, CallsKept DEF IInv
<1>6. Owns(b) /\ b.rid \notin requests /\ answered[b.rid] = 0
      /\ \A q \in Req \ {r} : ~(Owns(call[q]) /\ call[q].rid = b.rid)
  <2>1. Owns(b)
    BY <1>2 DEF Owns
  <2> QED BY <1>1, <2>1 DEF IInv, RequestsInv
<1>7. /\ answered' \in [Rid -> Nat] /\ answered'[b.rid] = 1
      /\ \A q \in Rid \ {b.rid} : answered'[q] = answered[q]
  BY <1>2, <1>6 DEF IInv, TypeOK
<1>8. TypeOK'
  BY <1>2, <1>5, <1>7 DEF IInv, TypeOK
<1>9. RequestsInv'
  <2>1. AnsweredOnce'
    BY <1>2, <1>6, <1>7 DEF IInv, RequestsInv, AnsweredOnce
  <2>2. ASSUME NEW q \in Req, Owns(call[q])'
        PROVE  /\ call'[q].rid \notin requests' /\ answered'[call'[q].rid] = 0
               /\ \A t \in Req \ {q} : ~(Owns(call[t])' /\ call'[t].rid = call'[q].rid)
    <3>1. q # r /\ call'[q] = call[q] /\ Owns(call[q]) /\ call[q].rid # b.rid
      BY <1>5, <1>6, <2>2, IdleFacts DEF Owns
    <3>2. /\ call[q].rid \notin requests /\ answered[call[q].rid] = 0
          /\ \A t \in Req \ {q} : ~(Owns(call[t]) /\ call[t].rid = call[q].rid)
      BY <3>1 DEF IInv, RequestsInv
    <3>3. call[q].rid \in Rid
      <4>1. PICK d : d = call[q] /\ Placed(d) /\ d.pc \in {"storeRequest", "resume"}
        BY <3>1, CallFacts DEF Owns
      <4> QED BY <4>1 DEF Placed, Answers
    <3>4. \A t \in Req \ {q} : Owns(call[t])' => Owns(call[t]) /\ call'[t] = call[t]
      BY <1>5, IdleFacts DEF Owns
    <3> QED BY <1>2, <1>7, <3>1, <3>2, <3>3, <3>4
  <2> QED BY <2>1, <2>2 DEF RequestsInv
<1>10. RowsInv'
  BY <1>2, IdleFacts, RowsKept DEF IInv
<1>11. Idle.mid \notin Pending
  BY IdleFacts, Constants
<1> QED
  BY <1>1, <1>2, <1>3, <1>4, <1>8, <1>9, <1>10, <1>11, IdleFacts, IdleIsPlaced, ForwardStep


-----------------------------------------------------------------------------
(* Steps that change the users table *)

LEMMA LinkCognitoSubStep == ASSUME IInv, NEW r \in Req, LinkCognitoSub(r) PROVE IInv'
<1>1. PICK b : b = call[r] /\ b \in Calls /\ Placed(b) /\ Grounded(b)
  BY CallFacts
<1>2. b.pc = "link" /\ Well
  BY <1>1 DEF LinkCognitoSub
<1>3. PICK u \in UserId : u = b.user
  BY <1>1, <1>2 DEF Placed
<1>4. PICK x \in Person : x = b.sub
  BY <1>1, <1>2 DEF Placed, Lookup
<1>5. /\ users[u] # Absent /\ b.mid \in Pending /\ b.kind \in {"challenge", "setup"} /\ b.mid \in proved
      /\ Fits(b) /\ x = logins[b.mid].person /\ logins[b.mid] # Absent
  BY <1>1, <1>2, <1>3, <1>4 DEF Placed, Grounded, Lookup
<1>6. CASE Finish(r)
  BY <1>1, <1>2, <1>6, FinishStep
<1>7. CASE ~Finish(r)
  <2>1. PICK c : c = Resolved(b, u, users[u].active)
    OBVIOUS
  <2>2. /\ users[u].sub = NoSub /\ BySub(x) = {}
        /\ users' = [users EXCEPT ![u].sub = x] /\ Moves(r, c) /\ left' = left
        /\ UNCHANGED <<mfaMethods, members, stores, provider, history>>
    BY <1>1, <1>3, <1>4, <1>7, <2>1 DEF LinkCognitoSub, Moves
  <2>3. PICK row : row = users[u] /\ row \in Users
    BY <1>5 DEF IInv, TypeOK
  <2>4. PICK new : new = [row EXCEPT !.sub = x]
    OBVIOUS
  <2>5. new \in Users /\ new.sub = x /\ new.email = row.email /\ new # Absent
    <3>1. new \in Users /\ new.sub = x /\ new.email = row.email
      BY <2>3, <2>4 DEF Users, Subs
    <3> QED BY <3>1, Constants
  <2>6. users' = [users EXCEPT ![u] = new]
    BY <2>2, <2>3, <2>4
  <2>7. /\ users' \in [UserId -> Users \cup {Absent}] /\ users'[u] = new
        /\ \A v \in UserId \ {u} : users'[v] = users[v]
    BY <2>5, <2>6 DEF IInv, TypeOK
  <2>8. Grows
    BY <2>2, <2>3, <2>5, <2>7 DEF Grows, Present
  <2>9. \/ c = Idle
        \/ c \in Calls /\ c.pc = "recordMethod" /\ c.user = u /\ c.mid = b.mid /\ c.kind = b.kind /\ c.sub = x
    <3>1. users[u].active \in BOOLEAN
      BY <2>3 DEF Users
    <3> QED BY <1>1, <1>4, <2>1, <3>1, ResolvedFacts
  <2>10. /\ c \in Calls /\ Placed(c) /\ Grounded(c)' /\ c.pc # "create" /\ ~Owns(c)
         /\ c.mid \in Pending => c.mid = b.mid /\ c.pc = "recordMethod"
    <3>1. CASE c = Idle
      <4>1. Grounded(Idle)'
        BY <2>8, IdleFacts, IdleIsPlaced, GroundedKept DEF IInv
      <4> QED BY <3>1, <4>1, IdleFacts, IdleIsPlaced, Constants DEF Owns
    <3>2. CASE c # Idle
      <4>1. c \in Calls /\ c.pc = "recordMethod" /\ c.user = u /\ c.mid = b.mid /\ c.kind = b.kind
        BY <2>9, <3>2
      <4>2. Placed(c)
        BY <1>5, <4>1 DEF Placed, Held, Lookup, Settled, Answers
      <4>3. Grounded(c)'
        BY <1>5, <2>2, <2>5, <2>7, <4>1 DEF Grounded, Fits, Held, Lookup, Settled, Answers
      <4> QED BY <4>1, <4>2, <4>3 DEF Owns
    <3> QED BY <3>1, <3>2
  <2>11. call' \in [Req -> Calls] /\ call'[r] = c /\ \A q \in Req \ {r} : call'[q] = call[q]
    BY <2>2, <2>8, <2>10, CallsKept DEF IInv
  <2>12. TypeOK'
    BY <1>2, <2>2, <2>7, <2>11 DEF IInv, TypeOK
  <2>13. c.mid \in Pending => Tame(r, c, c.mid)
    BY <1>1, <1>2, <2>2, <2>10, Onward DEF For, Settles, Lookup, Settled
  <2>14. RowsInv'
    <3>1. \A v \in UserId : (Present(v)' <=> Present(v)) /\ Mailbox(v)' = Mailbox(v)
      BY <2>3, <2>5, <2>7, <1>5 DEF Present, Mailbox
    <3>2. \A v \in UserId \ {u} : Present(v) => users[v].sub # x
      BY <2>2 DEF BySub, Rows, Present
    <3>3. ASSUME NEW v \in UserId, NEW w \in UserId, v # w, Present(v)', Present(w)'
          PROVE  /\ Mailbox(v)' = Mailbox(w)' => Mailbox(v)' \in raced'
                 /\ users'[v].sub # users'[w].sub \/ users'[v].sub = NoSub
      <4>1. Mailbox(v) = Mailbox(w) => Mailbox(v) \in raced
        BY <3>1, <3>3 DEF IInv, RowsInv
      <4>2. users[v].sub # users[w].sub \/ users[v].sub = NoSub
        BY <3>1, <3>3 DEF IInv, RowsInv
      <4>3. users'[v].sub # users'[w].sub \/ users'[v].sub = NoSub
        BY <2>5, <2>7, <3>1, <3>2, <3>3, <4>2
      <4> QED BY <2>2, <3>1, <4>1, <4>3
    <3>4. ASSUME NEW q \in Req, call'[q].pc = "create", NEW v \in UserId, Present(v)',
                 Mailbox(v)' = Lower[call'[q].email]
          PROVE  Mailbox(v)' \in raced'
      <4>1. q # r /\ call[q].pc = "create" /\ call'[q] = call[q]
        BY <2>10, <2>11, <3>4
      <4> QED BY <2>2, <3>1, <3>4, <4>1 DEF IInv, RowsInv
    <3> QED BY <3>3, <3>4 DEF RowsInv
  <2>15. RequestsInv'
    BY <2>2, <2>10, RequestsKept DEF IInv
  <2> QED BY <1>1, <1>2, <2>2, <2>8, <2>10, <2>12, <2>13, <2>14, <2>15, ForwardStep
<1> QED
  BY <1>6, <1>7

LEMMA CreateUserStep == ASSUME IInv, NEW r \in Req, CreateUser(r) PROVE IInv'
<1>1. PICK b : b = call[r] /\ b \in Calls /\ Placed(b) /\ Grounded(b)
  BY CallFacts
<1>2. b.pc = "create" /\ Well
  BY <1>1 DEF CreateUser
<1>3. b.kind \in {"challenge", "setup", "invite"} /\ b.sub \in Subs /\ b.email \in Email
  BY <1>1, <1>2 DEF Placed, Calls
<1>4. b.kind # "invite" => /\ b.mid \in Pending /\ b.sub \in Person /\ b.mid \in proved /\ Fits(b)
                           /\ b.sub = logins[b.mid].person /\ logins[b.mid] # Absent
  BY <1>1, <1>2, <1>3 DEF Placed, Grounded
<1>5. PICK rivals \in SUBSET (Req \ {r}) :
        rivals = {t \in Req \ {r} : call[t].pc = "create" /\ Lower[call[t].email] = Lower[b.email]}
  OBVIOUS
<1>6. CASE \E u \in Rows : users[u].email = b.email \/ (b.sub # NoSub /\ users[u].sub = b.sub)
  <2>1. Finish(r)
    BY <1>1, <1>6 DEF CreateUser
  <2> QED BY <1>1, <1>2, <2>1, FinishStep
<1>7. CASE ~\E u \in Rows : users[u].email = b.email \/ (b.sub # NoSub /\ users[u].sub = b.sub)
  <2>1. PICK u \in UserId \ Rows :
          /\ users' = [users EXCEPT ![u] = [sub |-> b.sub, email |-> b.email, active |-> TRUE]]
          /\ raced' = raced \cup {Lower[call[t].email] : t \in rivals}
          /\ Go(r, IF b.kind = "invite" THEN [b EXCEPT !.pc = "upsert", !.user = u] ELSE Resolved(b, u, TRUE))
          /\ UNCHANGED <<mfaMethods, members, stores, provider, logins, proved, guesses,
                         sessions, answered, disturbed>>
    BY <1>1, <1>5, <1>7 DEF CreateUser
  <2>2. PICK c : c = IF b.kind = "invite" THEN [b EXCEPT !.pc = "upsert", !.user = u] ELSE Resolved(b, u, TRUE)
    OBVIOUS
  <2>3. Moves(r, c) /\ left' = left
    BY <2>1, <2>2 DEF Moves
  <2>4. PICK row : row = [sub |-> b.sub, email |-> b.email, active |-> TRUE]
    OBVIOUS
  <2>5. row \in Users /\ row.sub = b.sub /\ row.email = b.email /\ row # Absent
    <3>1. row \in Users /\ row.sub = b.sub /\ row.email = b.email
      BY <1>3, <2>4 DEF Users
    <3> QED BY <3>1, Constants
  <2>6. /\ users' \in [UserId -> Users \cup {Absent}] /\ users'[u] = row
        /\ \A v \in UserId \ {u} : users'[v] = users[v]
    BY <2>1, <2>4, <2>5 DEF IInv, TypeOK
  <2>7. ~Present(u) /\ Present(u)' /\ \A v \in UserId \ {u} : Present(v)' <=> Present(v)
    BY <2>1, <2>5, <2>6 DEF Present, Rows
  <2>8. Grows
    BY <2>1, <2>6, <2>7 DEF Grows
  <2>9. b.kind = "invite" => c \in Calls /\ c.pc = "upsert" /\ c.user = u /\ c.mid = b.mid
                             /\ c.kind = b.kind /\ c.sub = b.sub
    <3> SUFFICES ASSUME b.kind = "invite"
                 PROVE  c \in Calls /\ c.pc = "upsert" /\ c.user = u /\ c.mid = b.mid /\ c.kind = b.kind
                        /\ c.sub = b.sub
      OBVIOUS
    <3>1. PICK d : d = [b EXCEPT !.pc = "upsert"]
      OBVIOUS
    <3>2. d \in Calls /\ d.pc = "upsert" /\ d.mid = b.mid /\ d.kind = b.kind /\ d.sub = b.sub
      BY <1>1, <3>1, SetPc DEF Points
    <3>3. c = [d EXCEPT !.user = u] /\ u \in UserId \cup {NoUser}
      BY <2>2, <3>1
    <3> QED BY <3>2, <3>3, SetUser
  <2>10. b.kind # "invite" => /\ c \in Calls /\ c.pc = "recordMethod" /\ c.user = u /\ c.mid = b.mid
                              /\ c.kind = b.kind
    <3>1. b.kind # "invite" => c = [b EXCEPT !.pc = "recordMethod", !.user = u]
      BY <2>2 DEF Resolved
    <3>2. PICK d : d = [b EXCEPT !.pc = "recordMethod"]
      OBVIOUS
    <3>3. d \in Calls /\ d.pc = "recordMethod" /\ d.mid = b.mid /\ d.kind = b.kind
      BY <1>1, <3>2, SetPc DEF Points
    <3>4. b.kind # "invite" => c = [d EXCEPT !.user = u]
      BY <3>1, <3>2
    <3> QED BY <3>3, <3>4, SetUser
  <2>11. c \in Calls /\ c.mid = b.mid /\ c.kind = b.kind /\ c.pc \in {"upsert", "recordMethod"} /\ c.user = u
    BY <2>9, <2>10
  <2>12. Placed(c)
    BY <1>1, <1>2, <1>3, <2>9, <2>10 DEF Placed, Held, Lookup, Settled, Answers
  <2>13. Grounded(c)'
    <3>1. CASE b.kind = "invite"
      <4>1. b.mid \notin Pending
        BY <1>1, <3>1 DEF Placed
      <4> QED BY <2>9, <3>1, <4>1 DEF Grounded, Held, Lookup, Settled, Answers
    <3>2. CASE b.kind # "invite"
      BY <1>4, <2>1, <2>5, <2>6, <2>10, <3>2 DEF Grounded, Fits, Held, Lookup, Settled, Answers
    <3> QED BY <3>1, <3>2
  <2>14. call' \in [Req -> Calls] /\ call'[r] = c /\ \A q \in Req \ {r} : call'[q] = call[q]
    BY <2>3, <2>8, <2>11, <2>12, <2>13, CallsKept DEF IInv
  <2>15. raced' \subseteq {Lower[e] : e \in Email}
    <3>1. \A t \in rivals : call[t].email \in Email
      BY DEF IInv, TypeOK, Calls
    <3> QED BY <2>1, <3>1 DEF IInv, TypeOK
  <2>16. TypeOK'
    BY <1>2, <2>1, <2>3, <2>6, <2>14, <2>15 DEF IInv, TypeOK
  <2>17. c.mid \in Pending => Tame(r, c, c.mid)
    <3> SUFFICES ASSUME c.mid \in Pending PROVE Tame(r, c, c.mid)
      OBVIOUS
    <3>1. c.pc = "recordMethod"
      BY <1>1, <2>9, <2>10, <2>11 DEF Placed
    <3> QED BY <1>1, <1>2, <2>1, <2>11, <3>1, Onward DEF For, Settles, Settled
  <2>18. RowsInv'
    <3>1. /\ Mailbox(u)' = Lower[b.email] /\ users'[u].sub = b.sub
          /\ \A v \in UserId \ {u} : Mailbox(v)' = Mailbox(v) /\ users'[v] = users[v]
      BY <2>5, <2>6 DEF Mailbox
    <3>2. \A v \in UserId : Present(v) /\ Mailbox(v) = Lower[b.email] => Mailbox(v) \in raced
      BY <1>1, <1>2 DEF IInv, RowsInv
    <3>3. \A v \in UserId : Present(v) => users[v].sub # b.sub \/ b.sub = NoSub
      BY <1>7 DEF Rows, Present
    <3>4. raced \subseteq raced'
      BY <2>1
    <3>5. ASSUME NEW v \in UserId, NEW w \in UserId, v # w, Present(v)', Present(w)'
          PROVE  /\ Mailbox(v)' = Mailbox(w)' => Mailbox(v)' \in raced'
                 /\ users'[v].sub # users'[w].sub \/ users'[v].sub = NoSub
      <4>1. CASE v # u /\ w # u
        BY <2>7, <3>1, <3>4, <3>5, <4>1 DEF IInv, RowsInv
      <4>2. CASE v = u
        BY <2>7, <3>1, <3>2, <3>3, <3>4, <3>5, <4>2
      <4>3. CASE w = u
        BY <2>7, <3>1, <3>2, <3>3, <3>4, <3>5, <4>3
      <4> QED BY <4>1, <4>2, <4>3
    <3>6. ASSUME NEW q \in Req, call'[q].pc = "create", NEW v \in UserId, Present(v)',
                 Mailbox(v)' = Lower[call'[q].email]
          PROVE  Mailbox(v)' \in raced'
      <4>1. q # r /\ call[q].pc = "create" /\ call'[q] = call[q]
        BY <2>11, <2>14, <3>6
      <4>2. CASE v # u
        BY <2>7, <3>1, <3>4, <3>6, <4>1, <4>2 DEF IInv, RowsInv
      <4>3. CASE v = u
        <5>1. q \in rivals /\ Mailbox(v)' = Lower[call[q].email]
          BY <1>5, <3>1, <3>6, <4>1, <4>3
        <5> QED BY <2>1, <5>1
      <4> QED BY <4>2, <4>3
    <3> QED BY <3>5, <3>6 DEF RowsInv
  <2>19. RequestsInv'
    BY <2>1, <2>3, <2>11, RequestsKept DEF IInv, Owns
  <2> QED BY <1>1, <1>2, <2>1, <2>3, <2>8, <2>11, <2>12, <2>13, <2>16, <2>17, <2>18, <2>19, ForwardStep
<1> QED
  BY <1>6, <1>7


-----------------------------------------------------------------------------
(* Cognito *)

Account == [issued : Secrets, candidate : Secrets, verified : Secrets, enrolled : Secrets]

LEMMA LostFacts ==
  ASSUME NEW a, NEW b, NEW o, o \in Lost(a, b, TRUE) \/ o \in Lost(a, b, FALSE)
  PROVE  o.answer = "unavailable" /\ o.account \in {a, b}
<1>1. MapMfaError("TimeoutError") = "unavailable"
  BY DEF MapMfaError
<1>2. \/ o = Faulty(Outcome("unavailable", a, TRUE))
      \/ o = Faulty(Outcome("unavailable", b, TRUE))
      \/ o = Faulty(Outcome("unavailable", b, FALSE))
  BY <1>1 DEF Lost
<1> QED
  BY <1>2 DEF Outcome, Faulty

LEMMA AssociateFacts ==
  ASSUME NEW a \in Account, NEW o \in AssociateOutcomes(a), o.account.issued <= MaxSecrets
  PROVE  o.account \in Account
<1>1. o.account = a \/ o.account = Associated(a)
  <2>1. CASE o = Outcome("secret", Associated(a), FALSE)
    BY <2>1 DEF Outcome
  <2>2. CASE o \in Lost(a, Associated(a), FALSE)
    BY <2>2, LostFacts
  <2> QED BY <2>1, <2>2 DEF AssociateOutcomes
<1>2. PICK b : b = Associated(a)
  OBVIOUS
<1>3. b = [issued |-> a.issued + 1, candidate |-> a.issued + 1, verified |-> a.verified, enrolled |-> a.enrolled]
  BY <1>2 DEF Associated, Account
<1>4. b.issued <= MaxSecrets => b \in Account
  BY <1>3, Constants DEF Account, Secrets
<1> QED
  BY <1>1, <1>2, <1>4

LEMMA VerifyFacts ==
  ASSUME NEW a \in Account, NEW code \in Secrets, NEW o \in VerifyOutcomes(a, code)
  PROVE  o.account \in Account
<1>1. o.account = a \/ o.account = Verified(a, code)
  <2>1. CASE \E e : o = Outcome(e, a, FALSE)
    BY <2>1 DEF Outcome
  <2>2. CASE o = Outcome("verified", Verified(a, code), FALSE)
    BY <2>2 DEF Outcome
  <2>3. CASE o \in Lost(a, a, FALSE)
    BY <2>3, LostFacts
  <2>4. CASE o \in Lost(a, Verified(a, code), FALSE)
    BY <2>4, LostFacts
  <2> QED BY <2>1, <2>2, <2>3, <2>4 DEF VerifyOutcomes
<1>2. Verified(a, code) \in Account
  BY DEF Verified, Account
<1> QED
  BY <1>1, <1>2

LEMMA EnableFacts ==
  ASSUME NEW a \in Account, NEW o \in EnableOutcomes(a)
  PROVE  o.account \in Account
<1>1. o.account = a \/ o.account = Enabled(a)
  <2>1. CASE \E e : o = Outcome(e, a, FALSE)
    BY <2>1 DEF Outcome
  <2>2. CASE o = Outcome("enabled", Enabled(a), FALSE)
    BY <2>2 DEF Outcome
  <2>3. CASE o \in Lost(a, Enabled(a), FALSE)
    BY <2>3, LostFacts
  <2> QED BY <2>1, <2>2, <2>3 DEF EnableOutcomes
<1>2. 0 \in Secrets
  BY Constants DEF Secrets
<1>3. Enabled(a) \in Account
  BY <1>2 DEF Enabled, Account
<1> QED
  BY <1>1, <1>3

\* A code is accepted only while the challenge is open, and ends it; it is called wrong
\* only when it is.
LEMMA RespondFacts ==
  ASSUME NEW a, NEW p, NEW code, NEW o \in RespondToTotpOutcomes(a, p \in challenges, code)
  PROVE  /\ o.answer = "authenticated" => p \in challenges /\ Matches(a, code) /\ ~o.open
         /\ o.answer = "code_mismatch" => p \in challenges /\ ~Matches(a, code)
<1>1. MapMfaError("NotAuthorizedException") = "session_expired" /\ MapMfaError("CodeMismatchException") = "code_mismatch"
  BY DEF MapMfaError
<1>2. CASE p \notin challenges
  <2>1. o = Outcome("session_expired", a, FALSE)
    BY <1>1, <1>2 DEF RespondToTotpOutcomes
  <2> QED BY <2>1 DEF Outcome
<1>3. CASE p \in challenges /\ ~Matches(a, code)
  <2>1. o = Outcome("code_mismatch", a, TRUE) \/ o \in Lost(a, a, TRUE)
    BY <1>1, <1>3 DEF RespondToTotpOutcomes
  <2>2. o = Outcome("code_mismatch", a, TRUE) => o.answer # "authenticated"
    BY DEF Outcome
  <2>3. o.answer # "authenticated"
    BY <2>1, <2>2, LostFacts
  <2> QED BY <1>3, <2>3
<1>4. CASE p \in challenges /\ Matches(a, code)
  <2>1. \/ o = Outcome("authenticated", a, FALSE)
        \/ o = Faulty(Outcome("unavailable", a, FALSE))
        \/ o \in Lost(a, a, FALSE)
    BY <1>4 DEF RespondToTotpOutcomes, ToAuthenticated
  <2>2. o = Outcome("authenticated", a, FALSE) => o.answer # "code_mismatch" /\ ~o.open
    BY DEF Outcome
  <2>3. o = Faulty(Outcome("unavailable", a, FALSE)) => o.answer = "unavailable"
    BY DEF Outcome, Faulty
  <2>4. o.answer # "code_mismatch" /\ (o.answer = "authenticated" => ~o.open)
    BY <2>1, <2>2, <2>3, LostFacts
  <2> QED BY <1>4, <2>4
<1> QED
  BY <1>2, <1>3, <1>4


-----------------------------------------------------------------------------
(* mfa.ts *)

LEMMA AccountOf == ASSUME IInv, NEW x \in Person PROVE cognito[x] \in Account
  BY DEF IInv, TypeOK, Account

\* Cognito changes an account, and may have accepted a code of the login.
LEMMA ProviderStep ==
  ASSUME IInv, NEW r \in Req, NEW x \in Person, NEW a \in Account, cognito' = [cognito EXCEPT ![x] = a],
         call[r].pc \in {"associate", "verify", "enable"},
         NEW c \in Calls, Placed(c), Grounded(c)', Moves(r, c), left' = left, Well \/ Fault,
         c = Idle \/ (c.mid = call[r].mid /\ c.pc \in {"saveSetup", "enable", "dropFailed", "dropDone"}),
         Writes(c) => Writes(call[r]) /\ c.pending.attempts = call[r].pending.attempts,
         proved \subseteq proved', proved' \subseteq Pending,
         UNCHANGED <<tables, stores, challenges, logins, guesses, sessions, answered, disturbed, raced>>
  PROVE  IInv'
<1>1. PICK b : b = call[r] /\ b \in Calls /\ Placed(b) /\ Grounded(b)
  BY CallFacts
<1>2. PICK p \in Pending : p = b.mid
  BY <1>1 DEF Placed
<1>3. /\ For(r, p) /\ logins[p] # Absent /\ logins[p].kind = "totp_setup"
  <2>1. b.kind # "challenge" /\ Fits(b) /\ Same(b.pending, logins[p]) /\ b.pending \in MfaPending
    BY <1>1, <1>2 DEF Placed, Grounded, Held
  <2>2. logins[p] # Absent
    BY <1>1, <1>2 DEF Grounded
  <2>3. logins[p].kind \in {"totp_challenge", "totp_setup"}
    BY <2>2 DEF IInv, TypeOK, MfaPending
  <2> QED BY <1>1, <1>2, <2>1, <2>2, <2>3 DEF For, Fits
<1>4. Grows
  BY DEF Grows, Present
<1>5. call' \in [Req -> Calls]
  BY <1>4, CallsKept DEF IInv
<1>6. cognito' \in [Person -> Account]
  BY DEF IInv, TypeOK, Account
<1>7. TypeOK'
  BY <1>5, <1>6, FaultsStay DEF IInv, TypeOK, Account
<1>8. c.mid \in Pending => c.mid = p
  BY <1>1, <1>2, IdleFacts, Constants
<1>9. c.mid \in Pending => Tame(r, c, p)
  <2> SUFFICES ASSUME c.mid = p PROVE Tame(r, c, p)
    BY <1>8
  <2>1. LoginOf(p) /\ c.pc \in {"saveSetup", "enable", "dropFailed", "dropDone"}
    BY IdleFacts, Constants DEF IInv, LoginsInv
  <2>2. p \notin disturbed => sessions[p] = <<>>
    BY <1>1, <1>3, <2>1 DEF LoginOf, EnrolmentOf, Answers
  <2>3. p \notin disturbed /\ Writes(c) => c.pending.attempts = guesses[p]
    BY <1>3, <2>1 DEF LoginOf, CountOf
  <2>4. Settles(c) => c.pc = "dropDone"
    BY <2>1 DEF Settles, Lookup, Settled
  <2> QED BY <1>3, <2>2, <2>3, <2>4 DEF Tame
<1>10. c.pc # "create" /\ ~Owns(c)
  BY IdleFacts DEF Owns
<1>11. RowsInv' /\ RequestsInv'
  BY <1>10, RowsKept, RequestsKept DEF IInv
<1> QED
  BY <1>1, <1>2, <1>4, <1>7, <1>8, <1>9, <1>11, ForwardStep

LEMMA AssociateSoftwareTokenStep == ASSUME IInv, NEW r \in Req, AssociateSoftwareToken(r) PROVE IInv'
<1>1. PICK b : b = call[r] /\ b \in Calls /\ Placed(b) /\ Grounded(b)
  BY CallFacts
<1>2. b.pc = "associate"
  BY <1>1 DEF AssociateSoftwareToken
<1>3. PICK rec : rec = b.pending /\ rec \in MfaPending
  BY <1>1, <1>2 DEF Placed, Held
<1>4. PICK x \in Person : x = rec.person
  BY <1>3 DEF MfaPending
<1>5. PICK o \in AssociateOutcomes(cognito[x]) :
        /\ o.account.issued <= MaxSecrets /\ Proceed(o)
        /\ cognito' = [cognito EXCEPT ![x] = o.account]
        /\ Go(r, IF o.answer # "secret" THEN Idle
                 ELSE [b EXCEPT !.pc = "saveSetup", !.pending.secret = o.account.issued, !.pending.aged = FALSE])
        /\ UNCHANGED <<tables, stores, challenges, history>>
  BY <1>1, <1>3, <1>4 DEF AssociateSoftwareToken
<1>6. PICK a \in Account : a = o.account
  BY <1>5, AccountOf, AssociateFacts
<1>7. PICK n \in Secrets : n = a.issued
  BY DEF Account
<1>8. PICK fresh : fresh = [rec EXCEPT !.secret = n]
  OBVIOUS
<1>9. PICK new : new = [fresh EXCEPT !.aged = FALSE]
  OBVIOUS
<1>10. fresh \in MfaPending /\ fresh.attempts = rec.attempts /\ Same(fresh, rec)
  BY <1>3, <1>8 DEF MfaPending, Same
<1>11. new \in MfaPending /\ new.attempts = rec.attempts /\ Same(new, rec)
  BY <1>9, <1>10 DEF MfaPending, Same
<1>12. PICK d : d = [b EXCEPT !.pc = "saveSetup"]
  OBVIOUS
<1>14. d \in Calls /\ d.pc = "saveSetup" /\ d.kind = b.kind /\ d.mid = b.mid /\ d.pending = rec
  BY <1>1, <1>3, <1>12, SetPc DEF Points
<1>15. PICK f : f = [d EXCEPT !.pending = fresh]
  OBVIOUS
<1>16. f \in Calls /\ f.pc = "saveSetup" /\ f.kind = b.kind /\ f.mid = b.mid /\ f.pending = fresh
  BY <1>10, <1>14, <1>15, SetPending
<1>17. PICK e : e = [f EXCEPT !.pending = new]
  OBVIOUS
<1>18. e \in Calls /\ e.pc = "saveSetup" /\ e.kind = b.kind /\ e.mid = b.mid /\ e.pending = new
  BY <1>11, <1>16, <1>17, SetPending
<1>19. e = [b EXCEPT !.pc = "saveSetup", !.pending.secret = n, !.pending.aged = FALSE]
  <2>1. [d EXCEPT !.pending.secret = n] = f
    BY <1>8, <1>14, <1>15
  <2>2. [f EXCEPT !.pending.aged = FALSE] = e
    BY <1>9, <1>16, <1>17
  <2> QED BY <1>12, <2>1, <2>2
<1>20. PICK c \in {Idle, e} : Moves(r, c) /\ left' = left
  BY <1>5, <1>6, <1>7, <1>19 DEF Moves
<1>21. c \in Calls /\ Placed(c) /\ Grounded(c)
  <2>1. Placed(e)
    BY <1>1, <1>2, <1>3, <1>11, <1>18 DEF Placed, Held, Lookup, Settled, Answers
  <2>2. Grounded(e)
    BY <1>1, <1>2, <1>3, <1>11, <1>18 DEF Placed, Grounded, Fits, Same, Held, Lookup, Settled, Answers
  <2> QED BY <1>18, <1>20, <2>1, <2>2, IdleFacts, IdleIsPlaced
<1>22. Grounded(c)'
  <2>1. Grows
    BY <1>5, GrowsIfUnchanged
  <2> QED BY <1>21, <2>1, GroundedKept DEF IInv
<1>23. Writes(c) => Writes(call[r]) /\ c.pending.attempts = call[r].pending.attempts
  BY <1>1, <1>2, <1>3, <1>11, <1>18, <1>20, IdleFacts DEF Writes
<1>24. c = Idle \/ (c.mid = call[r].mid /\ c.pc \in {"saveSetup", "enable", "dropFailed", "dropDone"})
  BY <1>1, <1>18, <1>20
<1>25. /\ Well \/ Fault
       /\ proved \subseteq proved' /\ proved' \subseteq Pending
       /\ UNCHANGED <<tables, stores, challenges, logins, guesses, sessions, answered, disturbed, raced>>
       /\ cognito' = [cognito EXCEPT ![x] = a]
  BY <1>5, <1>6 DEF Proceed, IInv, TypeOK
<1> QED
  BY <1>1, <1>2, <1>20, <1>21, <1>22, <1>23, <1>24, <1>25, ProviderStep


LEMMA VerifySoftwareTokenStep == ASSUME IInv, NEW r \in Req, VerifySoftwareToken(r) PROVE IInv'
<1>1. PICK b : b = call[r] /\ b \in Calls /\ Placed(b) /\ Grounded(b)
  BY CallFacts
<1>2. b.pc = "verify" /\ b.code \in Secrets
  BY <1>1 DEF VerifySoftwareToken, Calls
<1>3. PICK rec : rec = b.pending /\ rec \in MfaPending
  BY <1>1, <1>2 DEF Placed, Held
<1>4. PICK x \in Person : x = rec.person
  BY <1>3 DEF MfaPending
<1>5. PICK o \in VerifyOutcomes(cognito[x], b.code) :
        /\ Proceed(o)
        /\ cognito' = [cognito EXCEPT ![x] = o.account]
        /\ Go(r, CASE o.answer = "verified" -> [b EXCEPT !.pc = "enable"]
                   [] o.answer = "code_mismatch" -> Idle
                   [] OTHER -> [b EXCEPT !.pc = "dropFailed"])
        /\ UNCHANGED <<tables, stores, challenges, history>>
  BY <1>1, <1>3, <1>4 DEF VerifySoftwareToken
<1>6. PICK a \in Account : a = o.account
  BY <1>2, <1>5, AccountOf, VerifyFacts
<1>7. PICK d : d = [b EXCEPT !.pc = "enable"]
  OBVIOUS
<1>8. PICK e : e = [b EXCEPT !.pc = "dropFailed"]
  OBVIOUS
<1>9. d \in Calls /\ d.pc = "enable" /\ d.kind = b.kind /\ d.mid = b.mid /\ d.pending = rec
  BY <1>1, <1>3, <1>7, SetPc DEF Points
<1>10. e \in Calls /\ e.pc = "dropFailed" /\ e.kind = b.kind /\ e.mid = b.mid /\ e.pending = rec
  BY <1>1, <1>3, <1>8, SetPc DEF Points
<1>11. PICK c : c = CASE o.answer = "verified" -> d [] o.answer = "code_mismatch" -> Idle [] OTHER -> e
  OBVIOUS
<1>12. c \in {d, Idle, e}
  <2>1. CASE o.answer = "verified"
    BY <1>11, <2>1
  <2>2. CASE o.answer = "code_mismatch"
    BY <1>11, <2>2
  <2>3. CASE o.answer \notin {"verified", "code_mismatch"}
    BY <1>11, <2>3
  <2> QED BY <2>1, <2>2, <2>3
<1>13. Moves(r, c) /\ left' = left
  BY <1>5, <1>7, <1>8, <1>11 DEF Moves
<1>14. c \in Calls /\ Placed(c) /\ Grounded(c)
  <2>1. Placed(d) /\ Placed(e)
    BY <1>1, <1>2, <1>3, <1>9, <1>10 DEF Placed, Held, Lookup, Settled, Answers
  <2>2. Grounded(d) /\ Grounded(e)
    BY <1>1, <1>2, <1>3, <1>9, <1>10 DEF Grounded, Fits, Held, Lookup, Settled, Answers
  <2> QED BY <1>9, <1>10, <1>12, <2>1, <2>2, IdleFacts, IdleIsPlaced
<1>15. Grounded(c)'
  <2>1. Grows
    BY <1>5, GrowsIfUnchanged
  <2> QED BY <1>14, <2>1, GroundedKept DEF IInv
<1>16. ~Writes(c)
  BY <1>9, <1>10, <1>12, IdleFacts DEF Writes
<1>17. c = Idle \/ (c.mid = call[r].mid /\ c.pc \in {"saveSetup", "enable", "dropFailed", "dropDone"})
  BY <1>1, <1>9, <1>10, <1>12
<1>18. /\ Well \/ Fault
       /\ proved \subseteq proved' /\ proved' \subseteq Pending
       /\ UNCHANGED <<tables, stores, challenges, logins, guesses, sessions, answered, disturbed, raced>>
       /\ cognito' = [cognito EXCEPT ![x] = a]
  BY <1>5, <1>6 DEF Proceed, IInv, TypeOK
<1> QED
  BY <1>1, <1>2, <1>13, <1>14, <1>15, <1>16, <1>17, <1>18, ProviderStep

LEMMA EnableTotpStep == ASSUME IInv, NEW r \in Req, EnableTotp(r) PROVE IInv'
<1>1. PICK b : b = call[r] /\ b \in Calls /\ Placed(b) /\ Grounded(b)
  BY CallFacts
<1>2. b.pc = "enable"
  BY <1>1 DEF EnableTotp
<1>3. PICK rec : rec = b.pending /\ rec \in MfaPending
  BY <1>1, <1>2 DEF Placed, Held
<1>4. PICK x \in Person : x = rec.person
  BY <1>3 DEF MfaPending
<1>5. PICK p \in Pending : p = b.mid
  BY <1>1, <1>2 DEF Placed
<1>6. PICK o \in EnableOutcomes(cognito[x]) :
        /\ Proceed(o)
        /\ cognito' = [cognito EXCEPT ![x] = o.account]
        /\ proved' = IF o.answer = "enabled" THEN proved \cup {p} ELSE proved
        /\ Go(r, [b EXCEPT !.pc = IF o.answer = "enabled" THEN "dropDone" ELSE "dropFailed"])
        /\ UNCHANGED <<tables, stores, challenges, logins, guesses, sessions, answered, disturbed, raced>>
  BY <1>1, <1>3, <1>4, <1>5 DEF EnableTotp
<1>7. PICK a \in Account : a = o.account
  BY <1>6, AccountOf, EnableFacts
<1>8. PICK t : t = IF o.answer = "enabled" THEN "dropDone" ELSE "dropFailed"
  OBVIOUS
<1>9. PICK c : c = [b EXCEPT !.pc = t]
  OBVIOUS
<1>10. t \in {"dropDone", "dropFailed"} /\ (t = "dropDone" => p \in proved')
  BY <1>6, <1>8
<1>11. c \in Calls /\ c.pc = t /\ c.kind = b.kind /\ c.mid = b.mid /\ c.pending = rec
  BY <1>1, <1>3, <1>9, <1>10, SetPc DEF Points
<1>12. Moves(r, c) /\ left' = left
  BY <1>6, <1>8, <1>9 DEF Moves
<1>13. Placed(c)
  BY <1>1, <1>2, <1>3, <1>10, <1>11 DEF Placed, Held, Lookup, Settled, Answers
<1>14. Grounded(c)'
  <2>1. logins[p] # Absent /\ Same(rec, logins[p]) /\ Fits(b)
    BY <1>1, <1>2, <1>3, <1>5 DEF Grounded, Held
  <2> QED BY <1>5, <1>6, <1>10, <1>11, <2>1 DEF Grounded, Fits, Same, Held, Lookup, Settled, Answers
<1>15. ~Writes(c)
  BY <1>10, <1>11 DEF Writes
<1>16. c.mid = call[r].mid /\ c.pc \in {"saveSetup", "enable", "dropFailed", "dropDone"}
  BY <1>1, <1>10, <1>11
<1>17. /\ Well \/ Fault
       /\ proved \subseteq proved' /\ proved' \subseteq Pending
       /\ UNCHANGED <<tables, stores, challenges, logins, guesses, sessions, answered, disturbed, raced>>
       /\ cognito' = [cognito EXCEPT ![x] = a]
  BY <1>6, <1>7 DEF Proceed, IInv, TypeOK
<1> QED
  BY <1>1, <1>2, <1>11, <1>12, <1>13, <1>14, <1>15, <1>16, <1>17, ProviderStep

LEMMA RespondToTotpStep == ASSUME IInv, NEW r \in Req, RespondToTotp(r) PROVE IInv'
<1>1. PICK b : b = call[r] /\ b \in Calls /\ Placed(b) /\ Grounded(b)
  BY CallFacts
<1>2. b.pc = "respond" /\ b.kind = "challenge"
  BY <1>1 DEF RespondToTotp, Placed
<1>3. PICK rec : rec = b.pending /\ rec \in MfaPending /\ rec.attempts < MaxAttempts
  BY <1>1, <1>2 DEF Placed, Held
<1>4. PICK x : x = rec.person
  OBVIOUS
<1>5. PICK p \in Pending : p = b.mid
  BY <1>1, <1>2 DEF Placed
<1>6. PICK o \in RespondToTotpOutcomes(cognito[x], p \in challenges, b.code) :
        /\ Proceed(o)
        /\ guesses' = IF p \in challenges /\ ~Matches(cognito[x], b.code)
                      THEN [guesses EXCEPT ![p] = @ + 1] ELSE guesses
        /\ challenges' = IF o.open THEN challenges ELSE challenges \ {p}
        /\ proved' = IF o.answer = "authenticated" THEN proved \cup {p} ELSE proved
        /\ Go(r, CASE o.answer = "authenticated" -> [b EXCEPT !.pc = "dropDone"]
                   [] o.answer = "code_mismatch" -> AfterMismatch(b)
                   [] OTHER -> [b EXCEPT !.pc = "dropFailed"])
        /\ UNCHANGED <<tables, stores, cognito, logins, sessions, answered, disturbed, raced>>
  BY <1>1, <1>3, <1>4, <1>5 DEF RespondToTotp
<1>7. /\ o.answer = "authenticated" => p \in challenges /\ Matches(cognito[x], b.code) /\ ~o.open
      /\ o.answer = "code_mismatch" => p \in challenges /\ ~Matches(cognito[x], b.code)
  BY RespondFacts
<1>8. /\ challenges' \subseteq challenges
      /\ o.answer = "authenticated" => p \in challenges /\ p \notin challenges' /\ guesses' = guesses
      /\ challenges' \in {challenges, challenges \ {p}}
  BY <1>6, <1>7
<1>9. /\ guesses' \in [Pending -> Nat] /\ guesses'[p] \in {guesses[p], guesses[p] + 1}
      /\ o.answer = "code_mismatch" => guesses'[p] = guesses[p] + 1
      /\ \A q \in Pending \ {p} : guesses'[q] = guesses[q]
  BY <1>6, <1>7 DEF IInv, TypeOK
<1>10. PICK d : d = [b EXCEPT !.pc = "dropDone"]
  OBVIOUS
<1>11. PICK e : e = [b EXCEPT !.pc = "dropFailed"]
  OBVIOUS
<1>12. PICK f : f = AfterMismatch(b)
  OBVIOUS
<1>13. d \in Calls /\ d.pc = "dropDone" /\ d.kind = b.kind /\ d.mid = p /\ d.pending = rec
  BY <1>1, <1>3, <1>5, <1>10, SetPc DEF Points
<1>14. e \in Calls /\ e.pc = "dropFailed" /\ e.kind = b.kind /\ e.mid = p /\ e.pending = rec
  BY <1>1, <1>3, <1>5, <1>11, SetPc DEF Points
<1>15. \/ f = e
       \/ /\ f \in Calls /\ f.pc = "bump" /\ f.kind = b.kind /\ f.mid = p /\ f.pending \in MfaPending
          /\ f.pending.attempts = rec.attempts + 1 /\ f.pending.attempts < MaxAttempts /\ Same(f.pending, rec)
  <2>1. CASE rec.attempts + 1 >= MaxAttempts
    BY <1>3, <1>11, <1>12, <2>1 DEF AfterMismatch
  <2>2. CASE ~(rec.attempts + 1 >= MaxAttempts)
    <3>1. PICK m : m = [rec EXCEPT !.attempts = rec.attempts + 1]
      OBVIOUS
    <3>2. rec.attempts \in Nat /\ rec.attempts + 1 < MaxAttempts
      BY <1>3, <2>2, Constants DEF MfaPending
    <3>3. m \in MfaPending /\ m.attempts = rec.attempts + 1 /\ Same(m, rec)
      BY <1>3, <3>1, <3>2, Constants DEF MfaPending, Same
    <3>4. PICK g : g = [b EXCEPT !.pc = "bump"]
      OBVIOUS
    <3>5. g \in Calls /\ g.pc = "bump" /\ g.kind = b.kind /\ g.mid = p /\ g.pending = rec
      BY <1>1, <1>3, <1>5, <3>4, SetPc DEF Points
    <3>6. f = [b EXCEPT !.pc = "bump", !.pending.attempts = @ + 1]
      BY <1>3, <1>12, <2>2 DEF AfterMismatch
    <3>7. f = [g EXCEPT !.pending = m]
      BY <3>1, <3>4, <3>5, <3>6
    <3> QED BY <3>2, <3>3, <3>5, <3>7, SetPending
  <2> QED BY <2>1, <2>2
<1>16. PICK c : c = CASE o.answer = "authenticated" -> d [] o.answer = "code_mismatch" -> f [] OTHER -> e
  OBVIOUS
<1>17. Moves(r, c) /\ left' = left
  BY <1>6, <1>10, <1>11, <1>12, <1>16 DEF Moves
<1>18. \/ c = d /\ o.answer = "authenticated"
       \/ c = f /\ o.answer = "code_mismatch"
       \/ c = e
  <2>1. CASE o.answer = "authenticated"
    BY <1>16, <2>1
  <2>2. CASE o.answer = "code_mismatch"
    BY <1>16, <2>2
  <2>3. CASE o.answer \notin {"authenticated", "code_mismatch"}
    BY <1>16, <2>3
  <2> QED BY <2>1, <2>2, <2>3
<1>19. /\ c \in Calls /\ c.kind = "challenge" /\ c.mid = p /\ c.pending \in MfaPending
       /\ Same(c.pending, rec) /\ c.pending.attempts < MaxAttempts
       /\ \/ c.pc = "dropDone" /\ o.answer = "authenticated"
          \/ c.pc = "dropFailed"
          \/ c.pc = "bump" /\ o.answer = "code_mismatch" /\ c.pending.attempts = rec.attempts + 1
  BY <1>2, <1>3, <1>13, <1>14, <1>15, <1>18 DEF Same
<1>20. Placed(c)
  BY <1>5, <1>19 DEF Placed, Held, Lookup, Settled, Answers
<1>21. Grows
  BY <1>6 DEF Grows, Present
<1>22. logins[p] # Absent /\ Same(rec, logins[p]) /\ logins[p].kind = "totp_challenge"
  BY <1>1, <1>2, <1>3, <1>5 DEF Grounded, Fits, Held
<1>23. Grounded(c)'
  <2>1. o.answer = "authenticated" => p \in proved'
    BY <1>6
  <2>2. Fits(c)' /\ Same(c.pending, logins[p])'
    BY <1>6, <1>19, <1>22 DEF Fits, Same
  <2> QED BY <1>6, <1>19, <1>22, <2>1, <2>2 DEF Grounded, Held, Lookup, Settled, Answers
<1>24. call' \in [Req -> Calls] /\ call'[r] = c /\ \A q \in Req \ {r} : call'[q] = call[q]
  BY <1>17, <1>19, <1>20, <1>21, <1>23, CallsKept DEF IInv
<1>25. TypeOK'
  <2>1. Well \/ Fault
    BY <1>6 DEF Proceed
  <2>2. proved' \subseteq Pending
    BY <1>6 DEF IInv, TypeOK
  <2> QED BY <1>6, <1>8, <1>9, <1>17, <1>24, <2>1, <2>2, FaultsStay DEF IInv, TypeOK
<1>26. LoginOf(p) /\ For(r, p) /\ Writes(call[r]) /\ ~Settles(call[r])
  BY <1>1, <1>2, <1>5 DEF IInv, LoginsInv, For, Writes, Settles, Lookup, Settled
<1>27. /\ \A q \in Req : For(q, p)' <=> For(q, p)
       /\ \A q \in Req \ {r} : Settles(call[q])' <=> Settles(call[q])
       /\ Settles(call[r])' => o.answer = "authenticated"
  BY <1>19, <1>24, <1>26 DEF For, Settles, Lookup, Settled
<1>28. LoginOf(p)'
  <2>1. RecordOf(p)'
    BY <1>6, <1>22, <1>26 DEF LoginOf, RecordOf, Same
  <2>2. CountOf(p)'
    <3> SUFFICES ASSUME p \notin disturbed PROVE
          /\ \A q, t \in Req : q # t => ~(For(q, p)' /\ For(t, p)')
          /\ guesses'[p] <= MaxAttempts
          /\ (\A q \in Req : For(q, p)' => call'[q].pc \notin {"bump", "dropFailed"}) => Counted(p)'
          /\ \A q \in Req : For(q, p)' /\ Writes(call[q])' => call'[q].pending.attempts = guesses'[p]
      BY <1>6 DEF CountOf
    <3>1. /\ \A q \in Req : For(q, p) => q = r
          /\ guesses[p] <= MaxAttempts /\ rec.attempts = guesses[p]
          /\ Counted(p)
      <4>1. /\ \A q \in Req : For(q, p) => q = r
            /\ guesses[p] <= MaxAttempts /\ rec.attempts = guesses[p]
        BY <1>1, <1>3, <1>26 DEF LoginOf, CountOf
      <4>2. Counted(p)
        BY <1>1, <1>2, <1>26, <4>1 DEF LoginOf, CountOf
      <4> QED BY <4>1, <4>2
    <3>2. guesses'[p] <= MaxAttempts
      BY <1>3, <1>9, <3>1, Constants DEF MfaPending
    <3>3. c.pc \notin {"bump", "dropFailed"} => Counted(p)'
      BY <1>6, <1>8, <1>19, <3>1 DEF Counted
    <3>4. Writes(c) => c.pending.attempts = guesses'[p]
      BY <1>9, <1>19, <3>1 DEF Writes
    <3>5. \A q \in Req : For(q, p)' => q = r
      BY <1>27, <3>1
    <3> QED BY <1>24, <1>26, <1>27, <3>2, <3>3, <3>4, <3>5 DEF Writes
  <2>3. ChallengeOf(p)'
    <3> SUFFICES
          /\ Len(sessions[p]) <= 1
          /\ p \in challenges' => sessions[p] = <<>> /\ \A q \in Req : ~(For(q, p)' /\ Settles(call[q])')
          /\ \A q \in Req : For(q, p)' /\ Settles(call[q])' =>
                 /\ sessions[p] = <<>>
                 /\ \A t \in Req \ {q} : ~(For(t, p)' /\ Settles(call[t])')
      BY <1>6 DEF ChallengeOf
    <3>1. /\ Len(sessions[p]) <= 1
          /\ p \in challenges => sessions[p] = <<>> /\ \A q \in Req : ~(For(q, p) /\ Settles(call[q]))
          /\ \A q \in Req : For(q, p) /\ Settles(call[q]) =>
                 /\ sessions[p] = <<>>
                 /\ \A t \in Req \ {q} : ~(For(t, p) /\ Settles(call[t]))
      BY <1>22, <1>26 DEF LoginOf, ChallengeOf
    <3>2. CASE o.answer = "authenticated"
      BY <1>8, <1>26, <1>27, <3>1, <3>2
    <3>3. CASE o.answer # "authenticated"
      BY <1>8, <1>26, <1>27, <3>1, <3>3
    <3> QED BY <3>2, <3>3
  <2>4. EnrolmentOf(p)'
    BY <1>6, <1>22 DEF EnrolmentOf
  <2>5. EarnedOf(p)'
    BY <1>6, <1>21, <1>26, EarnedKept DEF LoginOf, IInv
  <2> QED BY <2>1, <2>2, <2>3, <2>4, <2>5 DEF LoginOf
<1>29. ASSUME NEW q \in Pending \ {p} PROVE LoginOf(q)'
  <2>1. LoginKept(q)
    BY <1>6, <1>8, <1>9 DEF LoginKept, RecordKept, Same
  <2>2. ~For(r, q) /\ c.mid # q
    BY <1>1, <1>5, <1>19 DEF For
  <2> QED BY <1>17, <1>19, <1>21, <2>1, <2>2, LoginAside DEF IInv, LoginsInv
<1>30. RowsInv' /\ RequestsInv'
  <2>1. c.pc # "create" /\ ~Owns(c)
    BY <1>19 DEF Owns
  <2> QED BY <1>6, <1>17, <1>19, <2>1, RowsKept, RequestsKept DEF IInv
<1>31. \A q \in Pending : LoginOf(q)'
  BY <1>28, <1>29
<1> QED
  BY <1>17, <1>19, <1>20, <1>21, <1>23, <1>25, <1>30, <1>31, AssembleStep


-----------------------------------------------------------------------------
(* The theorems *)

LEMMA InitIInv == Init => IInv
<1> SUFFICES ASSUME Init PROVE IInv
  OBVIOUS
<1>1. PICK s \in Starts :
        /\ users = s.users /\ mfaPending = s.pending /\ logins = s.pending
        /\ mfaMethods = {u \in UserId : users[u] # Absent /\ users[u].sub \in s.enrolled}
        /\ members = {}
        /\ requests = {q \in Rid : \E p \in Pending : mfaPending[p] # Absent /\ mfaPending[p].rid = q}
        /\ cognito = [x \in Person |->
                        LET own == {mfaPending[p].secret : p \in
                                     {t \in Pending : mfaPending[t] # Absent /\ mfaPending[t].person = x}}
                            n == IF 1 \in own \/ x \in s.enrolled THEN 1 ELSE 0
                        IN NewAccount(n, x \in s.enrolled)]
        /\ challenges = {p \in Pending : mfaPending[p] # Absent /\ mfaPending[p].kind = "totp_challenge"}
        /\ call = [r \in Req |-> Idle] /\ left = MaxCalls /\ faults = MaxFaults
        /\ proved = {} /\ disturbed = {} /\ raced = {}
        /\ guesses = [p \in Pending |-> 0] /\ sessions = [p \in Pending |-> <<>>]
        /\ answered = [q \in Rid |-> 0]
  BY DEF Init
<1>2. /\ s.users \in [UserId -> Users \cup {Absent}]
      /\ \A u, v \in UserId : u # v /\ s.users[u] # Absent /\ s.users[v] # Absent =>
            /\ Lower[s.users[u].email] # Lower[s.users[v].email]
            /\ s.users[u].sub # s.users[v].sub \/ s.users[u].sub = NoSub
      /\ s.pending \in [Pending -> MfaPending \cup {Absent}]
      /\ \A p \in Pending : s.pending[p] # Absent => s.pending[p].attempts = 0
  BY AccountsAssumption
<1>3. \A r \in Req : call[r] = Idle /\ call[r].mid \notin Pending
  BY <1>1, IdleFacts, Constants
<1>4. cognito \in [Person -> Account]
  <2>1. 0 \in Secrets /\ 1 \in Secrets
    BY Constants DEF Secrets
  <2>2. \A n \in {0, 1} : NewAccount(n, TRUE) \in Account /\ NewAccount(n, FALSE) \in Account
    BY <2>1 DEF NewAccount, Account
  <2>3. ASSUME NEW x \in Person PROVE cognito[x] \in Account
    <3>1. PICK n \in {0, 1} : cognito[x] = NewAccount(n, x \in s.enrolled)
      BY <1>1
    <3>2. CASE x \in s.enrolled
      <4>1. NewAccount(n, x \in s.enrolled) = NewAccount(n, TRUE)
        BY <3>2 DEF NewAccount
      <4> QED BY <2>2, <3>1, <4>1
    <3>3. CASE x \notin s.enrolled
      <4>1. NewAccount(n, x \in s.enrolled) = NewAccount(n, FALSE)
        BY <3>3 DEF NewAccount
      <4> QED BY <2>2, <3>1, <4>1
    <3> QED BY <3>2, <3>3
  <2> QED BY <1>1, <2>3
<1>5. TypeOK
  <2>1. call \in [Req -> Calls]
    BY <1>1, IdleFacts
  <2>2. left \in 0 .. MaxCalls /\ faults \in 0 .. MaxFaults
    BY <1>1, Constants
  <2>3. sessions \in [Pending -> Seq(UserId)]
    BY <1>1
  <2> QED BY <1>1, <1>2, <1>4, <2>1, <2>2, <2>3 DEF TypeOK, Account
<1>6. CallsInv
  BY <1>3, IdleIsPlaced DEF CallsInv
<1>7. ASSUME NEW p \in Pending PROVE LoginOf(p)
  <2>1. /\ mfaPending[p] = logins[p] /\ guesses[p] = 0 /\ sessions[p] = <<>>
        /\ mfaPending[p] # Absent => mfaPending[p].attempts = 0
    BY <1>1, <1>2
  <2>2. \A r \in Req : ~For(r, p)
    BY <1>3 DEF For
  <2>3. RecordOf(p)
    BY <1>1, <2>1, Constants DEF RecordOf, Same
  <2>4. CountOf(p)
    BY <2>1, <2>2, Constants DEF CountOf, Counted
  <2>5. ChallengeOf(p) /\ EnrolmentOf(p) /\ EarnedOf(p)
    BY <2>1, <2>2 DEF ChallengeOf, EnrolmentOf, EarnedOf
  <2> QED BY <2>3, <2>4, <2>5 DEF LoginOf
<1>8. RowsInv
  BY <1>1, <1>2, <1>3, IdleFacts DEF RowsInv, Present, Mailbox
<1>9. RequestsInv
  BY <1>1, <1>3, IdleFacts DEF RequestsInv, AnsweredOnce, Owns
<1> QED
  BY <1>5, <1>6, <1>7, <1>8, <1>9 DEF IInv, LoginsInv

LEMMA StutterStep == ASSUME IInv, UNCHANGED vars PROVE IInv'
<1>1. TypeOK'
  BY DEF IInv, TypeOK, vars
<1>2. \A p \in Pending : LoginKept(p)
  BY DEF LoginKept, RecordKept, Same, vars
<1> QED
  BY <1>1, <1>2, LapseStep DEF vars

LEMMA NextPreserves == ASSUME IInv, [Next]_vars PROVE IInv'
<1>1. ASSUME NEW r \in Req, Step(r) PROVE IInv'
  <2>1. CASE Authorize(r)
    BY <2>1, AuthorizeStep
  <2>2. CASE StorePendingAuthorization(r)
    BY <2>2, StorePendingAuthorizationStep
  <2>3. CASE PostLogin(r)
    BY <2>3, PostLoginStep
  <2>4. CASE GetSetup(r)
    BY <2>4, GetSetupStep
  <2>5. CASE PostCode(r)
    BY <2>5, PostCodeStep
  <2>6. CASE InviteServiceMember(r)
    BY <2>6, InviteServiceMemberStep
  <2>7. CASE RevokeServiceMember(r)
    BY <2>7, RevokeServiceMemberStep
  <2>8. CASE CheckCsrf(r)
    BY <2>8, CheckCsrfStep
  <2>9. CASE LoadPendingAuthorization(r)
    BY <2>9, LoadPendingAuthorizationStep
  <2>10. CASE Authenticate(r)
    BY <2>10, AuthenticateStep
  <2>11. CASE StorePending(r)
    BY <2>11, StorePendingStep
  <2>12. CASE LoadKind(r)
    BY <2>12, LoadKindStep
  <2>13. CASE RespondToTotp(r)
    BY <2>13, RespondToTotpStep
  <2>14. CASE UpdatePending(r)
    BY <2>14, UpdatePendingStep
  <2>15. CASE DeletePending(r)
    BY <2>15, DeletePendingStep
  <2>16. CASE AssociateSoftwareToken(r)
    BY <2>16, AssociateSoftwareTokenStep
  <2>17. CASE SavePending(r)
    BY <2>17, SavePendingStep
  <2>18. CASE VerifySoftwareToken(r)
    BY <2>18, VerifySoftwareTokenStep
  <2>19. CASE EnableTotp(r)
    BY <2>19, EnableTotpStep
  <2>20. CASE FindUserByCognitoSub(r)
    BY <2>20, FindUserByCognitoSubStep
  <2>21. CASE FindUserByEmail(r)
    BY <2>21, FindUserByEmailStep
  <2>22. CASE LinkCognitoSub(r)
    BY <2>22, LinkCognitoSubStep
  <2>23. CASE CreateUser(r)
    BY <2>23, CreateUserStep
  <2>24. CASE RecordMfaMethod(r)
    BY <2>24, RecordMfaMethodStep
  <2>25. CASE CreateSsoSession(r)
    BY <2>25, CreateSsoSessionStep
  <2>26. CASE ConsumePendingAuthorization(r)
    BY <2>26, ConsumePendingAuthorizationStep
  <2>27. CASE ResumePendingAuthorization(r)
    BY <2>27, ResumePendingAuthorizationStep
  <2>28. CASE ResolveContractedTenant(r)
    BY <2>28, ResolveContractedTenantStep
  <2>29. CASE FindInvited(r)
    BY <2>29, FindInvitedStep
  <2>30. CASE UpsertServiceMembership(r) \/ RemoveServiceMembership(r)
    BY <2>30, MembershipStep
  <2>31. CASE FindUserById(r)
    BY <2>31, FindUserByIdStep
  <2>32. CASE Abort(r)
    BY <2>32, AbortStep
  <2> QED BY <1>1, <2>1, <2>2, <2>3, <2>4, <2>5, <2>6, <2>7, <2>8, <2>9, <2>10, <2>11, <2>12, <2>13,
             <2>14, <2>15, <2>16, <2>17, <2>18, <2>19, <2>20, <2>21, <2>22, <2>23, <2>24, <2>25, <2>26,
             <2>27, <2>28, <2>29, <2>30, <2>31, <2>32 DEF Step
<1>2. CASE PendingLapses
  BY <1>2, PendingLapsesStep
<1>3. CASE RequestLapses \/ ChallengeLapses
  BY <1>3, LapsesStep
<1>4. CASE SecretAges
  BY <1>4, SecretAgesStep
<1>5. CASE UNCHANGED vars
  BY <1>5, StutterStep
<1> QED
  BY <1>1, <1>2, <1>3, <1>4, <1>5 DEF Next

\* The inductive invariant holds in every reachable state.
THEOREM Invariance == Spec => []IInv
<1>1. IInv /\ [Next]_vars => IInv'
  BY NextPreserves
<1> QED
  BY <1>1, InitIInv, PTL DEF Spec

\* The tables, the stores and the requests keep their shape, whatever the requests do to
\* them at the same time.
THEOREM TypeCorrect == Spec => []TypeOK
<1>1. IInv => TypeOK
  BY DEF IInv
<1> QED
  BY <1>1, Invariance, PTL

\* A session belongs to the row of the account that logged in, after a code that Cognito
\* accepted, and a login yields one (login.ts finishLogin, mfa.ts).
THEOREM EverySessionIsEarned == Spec => []SessionsAreEarned
<1>1. IInv => SessionsAreEarned
  <2> SUFFICES ASSUME IInv, NEW p \in Pending
               PROVE  /\ \A i \in DOMAIN sessions[p] :
                             /\ p \in proved
                             /\ users[sessions[p][i]].sub = logins[p].person
                             /\ sessions[p][i] \in mfaMethods
                      /\ Len(sessions[p]) > 1 => logins[p].kind = "totp_setup" /\ p \in disturbed
    BY DEF SessionsAreEarned
  <2>1. LoginOf(p)
    BY DEF IInv, LoginsInv
  <2>2. ASSUME Len(sessions[p]) > 1 PROVE logins[p].kind = "totp_setup" /\ p \in disturbed
    <3>1. sessions[p] \in Seq(UserId) /\ logins[p] \in MfaPending \cup {Absent}
      BY DEF IInv, TypeOK
    <3>2. ~(Len(sessions[p]) <= 1) /\ sessions[p] # <<>>
      BY <2>2, <3>1
    <3>3. logins[p] # Absent
      BY <2>1, <3>2 DEF LoginOf, RecordOf
    <3>4. logins[p].kind \in {"totp_challenge", "totp_setup"}
      BY <3>1, <3>3 DEF MfaPending
    <3> QED BY <2>1, <3>2, <3>3, <3>4 DEF LoginOf, ChallengeOf, EnrolmentOf
  <2> QED BY <2>1, <2>2 DEF LoginOf, EarnedOf
<1> QED
  BY <1>1, Invariance, PTL

\* Cognito sees at most MFA_MAX_ATTEMPTS wrong codes for a login, and a login at rest has
\* them all on record (mfa.ts completeTotpChallenge).
THEOREM EveryGuessIsCounted == Spec => []GuessesAreCounted
<1>1. IInv => GuessesAreCounted
  <2> SUFFICES ASSUME IInv, NEW p \in Pending \ disturbed
               PROVE  /\ guesses[p] <= MaxAttempts
                      /\ mfaPending[p] # Absent /\ (\A r \in Req : call[r].mid # p)
                           => mfaPending[p].attempts = guesses[p]
    BY DEF GuessesAreCounted
  <2>1. CountOf(p)
    BY DEF IInv, LoginsInv, LoginOf
  <2> QED BY <2>1 DEF CountOf, Counted, For
<1> QED
  BY <1>1, Invariance, PTL

\* An invitation and a first login find each other's row; only two insertions at the same
\* time may leave two for one mailbox (login.ts resolveUser, service-members.ts).
THEOREM MailboxesHaveOneRow == Spec => []OneRowPerMailbox
<1>1. IInv => OneRowPerMailbox
  BY DEF IInv, RowsInv, OneRowPerMailbox, Rows, Present, Mailbox
<1> QED
  BY <1>1, Invariance, PTL

\* An authorization request is answered once (login.ts finish).
THEOREM RequestsAreAnsweredOnce == Spec => []AnsweredOnce
<1>1. IInv => AnsweredOnce
  BY DEF IInv, RequestsInv
<1> QED
  BY <1>1, Invariance, PTL

\* No row is given to another account or dropped, and no account gets two
\* (pg-identity-repository.ts linkCognitoSub).
THEOREM LinksAreForever == Spec => LinkIsForever
<1>1. ASSUME IInv, [Next]_vars
      PROVE  \A u \in UserId : users[u] # Absent /\ users[u].sub # NoSub => users'[u] = users[u]
  <2> SUFFICES ASSUME NEW u \in UserId, users[u] # Absent, users[u].sub # NoSub, users' # users
               PROVE  users'[u] = users[u]
    OBVIOUS
  <2>1. PICK r \in Req : LinkCognitoSub(r) \/ CreateUser(r)
    <3>1. Next
      BY <1>1 DEF vars
    <3>2. ~(PendingLapses \/ RequestLapses \/ ChallengeLapses \/ SecretAges)
      BY DEF PendingLapses, RequestLapses, ChallengeLapses, SecretAges
    <3>3. PICK r \in Req : Step(r)
      BY <3>1, <3>2 DEF Next
    <3>4. /\ ~Authorize(r) /\ ~PostLogin(r) /\ ~GetSetup(r) /\ ~PostCode(r)
          /\ ~InviteServiceMember(r) /\ ~RevokeServiceMember(r)
      BY DEF Authorize, PostLogin, GetSetup, PostCode, ForLogin, InviteServiceMember, RevokeServiceMember, Arrive
    <3>5. /\ ~StorePendingAuthorization(r) /\ ~StorePending(r) /\ ~RespondToTotp(r) /\ ~UpdatePending(r)
          /\ ~DeletePending(r) /\ ~AssociateSoftwareToken(r) /\ ~SavePending(r) /\ ~VerifySoftwareToken(r)
          /\ ~EnableTotp(r) /\ ~RecordMfaMethod(r) /\ ~CreateSsoSession(r) /\ ~ResumePendingAuthorization(r)
          /\ ~UpsertServiceMembership(r) /\ ~RemoveServiceMembership(r) /\ ~Abort(r)
      BY DEF StorePendingAuthorization, StorePending, RespondToTotp, UpdatePending, DeletePending,
             AssociateSoftwareToken, SavePending, VerifySoftwareToken, EnableTotp, RecordMfaMethod,
             CreateSsoSession, ResumePendingAuthorization, UpsertServiceMembership,
             RemoveServiceMembership, Abort
    <3>6. /\ ~CheckCsrf(r) /\ ~LoadPendingAuthorization(r) /\ ~Authenticate(r)
          /\ ~FindUserByCognitoSub(r) /\ ~FindUserByEmail(r) /\ ~ConsumePendingAuthorization(r)
          /\ ~ResolveContractedTenant(r) /\ ~FindInvited(r) /\ ~FindUserById(r)
      BY DEF CheckCsrf, LoadPendingAuthorization, Authenticate, FindUserByCognitoSub,
             FindUserByEmail, ConsumePendingAuthorization, ResolveContractedTenant, FindInvited,
             FindUserById, Continue, Finish
    <3>7. ~LoadKind(r)
      <4> SUFFICES ASSUME LoadKind(r) PROVE FALSE
        OBVIOUS
      <4>1. call[r].kind \in {"challenge", "begin", "setup"}
        BY <1>1, CallFacts DEF LoadKind, Placed
      <4>2. CASE call[r].kind = "challenge"
        BY <4>2 DEF LoadKind, Continue, Finish
      <4>3. CASE call[r].kind = "begin"
        BY <4>3 DEF LoadKind, Continue, Finish
      <4>4. CASE call[r].kind = "setup"
        BY <4>4 DEF LoadKind, Continue, Finish
      <4> QED BY <4>1, <4>2, <4>3, <4>4
    <3> QED BY <3>3, <3>4, <3>5, <3>6, <3>7 DEF Step
  <2>2. users \in [UserId -> Users \cup {Absent}]
    BY <1>1 DEF IInv, TypeOK
  <2>3. CASE LinkCognitoSub(r)
    <3>1. PICK v, x : users[v].sub = NoSub /\ users' = [users EXCEPT ![v].sub = x]
      BY <2>3 DEF LinkCognitoSub, Finish, Continue
    <3> QED BY <2>2, <3>1
  <2>4. CASE CreateUser(r)
    <3>1. PICK v \in UserId \ Rows : \E row : users' = [users EXCEPT ![v] = row]
      BY <2>4 DEF CreateUser, Finish, Continue
    <3> QED BY <2>2, <3>1 DEF Rows
  <2> QED BY <2>1, <2>3, <2>4
<1>2. ASSUME IInv, IInv', [Next]_vars
      PROVE  [/\ \A u \in UserId : users[u] # Absent /\ users[u].sub # NoSub => users'[u] = users[u]
              /\ \A u, v \in UserId : u # v /\ users'[u] # Absent /\ users'[v] # Absent
                                         => users'[u].sub # users'[v].sub \/ users'[u].sub = NoSub]_vars
  <2>1. \A u, v \in UserId : u # v /\ users'[u] # Absent /\ users'[v] # Absent
                                => users'[u].sub # users'[v].sub \/ users'[u].sub = NoSub
    BY <1>2 DEF IInv, RowsInv, Present
  <2> QED BY <1>1, <1>2, <2>1
<1> QED
  BY <1>2, Invariance, PTL DEF Spec, LinkIsForever


=============================================================================
