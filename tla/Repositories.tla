---------------------------- MODULE Repositories ----------------------------
(***************************************************************************)
(* The repositories of the authorization server and of the resource APIs:  *)
(* the in-memory class every unit test runs on, next to the PostgreSQL     *)
(* class production runs on, behind the same port.  Each call is made on   *)
(* both at once; the answers, and what the queries of the port would       *)
(* return, are compared.                                                   *)
(*                                                                         *)
(* One port is followed at a time: the people ("users"), who is assigned   *)
(* to which service of which tenant ("assignments"), the record of the SSO *)
(* sessions ("sessions"), and the members of one tenant of a service       *)
(* ("members").  Order of a list is left out: callers use the lists as     *)
(* sets.                                                                   *)
(***************************************************************************)
EXTENDS Integers

CONSTANTS
    People,        \* user ids
    Subs,          \* Cognito subs
    Mailboxes,     \* e-mail addresses, in lower case
    Companies,     \* tenants
    Services,      \* OIDC clients
    Environments,  \* address and user agent of a browser
    Grants,        \* permissions
    IdleLimit,     \* SSO_SESSION_IDLE_SECONDS
    AbsoluteLimit, \* SSO_SESSION_ABSOLUTE_SECONDS
    LastMoment     \* bound: the half second at which the clock stops

ASSUME RepoAssumption ==
    /\ IdleLimit \in Nat /\ AbsoluteLimit \in Nat /\ LastMoment \in Nat
    /\ Companies # {} /\ Services # {} /\ "null" \notin Subs

VARIABLES
    port,       \* which repository this behaviour follows
    catalog,    \* status of tenants, clients and contracts: no port writes them
    moment,     \* the time, in half seconds
    standIn,    \* what the in-memory class holds
    database,   \* what the tables hold
    replies,    \* the answers to the last call: [memory, postgres]
    lenient     \* the in-memory class accepted what the schema forbids

repoVars == <<port, catalog, moment, standIn, database, replies, lenient>>

Places == Companies \X Services
NoRow == [row |-> "none"]
Refused == [error |-> TRUE]
Null == "null"
Never == -1
WholeSeconds == moment \div 2

\* An e-mail is kept as it was spelled; the spelling does not make another mailbox.
Emails == Mailboxes \X {"lower", "Upper"}
Lower(email) == email[1]

UserRows == [sub : Subs \union {Null}, email : Emails]
MemberRows == [email : Emails \union {Null}, role : {"admin", "member"}]

-----------------------------------------------------------------------------
(* The constraints of the schemas, as a predicate on what a store holds.    *)

UsersUnique(s) ==
    \A i, j \in People :
        (i # j /\ s.users[i] # NoRow /\ s.users[j] # NoRow) =>
            /\ s.users[i].email # s.users[j].email
            /\ s.users[i].sub = Null \/ s.users[i].sub # s.users[j].sub

MfaOfUsers(s) == \A i \in People : s.enrolled[i] # 0 => s.users[i] # NoRow

AssignedUnderContract(s) ==
    \A at \in Places, i \in People :
        s.assigned[at][i] # "none" => catalog.contract[at] # "none" /\ i \in catalog.users

ClientsOfSessions(s) == \A at \in Places : s.clients[at] # NoRow => s.session # NoRow

OverridesOfMembers(s) ==
    \A i \in People : (\E g \in Grants : s.overrides[i][g] # "none") => s.members[i] # NoRow

SchemaHolds(s) ==
    CASE port = "users" -> UsersUnique(s) /\ MfaOfUsers(s)
      [] port = "assignments" -> AssignedUnderContract(s)
      [] port = "sessions" -> ClientsOfSessions(s)
      [] port = "members" -> OverridesOfMembers(s)

-----------------------------------------------------------------------------
(* The queries.                                                             *)

FindUserByCognitoSub(s, sub) == {i \in People : s.users[i] # NoRow /\ s.users[i].sub = sub}

FindUserByEmail(s, email) ==
    {i \in People : s.users[i] # NoRow /\ Lower(s.users[i].email) = Lower(email)}

ListMfaMethods(s, i) == s.enrolled[i]

FindServiceMembership(s, at, i) == s.assigned[at][i]

\* memory: each row's user is looked up, and a row without one is left out.
ListServiceMembers(s, at) ==
    UNION {IF i \in catalog.users THEN {<<i, s.assigned[at][i]>>} ELSE {} :
             i \in {j \in People : s.assigned[at][j] # "none"}}

\* PostgreSQL: the rows joined to users.
PgListServiceMembers(s, at) ==
    {<<i, s.assigned[at][i]>> : i \in {j \in catalog.users : s.assigned[at][j] # "none"}}

\* memory: tenant by tenant, the services of the person's active rows whose contract and
\* client are active; a tenant with none is left out.
ListPortalEntries(s, i) ==
    LET OfTenant(t) ==
            {c \in Services :
                /\ s.assigned[<<t, c>>][i] = "active"
                /\ catalog.contract[<<t, c>>] = "active"
                /\ catalog.client[c] = "active"}
    IN  {<<t, OfTenant(t)>> :
            t \in {u \in Companies : catalog.tenant[u] = "active" /\ OfTenant(u) # {}}}

\* Broken variant: the contract is joined whatever its status.
PortalRowsAnyContract(s, i) ==
    {at \in Places :
        /\ s.assigned[at][i] = "active"
        /\ catalog.tenant[at[1]] = "active"
        /\ catalog.contract[at] # "none"
        /\ catalog.client[at[2]] = "active"}

\* PostgreSQL: one row for each service, joined to tenant, contract and client, then
\* grouped by tenant.
PortalRows(s, i) ==
    {at \in Places :
        /\ s.assigned[at][i] = "active"
        /\ catalog.tenant[at[1]] = "active"
        /\ catalog.contract[at] = "active"
        /\ catalog.client[at[2]] = "active"}

PgListPortalEntries(s, i) ==
    {<<at[1], {c \in Services : <<at[1], c>> \in PortalRows(s, i)}>> : at \in PortalRows(s, i)}

\* memory: whole seconds on both sides.
ListedActive(s) ==
    /\ s.session # NoRow /\ s.session.revokedAt = Never
    /\ s.session.lastSeenAt + IdleLimit > WholeSeconds
    /\ s.session.createdAt + AbsoluteLimit > WholeSeconds

\* PostgreSQL: the stored whole second against the exact now().
PgListedActive(s) ==
    /\ s.session # NoRow /\ s.session.revokedAt = Never
    /\ 2 * s.session.lastSeenAt > moment - 2 * IdleLimit
    /\ 2 * s.session.createdAt > moment - 2 * AbsoluteLimit

\* The session with the clients it was used for.
FindWithClients(s) ==
    IF s.session = NoRow THEN NoRow ELSE [session |-> s.session, clients |-> s.clients]

FindWithOverrides(s, i) ==
    IF s.members[i] = NoRow
    THEN NoRow ELSE [member |-> s.members[i], overrides |-> s.overrides[i]]

List(s) == {i \in People : s.members[i] # NoRow}

\* All the port's queries would return, of either class.
MemoryView ==
    CASE port = "users" ->
           <<standIn.users,
             [sub \in Subs |-> FindUserByCognitoSub(standIn, sub)],
             [email \in Emails |-> FindUserByEmail(standIn, email)],
             [i \in People |-> ListMfaMethods(standIn, i)]>>
      [] port = "assignments" ->
           <<[at \in Places |-> [i \in People |-> FindServiceMembership(standIn, at, i)]],
             [at \in Places |-> ListServiceMembers(standIn, at)],
             [i \in People |-> ListPortalEntries(standIn, i)]>>
      [] port = "sessions" -> <<ListedActive(standIn), FindWithClients(standIn)>>
      [] port = "members" -> <<List(standIn), [i \in People |-> FindWithOverrides(standIn, i)]>>

PgView ==
    CASE port = "users" ->
           <<database.users,
             [sub \in Subs |-> FindUserByCognitoSub(database, sub)],
             [email \in Emails |-> FindUserByEmail(database, email)],
             [i \in People |-> ListMfaMethods(database, i)]>>
      [] port = "assignments" ->
           <<[at \in Places |-> [i \in People |-> FindServiceMembership(database, at, i)]],
             [at \in Places |-> PgListServiceMembers(database, at)],
             [i \in People |-> PgListPortalEntries(database, i)]>>
      [] port = "sessions" -> <<PgListedActive(database), FindWithClients(database)>>
      [] port = "members" -> <<List(database), [i \in People |-> FindWithOverrides(database, i)]>>

-----------------------------------------------------------------------------
(* The calls.                                                               *)

EmptyStore ==
    CASE port = "users" -> [users |-> [i \in People |-> NoRow], enrolled |-> [i \in People |-> 0]]
      [] port = "assignments" ->
           [assigned |-> [at \in Places |-> [i \in People |-> "none"]]]
      [] port = "sessions" -> [session |-> NoRow, clients |-> [at \in Places |-> NoRow]]
      [] port = "members" ->
           [members |-> [i \in People |-> NoRow],
            overrides |-> [i \in People |-> [g \in Grants |-> "none"]]]

\* What the fixtures and the seed may hold; a port other than "assignments" reads none of it.
Catalogs ==
    [tenant : [Companies -> {"active", "suspended"}],
     client : [Services -> {"active", "disabled"}],
     contract : [Places -> {"none", "active", "suspended"}],
     users : {People, People \ {CHOOSE i \in People : TRUE}}]

PlainCatalog ==
    [tenant |-> [t \in Companies |-> "active"],
     client |-> [c \in Services |-> "active"],
     contract |-> [at \in Places |-> "active"],
     users |-> People]

RepoInit ==
    /\ port \in {"users", "assignments", "sessions", "members"}
    /\ catalog \in (IF port = "assignments" THEN Catalogs ELSE {PlainCatalog})
    /\ moment = 0
    /\ standIn = EmptyStore /\ database = EmptyStore
    /\ replies = [memory |-> Null, postgres |-> Null]
    /\ lenient = FALSE

\* One call on both classes.  An implementation that throws changes nothing; "overwrites"
\* says that the in-memory class replaced a value the statement would not have replaced.
Ask(of, memory, postgres, memoryReply, postgresReply, overwrites) ==
    /\ port = of
    /\ standIn' = IF memory = Refused THEN standIn ELSE memory
    /\ database' = IF postgres = Refused THEN database ELSE postgres
    /\ replies' = [memory |-> IF memory = Refused THEN "error" ELSE memoryReply,
                   postgres |-> IF postgres = Refused THEN "error" ELSE postgresReply]
    /\ lenient' = (lenient \/ overwrites \/ (memory # Refused /\ ~SchemaHolds(memory)))
    /\ UNCHANGED <<port, catalog, moment>>

MemoryCreateUser(i, row) == [standIn EXCEPT !.users[i] = row]

\* INSERT: primary key and the two UNIQUE columns.
PgCreateUser(i, row) ==
    IF \E j \in People :
          /\ database.users[j] # NoRow
          /\ \/ j = i
             \/ database.users[j].email = row.email
             \/ row.sub # Null /\ database.users[j].sub = row.sub
    THEN Refused
    ELSE [database EXCEPT !.users[i] = row]

CreateUser(i, row) ==
    /\ port = "users"
    /\ Ask("users", MemoryCreateUser(i, row), PgCreateUser(i, row), row, row,
           standIn.users[i] # NoRow)

MemoryLinkCognitoSub(i, sub) ==
    IF standIn.users[i] = NoRow THEN Refused ELSE [standIn EXCEPT !.users[i].sub = sub]

\* UPDATE ... WHERE cognito_sub IS NULL: no row is an error, a taken sub violates UNIQUE.
PgLinkCognitoSub(i, sub) ==
    IF \/ database.users[i] = NoRow
       \/ database.users[i].sub # Null
       \/ FindUserByCognitoSub(database, sub) # {}
    THEN Refused
    ELSE [database EXCEPT !.users[i].sub = sub]

LinkCognitoSub(i, sub) ==
    /\ port = "users"
    /\ Ask("users", MemoryLinkCognitoSub(i, sub), PgLinkCognitoSub(i, sub), sub, sub,
           standIn.users[i] # NoRow /\ standIn.users[i].sub # Null)

MemoryRecordMfaMethod(i, at) ==
    IF standIn.enrolled[i] # 0 THEN standIn ELSE [standIn EXCEPT !.enrolled[i] = at]

\* ON CONFLICT DO NOTHING; the foreign key asks for the user.
PgRecordMfaMethod(i, at) ==
    IF database.users[i] = NoRow THEN Refused
    ELSE IF database.enrolled[i] # 0 THEN database
    ELSE [database EXCEPT !.enrolled[i] = at]

RecordMfaMethod(i, at) ==
    /\ port = "users"
    /\ Ask("users", MemoryRecordMfaMethod(i, at), PgRecordMfaMethod(i, at), Null, Null, FALSE)

MemoryUpsertServiceMembership(at, i) == [standIn EXCEPT !.assigned[at][i] = "active"]

PgUpsertServiceMembership(at, i) ==
    IF catalog.contract[at] = "none" \/ i \notin catalog.users
    THEN Refused
    ELSE [database EXCEPT !.assigned[at][i] = "active"]

UpsertServiceMembership(at, i) ==
    /\ port = "assignments"
    /\ Ask("assignments", MemoryUpsertServiceMembership(at, i), PgUpsertServiceMembership(at, i),
           Null, Null, FALSE)

RemoveServiceMembership(at, i) ==
    /\ port = "assignments"
    /\ Ask("assignments", [standIn EXCEPT !.assigned[at][i] = "none"],
           [database EXCEPT !.assigned[at][i] = "none"], Null, Null, FALSE)

\* No call sets a row to disabled; an operator does, in the table, and a test in its fixture.
Disable(at, i) ==
    /\ port = "assignments"
    /\ standIn.assigned[at][i] = "active" /\ database.assigned[at][i] = "active"
    /\ Ask("assignments", [standIn EXCEPT !.assigned[at][i] = "disabled"],
           [database EXCEPT !.assigned[at][i] = "disabled"], Null, Null, FALSE)

NewSession(environment) ==
    [env |-> environment, createdAt |-> WholeSeconds, lastSeenAt |-> WholeSeconds,
     revokedAt |-> Never, revokeReason |-> Null]

\* create, with an id made for it.
CreateSession(environment) ==
    /\ port = "sessions" /\ standIn.session = NoRow /\ database.session = NoRow
    /\ Ask("sessions", [standIn EXCEPT !.session = NewSession(environment)],
           [database EXCEPT !.session = NewSession(environment)], Null, Null, FALSE)

Touched(s, environment) ==
    IF s.session = NoRow
    THEN s
    ELSE [s EXCEPT !.session.env = environment, !.session.lastSeenAt = WholeSeconds]

\* The environment before the update, which the same statement returns.
EnvironmentBefore(s) == IF s.session = NoRow THEN NoRow ELSE [env |-> s.session.env]

Touch(environment) ==
    /\ port = "sessions"
    /\ Ask("sessions", Touched(standIn, environment), Touched(database, environment),
           EnvironmentBefore(standIn), EnvironmentBefore(database), FALSE)

MemoryRecordClient(at) ==
    IF standIn.clients[at] = NoRow
    THEN [standIn EXCEPT !.clients[at] = [firstSeenAt |-> WholeSeconds, lastSeenAt |-> WholeSeconds]]
    ELSE [standIn EXCEPT !.clients[at].lastSeenAt = WholeSeconds]

\* ON CONFLICT DO UPDATE SET last_seen_at; the foreign key asks for the session.
PgRecordClient(at) ==
    IF database.session = NoRow THEN Refused
    ELSE IF database.clients[at] = NoRow
    THEN [database EXCEPT !.clients[at] =
             [firstSeenAt |-> WholeSeconds, lastSeenAt |-> WholeSeconds]]
    ELSE [database EXCEPT !.clients[at].lastSeenAt = WholeSeconds]

RecordClient(at) ==
    /\ port = "sessions"
    /\ Ask("sessions", MemoryRecordClient(at), PgRecordClient(at), Null, Null, FALSE)

Revoked(s, reason) ==
    IF s.session = NoRow \/ s.session.revokedAt # Never
    THEN s
    ELSE [s EXCEPT !.session.revokedAt = WholeSeconds, !.session.revokeReason = reason]

MarkRevoked(reason) ==
    /\ port = "sessions"
    /\ Ask("sessions", Revoked(standIn, reason), Revoked(database, reason), Null, Null, FALSE)

Coalesce(a, b) == IF a # Null THEN a ELSE b

\* The row an upsert leaves: a null e-mail keeps the one that is there.
Merged(s, i, row) ==
    IF s.members[i] = NoRow THEN row ELSE [row EXCEPT !.email = Coalesce(@, s.members[i].email)]

Upsert(i, row) ==
    /\ port = "members"
    /\ Ask("members", [standIn EXCEPT !.members[i] = Merged(standIn, i, row)],
           [database EXCEPT !.members[i] = Merged(database, i, row)],
           Merged(standIn, i, row), Merged(database, i, row), FALSE)

NoOverrides == [g \in Grants |-> "none"]

\* The Map of overrides is emptied by hand; in the database the foreign key cascades.
RemoveMember(i) ==
    /\ port = "members"
    /\ Ask("members", [standIn EXCEPT !.members[i] = NoRow, !.overrides[i] = NoOverrides],
           [database EXCEPT !.members[i] = NoRow, !.overrides[i] = NoOverrides],
           Null, Null, FALSE)

MemoryReplaceOverrides(i, list) == [standIn EXCEPT !.overrides[i] = list]

\* DELETE, then INSERT unless the list is empty; the foreign key asks for the member.
PgReplaceOverrides(i, list) ==
    IF list # NoOverrides /\ database.members[i] = NoRow
    THEN Refused
    ELSE [database EXCEPT !.overrides[i] = list]

ReplaceOverrides(i, list) ==
    /\ port = "members"
    /\ Ask("members", MemoryReplaceOverrides(i, list), PgReplaceOverrides(i, list),
           Null, Null, FALSE)

MomentPasses ==
    /\ port = "sessions" /\ moment < LastMoment
    /\ moment' = moment + 1
    /\ UNCHANGED <<port, catalog, standIn, database, replies, lenient>>

RepoNext ==
    /\ ~lenient   \* from there on the two hold different things
    /\ \/ \E i \in People, row \in UserRows : CreateUser(i, row)
       \/ \E i \in People, sub \in Subs : LinkCognitoSub(i, sub)
       \/ \E i \in People, at \in {1, 2} : RecordMfaMethod(i, at)
       \/ \E at \in Places, i \in People :
             \/ UpsertServiceMembership(at, i)
             \/ RemoveServiceMembership(at, i)
             \/ Disable(at, i)
       \/ \E environment \in Environments : CreateSession(environment) \/ Touch(environment)
       \/ \E at \in Places : RecordClient(at)
       \/ \E reason \in {"global_logout", "user_revoked"} : MarkRevoked(reason)
       \/ \E i \in People, row \in MemberRows : Upsert(i, row)
       \/ \E i \in People : RemoveMember(i)
       \/ \E i \in People, list \in [Grants -> {"none", "allow", "deny"}] :
             ReplaceOverrides(i, list)
       \/ MomentPasses

RepoSpec == RepoInit /\ [][RepoNext]_repoVars

-----------------------------------------------------------------------------
\* What the unit tests run on answers as what production runs on: as long as the
\* in-memory class has not been asked for something the schema forbids (a second row for
\* an id, a sub or an address, a link over an existing one, a row without the row it
\* refers to), each call answers the same in both, an error included, and every query of
\* the port returns the same; and the database keeps its constraints throughout.  So the
\* races the database settles with a constraint are the ones no unit test can see.
RepositoriesAgree ==
    /\ SchemaHolds(database)
    /\ lenient \/ (replies.memory = replies.postgres /\ MemoryView = PgView)

=============================================================================
