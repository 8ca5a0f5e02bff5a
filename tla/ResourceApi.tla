---------------------------- MODULE ResourceApi -----------------------------
(***************************************************************************)
(* The API of a service: tenant context, members and their permissions,    *)
(* and the service's own records (packages/api-core, apps/crm-api,         *)
(* apps/cms-api).                                                          *)
(*                                                                         *)
(* One tenant of one service: every query is bound to the tenant of the    *)
(* access token (withTenant).  Requests run concurrently over the          *)
(* service's PostgreSQL, READ COMMITTED, one action per awaited query, and *)
(* call the management API of the authorization server, whose own steps    *)
(* are in modules Accounts and SsoSessions and one step here.              *)
(***************************************************************************)
EXTENDS Naturals, FiniteSets

CONSTANTS
    Req,              \* slots for requests running at the same time
    User,             \* user ids
    Record,           \* ids of end users (CRM) or posts (CMS)
    Roles, DefaultRole, RolePermissions, Permissions,  \* the ServiceDefinition
    Lists,            \* override lists a request may bring
    Needs,            \* the permission an endpoint requires
    Kinds,            \* the endpoints called in this instance
    MaxCalls,         \* bound: requests that arrive in a behaviour
    MaxFaults,        \* bound: how often something goes wrong in it
    Starts,           \* what the members tables may hold when it begins
    NoUser, NoRecord, NoRole, Absent

Effects == {"allow", "deny"}

ASSUME ResourceAssumption ==
    /\ DefaultRole \in Roles /\ NoRole \notin Roles
    /\ RolePermissions \in [Roles -> SUBSET Permissions]
    /\ Lists \subseteq SUBSET (Permissions \X Effects)
    /\ \A l \in Lists : \A o, p \in l : o[1] = p[1] => o = p
    /\ Kinds \subseteq {"me", "invite", "role", "overrides", "remove", "create", "update", "delete"}
    /\ Needs \in [Kinds -> Permissions \cup {"none"}]
    /\ \A s \in Starts : /\ s.rows \in [User -> [role : Roles, active : BOOLEAN] \cup {Absent}]
                          /\ s.lists \in [User -> Lists]
                          /\ \A u \in User : s.rows[u] = Absent => s.lists[u] = {}
    /\ MaxCalls \in Nat /\ MaxFaults \in Nat
    /\ NoUser \notin User /\ NoRecord \notin Record
    /\ Absent \notin [role : Roles, active : BOOLEAN]

VARIABLES
    members,      \* PostgreSQL: members
    overrides,    \* PostgreSQL: permission_overrides
    records,      \* PostgreSQL: end_users, posts
    assigned,     \* authorization server: tenant_service_members
    tokens,       \* users who may hold a live access token: assigned, or until lately
    call,         \* the requests being served
    left, faults, \* how many requests and faults may still come
    meant,        \* history: the role an administrator gave last, NoRole once removed
    sent,         \* history: the override list an administrator sent last
    overlapped    \* history: what about a member was written by two at once, or cut off

vars == <<members, overrides, records, assigned, tokens, call, left, faults,
          meant, sent, overlapped>>

tables  == <<members, overrides, records>>
server  == <<assigned, tokens>>
history == <<meant, sent, overlapped>>

Rows   == [role : Roles, active : BOOLEAN]
Points == {"idle", "find", "findOverrides", "createDefault", "authInvite",
           "upsertInvited", "findTarget", "upsertRole", "deleteOverrides",
           "insertOverrides", "authRevoke", "remove", "create", "update", "delete"}
Calls  == [pc : Points, kind : Kinds \cup {"none"}, actor : User \cup {NoUser},
           target : User \cup {NoUser}, role : Roles \cup {NoRole},
           list : SUBSET (Permissions \X Effects), record : Record \cup {NoRecord},
           row : Rows \cup {Absent},                  \* the member row it has read
           seen : SUBSET (Permissions \X Effects),    \* overrides its DELETE has seen
           changed : SUBSET {"row", "list"},          \* history: of its actor, since that row was read
           held : BOOLEAN]                            \* history: whether the actor might do this since

\* One type invariant: the tables and the requests keep their shape, a member
\* has one override per permission, and overrides belong to a member.
TypeOK ==
    /\ members \in [User -> Rows \cup {Absent}]
    /\ overrides \in [User -> SUBSET (Permissions \X Effects)]
    /\ \A u \in User : /\ members[u] = Absent => overrides[u] = {}
                       /\ \A o, p \in overrides[u] : o[1] = p[1] => o = p
    /\ records \in [Record -> {"none", "live", "deleted"}]
    /\ assigned \subseteq User /\ tokens \subseteq User
    /\ call \in [Req -> Calls]
    /\ left \in 0 .. MaxCalls /\ faults \in 0 .. MaxFaults
    /\ meant \in [User -> Roles \cup {NoRole}]
    /\ sent \in [User -> SUBSET (Permissions \X Effects)]
    /\ overlapped \subseteq {"row", "list", "servers"} \X User

Idle == [pc |-> "idle", kind |-> "none", actor |-> NoUser, target |-> NoUser,
         role |-> NoRole, list |-> {}, record |-> NoRecord, row |-> Absent, seen |-> {},
         changed |-> {}, held |-> FALSE]

Init == \E s \in Starts :
    /\ members = s.rows /\ overrides = s.lists /\ records = [d \in Record |-> "none"]
    /\ assigned = {u \in User : s.rows[u] # Absent} /\ tokens = assigned
    /\ call = [r \in Req |-> Idle] /\ left = MaxCalls /\ faults = MaxFaults
    /\ meant = [u \in User |-> IF s.rows[u] = Absent THEN NoRole ELSE s.rows[u].role]
    /\ sent = s.lists /\ overlapped = {}

At(r, p) == call[r].pc = p
Go(r, c) == call' = [call EXCEPT ![r] = c] /\ left' = left
Well     == faults' = faults
Fault    == faults > 0 /\ faults' = faults - 1

Continue(r, c) == Go(r, c) /\ UNCHANGED <<tables, server, history>>
Finish(r)      == Continue(r, Idle)

----------------------------------------------------------------------------
(***************************************************************************)
(* service-definition.ts.                                                  *)
(***************************************************************************)
Of(list, effect) == {o[1] : o \in {p \in list : p[2] = effect}}

ResolvePermissions(role, list) ==
    (RolePermissions[role] \cup (Of(list, "allow") \cap Permissions)) \ Of(list, "deny")

\* requirePermission, where the endpoint has one.
Permits(kind, role, list) ==
    Needs[kind] = "none" \/ Needs[kind] \in ResolvePermissions(role, list)

\* Whether u's permissions, as the tables are, suffice for an endpoint.
May(u, kind, rows, lsts) ==
    rows[u] # Absent /\ rows[u].active /\ Permits(kind, rows[u].role, lsts[u])

----------------------------------------------------------------------------
(***************************************************************************)
(* Writes to the members table, with what they mean for the history.       *)
(***************************************************************************)
\* q has read that u has no row, or u's row, and is about to write it.
HoldsReading(q, u) ==
    \/ call[q].pc = "createDefault" /\ call[q].actor = u
    \/ call[q].pc = "upsertRole" /\ call[q].target = u

\* q has told the authorization server of u and not yet the members table.
BetweenServers(q, u) == call[q].pc \in {"upsertInvited", "remove"} /\ call[q].target = u

\* What a write of u's row by r means for others that have read or announced it.
Overlaps(r, u) ==
    {<<"row", u>> : q \in {p \in Req \ {r} : HoldsReading(p, u)}}
    \cup {<<"servers", u>> : q \in {p \in Req \ {r} : HoldsReading(p, u) \/ BetweenServers(p, u)}}
    \cup {<<"servers", u>> : q \in {p \in {r} : At(p, "createDefault") /\ u \notin assigned}}

\* A request that has read u's row and is about to read its overrides.
Noticed(c, u, what) ==
    IF c.pc = "findOverrides" /\ c.actor = u
    THEN [c EXCEPT !.changed = @ \cup what, !.held = @ \/ May(u, c.kind, members', overrides')]
    ELSE c

\* members.upsert: a new row, or the role and status of the present one; then
\* the request goes on as c.
Upsert(r, c, u, row, role) ==
    /\ members' = [members EXCEPT ![u] = row] /\ overrides' = overrides
    /\ meant' = [meant EXCEPT ![u] = role]
    /\ overlapped' = overlapped \cup Overlaps(r, u)
    /\ call' = [q \in Req |-> IF q = r THEN c ELSE Noticed(call[q], u, {"row"})]
    /\ left' = left /\ UNCHANGED <<records, sent>>

----------------------------------------------------------------------------
(***************************************************************************)
(* resolve-tenant-context.ts and middleware.ts: every request.             *)
(***************************************************************************)
\* What the endpoints of memberRoutes accept: roles and permissions are known ones.
MemberRequests ==
    [kind : {"me"}, target : {NoUser}, role : {NoRole}, list : {{}}, record : {NoRecord}]
    \cup [kind : {"invite", "role"}, target : User, role : Roles, list : {{}}, record : {NoRecord}]
    \cup [kind : {"overrides"}, target : User, role : {NoRole}, list : Lists, record : {NoRecord}]
    \cup [kind : {"remove"}, target : User, role : {NoRole}, list : {{}}, record : {NoRecord}]

\* What endUserRoutes and postRoutes accept; a new record has an id of its own.
RecordRequests ==
    [kind : {"update", "delete"}, target : {NoUser}, role : {NoRole}, list : {{}}, record : Record]
    \cup [kind : {"create"}, target : {NoUser}, role : {NoRole}, list : {{}},
          record : {d \in Record : records[d] = "none" /\ \A q \in Req : call[q].record # d}]

\* verifyAccessToken, as far as users go.
Verified == tokens

\* resolveTenantContext up to its first query: a request without a valid token
\* is refused and changes nothing.
Arrive(r) == \E u \in Verified, w \in {v \in MemberRequests \cup RecordRequests : v.kind \in Kinds} :
    /\ call[r] = Idle /\ left > 0 /\ left' = left - 1
    /\ call' = [call EXCEPT ![r] = [Idle EXCEPT !.pc = "find", !.kind = w.kind, !.actor = u,
                    !.target = w.target, !.role = w.role, !.list = w.list, !.record = w.record]]
    /\ Well /\ UNCHANGED <<tables, server, history>>

\* Where the handler of an endpoint starts.
First(kind) ==
    CASE kind = "invite" -> "authInvite"
      [] kind \in {"role", "overrides", "remove"} -> "findTarget"
      [] kind \in {"create", "update", "delete"} -> kind

\* A disabled member and one without the permission are refused; "me" is answered with
\* what was just read.
Start(c, row, list) ==
    IF ~row.active \/ ~Permits(c.kind, row.role, list) \/ c.kind = "me" THEN Idle
    ELSE [c EXCEPT !.pc = First(c.kind), !.row = Absent]

\* findWithOverrides is two queries, and READ COMMITTED lets others in between.
FindMember(r) ==
    /\ At(r, "find") /\ Well
    /\ LET u == call[r].actor
       IN IF members[u] = Absent
          THEN Continue(r, [call[r] EXCEPT !.pc = "createDefault"])
          ELSE Continue(r, [call[r] EXCEPT !.pc = "findOverrides", !.row = members[u],
                              !.held = May(u, call[r].kind, members, overrides)])

\* Broken variant: overrides are left out of the permissions.
FindOverridesIgnored(r) ==
    At(r, "findOverrides") /\ Well /\ Continue(r, Start(call[r], call[r].row, {}))

FindOverrides(r) ==
    /\ At(r, "findOverrides") /\ Well
    /\ Continue(r, Start(call[r], call[r].row, overrides[call[r].actor]))

\* createDefaultMember's upsert: whatever was inserted since is overwritten.
DefaultRow(r, role) ==
    LET u == call[r].actor
        row == [role |-> role, active |-> TRUE]
        c == Start([call[r] EXCEPT !.held = TRUE], row, {})
    IN /\ Upsert(r, c, u, row, meant[u])
       /\ UNCHANGED server

\* Broken variant: a person without a row gets the strongest role.
CreateDefaultMemberStrong(r) ==
    At(r, "createDefault") /\ Well /\ \E role \in Roles \ {DefaultRole} : DefaultRow(r, role)

CreateDefaultMember(r) == At(r, "createDefault") /\ Well /\ DefaultRow(r, DefaultRole)

----------------------------------------------------------------------------
(***************************************************************************)
(* members.ts.                                                             *)
(***************************************************************************)
\* Broken variant: a refused invitation still makes a member.
InviteAnyway(r) ==
    /\ At(r, "authInvite") /\ Well
    /\ \/ assigned' = assigned \cup {call[r].target} /\ tokens' = tokens \cup {call[r].target}
       \/ UNCHANGED server
    /\ Go(r, [call[r] EXCEPT !.pc = "upsertInvited"])
    /\ UNCHANGED <<tables, history>>

\* The call may fail, and may have had its effect although it timed out.
AuthAdminInvite(r) ==
    LET invited == /\ assigned' = assigned \cup {call[r].target}
                   /\ tokens' = tokens \cup {call[r].target}
    IN /\ At(r, "authInvite")
       /\ \/ Well /\ invited /\ Go(r, [call[r] EXCEPT !.pc = "upsertInvited"])
          \/ Fault /\ (invited \/ UNCHANGED server) /\ Go(r, Idle)
       /\ UNCHANGED <<tables, history>>

UpsertInvited(r) ==
    /\ At(r, "upsertInvited") /\ Well
    /\ Upsert(r, Idle, call[r].target, [role |-> call[r].role, active |-> TRUE], call[r].role)
    /\ UNCHANGED server

\* What follows once the member is found.
Found(c) ==
    CASE c.kind = "role" -> [c EXCEPT !.pc = "upsertRole", !.row = members[c.target]]
      [] c.kind = "overrides" -> [c EXCEPT !.pc = "deleteOverrides"]
      [] c.kind = "remove" -> [c EXCEPT !.pc = "authRevoke"]

\* changeMemberRole, replaceMemberOverrides and removeMember look the member up
\* first; nobody removes itself.
FindTarget(r) ==
    /\ At(r, "findTarget") /\ Well
    /\ IF \/ call[r].kind = "remove" /\ call[r].target = call[r].actor
          \/ members[call[r].target] = Absent
       THEN Finish(r)
       ELSE Continue(r, Found(call[r]))

\* The row as it was read, with the new role: a row removed since comes back.
ChangeMemberRole(r) ==
    /\ At(r, "upsertRole") /\ Well
    /\ Upsert(r, Idle, call[r].target, [call[r].row EXCEPT !.role = call[r].role], call[r].role)
    /\ UNCHANGED server

\* replaceOverrides, first query: the rows its DELETE sees are gone at its commit.
DeleteOverrides(r) ==
    /\ At(r, "deleteOverrides") /\ Well
    /\ Continue(r, [call[r] EXCEPT !.pc = "insertOverrides", !.seen = overrides[call[r].target]])

\* Broken variant: overrides that are not in the new list stay.
KeptKeepsOthers(c) == {o \in overrides[c.target] : o[1] \notin {n[1] : n \in c.list}}

\* What a transaction inserted after the DELETE began stays.
Kept(c) == overrides[c.target] \ c.seen

\* Second query and commit.  A permission that is there twice, or a member
\* removed meanwhile, is an exception: the transaction is rolled back.
InsertOverrides(r) ==
    /\ At(r, "insertOverrides") /\ Well
    /\ LET c == call[r]
           t == c.target
           clash == {o[1] : o \in Kept(c)} \cap {o[1] : o \in c.list} # {}
           rivals == {q \in Req \ {r} : call[q].pc = "insertOverrides" /\ call[q].target = t}
       IN IF clash \/ (members[t] = Absent /\ c.list # {})
          THEN Finish(r)
          ELSE /\ members' = members
               /\ overrides' = [overrides EXCEPT ![t] = Kept(c) \cup c.list]
               /\ call' = [q \in Req |-> IF q = r THEN Idle
                             ELSE IF q \in rivals THEN [call[q] EXCEPT !.seen = @ \ c.seen]
                             ELSE Noticed(call[q], t, {"list"})]
               /\ left' = left
               /\ sent' = [sent EXCEPT ![t] = c.list]
               /\ overlapped' = overlapped \cup {<<"list", v>> : v \in {w \in {t} : rivals # {}}}
               /\ UNCHANGED <<records, server, meant>>

\* A user the authorization server does not know is removed all the same.
AuthAdminRevoke(r) ==
    /\ At(r, "authRevoke")
    /\ \/ /\ Well /\ assigned' = assigned \ {call[r].target}
          /\ Go(r, [call[r] EXCEPT !.pc = "remove"])
          /\ UNCHANGED <<tables, tokens, history>>
       \/ /\ Fault /\ assigned' \in {assigned, assigned \ {call[r].target}}
          /\ overlapped' = overlapped \cup {<<"servers", call[r].target>>}
          /\ Go(r, Idle)
          /\ UNCHANGED <<tables, tokens, meant, sent>>

\* Broken variant: the overrides outlive the member.
CascadeNothing(t) == overrides

\* ON DELETE CASCADE: the overrides go with the member.
Cascade(t) == [overrides EXCEPT ![t] = {}]

\* members.remove.
RemoveMember(r) ==
    /\ At(r, "remove") /\ Well
    /\ LET t == call[r].target
       IN /\ members' = [members EXCEPT ![t] = Absent]
          /\ overrides' = Cascade(t)
          /\ meant' = [meant EXCEPT ![t] = NoRole]
          /\ sent' = [sent EXCEPT ![t] = {}]
          /\ overlapped' = overlapped \cup Overlaps(r, t)
          /\ call' = [q \in Req |-> IF q = r THEN Idle
                        ELSE IF call[q].target = t THEN [Noticed(call[q], t, {"row", "list"}) EXCEPT !.seen = {}]
                        ELSE Noticed(call[q], t, {"row", "list"})]
    /\ left' = left /\ UNCHANGED <<records, server>>

----------------------------------------------------------------------------
(***************************************************************************)
(* The records of the service: end-users.ts, posts.ts.                     *)
(***************************************************************************)
CreateRecord(r) ==
    /\ At(r, "create") /\ Well
    /\ records' = [records EXCEPT ![call[r].record] = "live"]
    /\ Go(r, Idle) /\ UNCHANGED <<members, overrides, server, history>>

\* An UPDATE of a row that is gone matches nothing: not_found.
UpdateRecord(r) == At(r, "update") /\ Well /\ Finish(r)

DeleteRecord(r) ==
    /\ At(r, "delete") /\ Well
    /\ records' = [records EXCEPT ![call[r].record] = IF @ = "live" THEN "deleted" ELSE @]
    /\ Go(r, Idle) /\ UNCHANGED <<members, overrides, server, history>>

\* The process dies, or a query throws and its transaction is rolled back.
Abort(r) ==
    /\ call[r] # Idle /\ Fault /\ Go(r, Idle)
    /\ overlapped' = overlapped \cup {<<"servers", u>> : u \in {v \in User : BetweenServers(r, v)}}
    /\ UNCHANGED <<tables, server, meant, sent>>

Step(r) ==
    \/ Arrive(r) \/ FindMember(r) \/ FindOverrides(r)
    \/ CreateDefaultMember(r) \/ AuthAdminInvite(r) \/ UpsertInvited(r) \/ FindTarget(r)
    \/ ChangeMemberRole(r) \/ DeleteOverrides(r) \/ InsertOverrides(r)
    \/ AuthAdminRevoke(r) \/ RemoveMember(r)
    \/ CreateRecord(r) \/ UpdateRecord(r) \/ DeleteRecord(r) \/ Abort(r)

Next == \E r \in Req : Step(r)

Spec == Init /\ [][Next]_vars

----------------------------------------------------------------------------
(***************************************************************************)
(* Properties.                                                             *)
(***************************************************************************)
\* A member has the role an administrator gave last (members.ts inviteMember,
\* changeMemberRole; resolve-tenant-context.ts createDefaultMember): a person's
\* own first requests never change it, and a removed person comes back with
\* the default role at most, unless a request that had read the row before
\* wrote it afterwards.
RolesAreMeant == \A u \in User :
    \/ <<"row", u>> \in overlapped
    \/ IF meant[u] = NoRole THEN members[u] = Absent \/ members[u].role = DefaultRole
                            ELSE members[u] # Absent /\ members[u].role = meant[u]

\* A member's overrides are the list an administrator sent last, or none after
\* a removal (pg-member-repository.ts replaceOverrides): two lists are mixed only
\* when two replacements of them overlap, which READ COMMITTED allows.
OverridesAreReplaced == \A u \in User :
    <<"list", u>> \in overlapped \/ overrides[u] = sent[u]

\* What a request is about to do, its member was permitted at some moment since
\* the request read its row (resolve-tenant-context.ts, middleware.ts
\* requirePermission), unless both the row and the overrides changed, as in a
\* removal, between the two queries that read them.
GrantsWereHeld == \A r \in Req :
    \/ call[r].pc \in {"idle", "find", "findOverrides", "createDefault"}
    \/ call[r].held \/ call[r].changed = {"row", "list"}

\* Whoever has a row is assigned to the service at the authorization server
\* (members.ts: invite there first, revoke there first), but for a removal on its
\* way or cut off, for requests that overlapped, and for a removed person whose own
\* request made the row again.
RowsAreBacked == \A u \in User :
    members[u] # Absent =>
        \/ u \in assigned
        \/ <<"servers", u>> \in overlapped
        \/ \E r \in Req : call[r].pc = "remove" /\ call[r].target = u
=============================================================================
