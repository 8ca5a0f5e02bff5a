----------------------------- MODULE Provision ------------------------------
(***************************************************************************)
(* tools/provision: the one-off task that creates roles, tables and seed   *)
(* rows in the identity database and in the database of each service.  It  *)
(* is meant to be run again after a failure or a change of the             *)
(* configuration (docs/deploy.md:73).  The task may stop after any         *)
(* statement; between and during runs people invite, log in, revoke,       *)
(* suspend and remove, and the Cognito pool may be made anew.              *)
(*                                                                         *)
(* One seed user, tenant and contract stand for all of them.  A file of    *)
(* statements sent as one query is one transaction.                        *)
(***************************************************************************)
EXTENDS Naturals, Sequences

CONSTANTS
    ServiceDbs,      \* the services in the order of SERVICES
    ClientSecrets    \* values the configuration may hold

ASSUME ProvisionAssumption ==
    /\ ServiceDbs \in Seq(STRING) /\ ServiceDbs # <<>>
    /\ ClientSecrets # {}

VARIABLES
    stage,       \* the statement the task is about to run
    turn,        \* the service provisionServices is at
    secret,      \* the client secret this run was given
    sub,         \* the sub resolveSubs returned
    useCognito,  \* COGNITO_* is set
    bypasses,    \* the master role is not subject to row level security
    pool,        \* the seed user in Cognito: 0 for none, else its sub
    identity,    \* role, tables, and the rows of the identity database
    serviceDb,   \* role, tables, members and records of each service's database
    meddled,     \* somebody else wrote since the last run started
    stopped      \* the run was stopped, or a call it made failed

provisionVars == <<stage, turn, secret, sub, useCognito, bypasses, pool, identity, serviceDb,
                   meddled, stopped>>

outsideVars == <<useCognito, bypasses, pool, meddled>>

ServiceNames == {ServiceDbs[k] : k \in 1 .. Len(ServiceDbs)}
FallbackSub == 9       \* fallbackSub, of the mock adapter
NoUser == [id |-> "none", sub |-> 0]
NoSub == 0

Resting == {"idle", "done", "failed"}

\* The rows of identity the seed writes.  The user with the seed's address may have been
\* invited under another id before.
EmptyIdentity ==
    [role |-> FALSE, tables |-> FALSE, user |-> NoUser, contract |-> "none",
     client |-> "none", secrets |-> {}, assigned |-> "none"]

\* Left by a run whose seed-data.ts did not have this user yet.
EarlierIdentity ==
    [EmptyIdentity EXCEPT !.role = TRUE, !.tables = TRUE, !.contract = "active",
                          !.client = "active", !.secrets = {secret}]

EmptyServiceDb == [role |-> FALSE, tables |-> FALSE, members |-> FALSE, records |-> FALSE]

ProvisionInit ==
    /\ stage = "idle" /\ turn = 1 /\ secret \in ClientSecrets /\ sub = NoSub
    /\ useCognito \in BOOLEAN /\ bypasses \in BOOLEAN
    /\ pool = 0
    /\ identity \in {EmptyIdentity, EarlierIdentity}
    /\ serviceDb = [s \in ServiceNames |-> EmptyServiceDb]
    /\ meddled = FALSE /\ stopped = FALSE

-----------------------------------------------------------------------------
(* The run.                                                                 *)

Begin(given) ==
    /\ stage \in Resting
    /\ stage' = "role" /\ turn' = 1 /\ secret' = given /\ sub' = NoSub
    /\ meddled' = FALSE /\ stopped' = FALSE
    /\ UNCHANGED <<useCognito, bypasses, pool, identity, serviceDb>>

\* ensureRole: CREATE ROLE or ALTER ROLE, then GRANT; a rerun repeats both.
EnsureRole ==
    /\ stage = "role"
    /\ identity' = [identity EXCEPT !.role = TRUE]
    /\ stage' = "tables"
    /\ UNCHANGED <<turn, secret, sub, outsideVars, serviceDb, stopped>>

\* applySchema: 002_identity.sql unless identity.users exists.
ApplySchema ==
    /\ stage = "tables"
    /\ identity' = [identity EXCEPT !.tables = TRUE]
    /\ stage' = IF useCognito THEN "createUser" ELSE "seedIdentity"
    /\ sub' = IF useCognito THEN NoSub ELSE FallbackSub
    /\ UNCHANGED <<turn, secret, outsideVars, serviceDb, stopped>>

\* createIfMissing: UsernameExistsException is no error.
CreateIfMissing ==
    /\ stage = "createUser"
    /\ pool' = IF pool = 0 THEN 1 ELSE pool
    /\ stage' = "getUser"
    /\ UNCHANGED <<turn, secret, sub, useCognito, bypasses, meddled, identity, serviceDb, stopped>>

\* ensureCognitoUsers: password and attributes are set again, then the sub is read.
GetUser ==
    /\ stage = "getUser"
    /\ sub' = pool
    /\ stage' = IF pool = 0 THEN "failed" ELSE "seedIdentity"
    /\ stopped' = (stopped \/ pool = 0)
    /\ UNCHANGED <<turn, secret, outsideVars, identity, serviceDb>>

\* INSERT INTO identity.users ... ON CONFLICT (cognito_sub): a row with that sub is updated
\* and keeps its id; a row with the address under another sub, or none, is a violation of
\* another constraint, which the clause does not cover.
UserConflicts == identity.user # NoUser /\ identity.user.sub # sub

SeededUser == IF identity.user = NoUser THEN [id |-> "seed", sub |-> sub] ELSE identity.user

\* Broken variant: the former secrets stay active.
SecretsKept == identity.secrets \union {secret}

\* The secret given is the only active one from here on.
Secrets == (identity.secrets \intersect {secret}) \union {secret}

\* seedIdentity: one transaction, rolled back as a whole.
SeedIdentity ==
    /\ stage = "seedIdentity"
    /\ \/ /\ UserConflicts
          /\ stage' = "failed"
          /\ UNCHANGED identity
       \/ /\ ~UserConflicts
          /\ identity' = [identity EXCEPT !.user = SeededUser, !.client = "active",
                                          !.secrets = Secrets, !.contract = "active",
                                          !.assigned = "active"]
          /\ stage' = "serviceRole"
    /\ UNCHANGED <<turn, secret, sub, outsideVars, serviceDb, stopped>>

Here == ServiceDbs[turn]

\* provisionServiceDb, service by service: the role ...
EnsureServiceRole ==
    /\ stage = "serviceRole"
    /\ serviceDb' = [serviceDb EXCEPT ![Here].role = TRUE]
    /\ stage' = "serviceTables"
    /\ UNCHANGED <<turn, secret, sub, outsideVars, identity, stopped>>

\* ... 002_schema.sql unless the members table exists ...
ServiceTables ==
    /\ stage = "serviceTables"
    /\ serviceDb' = [serviceDb EXCEPT ![Here].tables = TRUE]
    /\ stage' = "count"
    /\ UNCHANGED <<turn, secret, sub, outsideVars, identity, stopped>>

\* ... the next service, or the end ...
Onward ==
    IF turn < Len(ServiceDbs)
    THEN turn' = turn + 1 /\ stage' = "serviceRole"
    ELSE turn' = turn /\ stage' = "done"

\* ... SELECT count(*): under FORCE ROW LEVEL SECURITY and without app.tenant_id the
\* policy shows no row ...
SeesMembers == bypasses /\ serviceDb[Here].members

CountMembers ==
    /\ stage = "count"
    /\ IF SeesMembers THEN Onward ELSE stage' = "serviceSeed" /\ turn' = turn
    /\ UNCHANGED <<secret, sub, outsideVars, identity, serviceDb, stopped>>

\* ... and 003_seed.sql, as a whole.  Its INSERTs have no ON CONFLICT and fixed keys, and
\* the policy's WITH CHECK refuses them to a role it applies to.
SeedRefused == ~bypasses \/ serviceDb[Here].members \/ serviceDb[Here].records

ServiceSeed ==
    /\ stage = "serviceSeed"
    /\ \/ /\ SeedRefused
          /\ stage' = "failed"
          /\ UNCHANGED <<serviceDb, turn>>
       \/ /\ ~SeedRefused
          /\ serviceDb' = [serviceDb EXCEPT ![Here].members = TRUE, ![Here].records = TRUE]
          /\ Onward
    /\ UNCHANGED <<secret, sub, outsideVars, identity, stopped>>

\* The task is stopped, or a connection fails, before any statement.
Stop ==
    /\ stage \notin Resting
    /\ stage' = "failed" /\ stopped' = TRUE
    /\ UNCHANGED <<turn, secret, sub, outsideVars, identity, serviceDb>>

-----------------------------------------------------------------------------
(* What happens around it.                                                  *)

Meddle == meddled' = TRUE

Aside == UNCHANGED <<stage, turn, secret, sub, useCognito, bypasses, stopped>>

\* An owner invites the address before the seed has it: a row under another id, without sub.
Invite ==
    /\ identity.client = "active" /\ identity.contract = "active"
    /\ identity.user = NoUser
    /\ identity' = [identity EXCEPT !.user = [id |-> "invited", sub |-> NoSub]]
    /\ Meddle /\ Aside /\ UNCHANGED <<pool, serviceDb>>

\* The person logs in, and the invited row is linked to the sub Cognito has.
Login ==
    /\ identity.user.id = "invited" /\ identity.user.sub = NoSub
    /\ (IF useCognito THEN pool ELSE FallbackSub) # 0
    /\ identity' = [identity EXCEPT !.user.sub = IF useCognito THEN pool ELSE FallbackSub]
    /\ Meddle /\ Aside /\ UNCHANGED <<pool, serviceDb>>

\* The user pool is made anew: the same person, another sub.
RecreatePool ==
    /\ pool = 1 /\ pool' = 2
    /\ Meddle /\ Aside /\ UNCHANGED <<identity, serviceDb>>

\* An assignment is revoked, a contract suspended, a client disabled.
Withdraw ==
    /\ identity.assigned = "active"
    /\ \/ identity' = [identity EXCEPT !.assigned = "none"]
       \/ identity' = [identity EXCEPT !.contract = "suspended"]
       \/ identity' = [identity EXCEPT !.client = "disabled"]
    /\ Meddle /\ Aside /\ UNCHANGED <<pool, serviceDb>>

\* Every member of a service is removed, or everything in it.
EmptyService(s) ==
    /\ serviceDb[s].members
    /\ \E left \in {serviceDb[s].records, FALSE} :
          serviceDb' = [serviceDb EXCEPT ![s].members = FALSE, ![s].records = left]
    /\ Meddle /\ Aside /\ UNCHANGED <<pool, identity>>

ProvisionNext ==
    \/ \E given \in ClientSecrets : Begin(given)
    \/ EnsureRole \/ ApplySchema \/ CreateIfMissing \/ GetUser \/ SeedIdentity
    \/ EnsureServiceRole \/ ServiceTables \/ CountMembers \/ ServiceSeed
    \/ Stop
    \/ Invite \/ Login \/ RecreatePool \/ Withdraw
    \/ \E s \in ServiceNames : EmptyService(s)

ProvisionSpec == ProvisionInit /\ [][ProvisionNext]_provisionVars

-----------------------------------------------------------------------------
\* What a finished run promises.
SeedHeld ==
    /\ identity.role /\ identity.tables
    /\ identity.user # NoUser /\ identity.user.sub = sub
    /\ identity.client = "active" /\ identity.contract = "active"
    /\ identity.assigned = "active"
    /\ identity.secrets = {secret}
    /\ \A s \in ServiceNames :
          serviceDb[s].role /\ serviceDb[s].tables /\ serviceDb[s].members

\* What makes every further run fail until someone repairs it by hand: the address has a
\* row under a sub that is not the one Cognito gives now, a service's members are gone but
\* not its records, or the master role is subject to row level security.
Unrepairable ==
    \/ UserConflicts
    \/ ~bypasses
    \/ \E s \in ServiceNames : ~serviceDb[s].members /\ serviceDb[s].records

\* Provisioning is idempotent (docs/deploy.md:73) in this sense: wherever earlier runs
\* stopped, a run that finishes leaves the databases as the seed says, with the secret it
\* was given as the only active one, unless somebody wrote meanwhile; and one that fails
\* was stopped, or overlapped with such a write, or met one of the states no rerun
\* repairs, the identity seed being rolled back as a whole.
ProvisionConverges ==
    /\ (stage = "done" /\ ~meddled) => SeedHeld
    /\ (stage = "failed" /\ ~meddled) => (stopped \/ Unrepairable)

=============================================================================
