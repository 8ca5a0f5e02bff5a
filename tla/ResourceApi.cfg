CONSTANTS
    Req = {r1, r2}
    alice = alice
    bob = bob
    carol = carol
    User = {alice, bob, carol}
    Record = {d1}
    Roles = {"owner", "viewer"}
    DefaultRole = "viewer"
    Permissions = {"members:manage", "members:invite", "end_users:create", "end_users:update", "end_users:delete"}
    RolePermissions <- MCRolePermissions
    Lists <- MCLists
    Kinds = {"me", "invite", "role", "overrides", "remove", "create", "update", "delete"}
    Needs <- MCNeeds
    MaxCalls = 3
    MaxFaults = 1
    Starts <- MCStarts
    NoUser = NoUser
    NoRecord = NoRecord
    NoRole = NoRole
    Absent = Absent
SPECIFICATION Spec
SYMMETRY MCSymmetry
INVARIANTS
    TypeOK
    RolesAreMeant
    OverridesAreReplaced
    GrantsWereHeld
    RowsAreBacked
\* The instance ends with its last request.
CHECK_DEADLOCK FALSE
