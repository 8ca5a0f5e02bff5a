\* One part at a time: in-memory stores and repositories next to the production ones,
\* the JWKS cache across a key rotation, provisioning across crashes, the members page.
SPECIFICATION MCSpec

CONSTANTS
    Payloads = {p1, p2}
    Elements = {x1, x2}
    Lifetimes = {0, 1, 2}
    LastInstant = 7
    LastCount = 3
    People = {i1, i2}
    Subs = {s1, s2}
    Mailboxes = {m1, m2}
    Companies = {t1, t2}
    Services = {c1}
    Environments = {e1, e2}
    Grants = {g1}
    IdleLimit = 2
    AbsoluteLimit = 3
    LastMoment = 8
    Verifiers = {z1, z2}
    CacheTtl = 3
    RefreshMinInterval = 2
    LastTick = 4
    ServiceDbs <- MCServiceDbs
    ClientSecrets = {k1, k2}
    Colleagues = {z1, z2}
    Abilities = {a1}
    Effects = {"inherit", "deny"}
    LastVersion = 2
    MostTasks = 1

SYMMETRY MCSymmetry

\* A behaviour ends where its bounds are used up.
CHECK_DEADLOCK FALSE

INVARIANTS StoresAgree RepositoriesAgree KeysFollowRotation ProvisionConverges
PROPERTY SaveTouchesOnlyEdits
