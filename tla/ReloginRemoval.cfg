CONSTANTS
    Req = {r1, r2}
    Sid = {s1, s2}
    User = {alice}
    Client = {crm}
    Place = {tanaka, suzuki}
    Code = {k1, k2}
    s1 = s1
    alice = alice
    crm = crm
    k1 = k1
    tanaka = tanaka
    suzuki = suzuki
    UserOf <- MCUserOf
    ClientOf <- MCClientOf
    PlaceOf <- MCPlaceOf
    SidOf <- MCSidOf
    Scopes <- MCReloginOrRemoval
    NoSid = NoSid
    NoCode = NoCode
    NoMember = NoMember
SPECIFICATION Spec
SYMMETRY MCSymmetry
INVARIANTS
    ReplacedSessionIsGone
    QuietRemovalCuts
PROPERTIES
    RemovalIsSelective
\* A behaviour ends when its sessions have.
CHECK_DEADLOCK FALSE
