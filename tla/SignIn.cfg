CONSTANTS
    Req = {r1, r2}
    c1 = c1
    s1 = s1
    Client = {c1, c2}
    Sid = {s1}
    Code = {k1}
    Token = {t1, t2}
    ClientOf <- MCClientOf
    SidOf <- MCSidOf
    Expiring = {"code", "token", "family", "sid"}
    NoClient = NoClient
    NoCode = NoCode
    NoToken = NoToken
    SignIns = {1, 2}
    Bffs = {"crm", "cms"}
    Browsers = {r1, r2}
    Logins = {r1, r2}
    Labels <- MCLabels
    Known <- MCKnown
    SlugLimit = 3
    Secret <- MCSecret
    OtherSecret <- MCOther
    Reasons = {"not_contracted"}
    Leaving = {"cms"}
    Ending = {2}
    Altered = {1}
    ReturnTexts <- MCReturns
SPECIFICATION MCSpec
SYMMETRY MCSymmetry
INVARIANTS
    IInv
    HeldTokenIsListed
    SignInStaysInItsTenant
\* The behaviours of SignIn end with their two sign-ins.
CHECK_DEADLOCK FALSE
