CONSTANTS
    Req = {r1, r2}
    c1 = c1
    s1 = s1
    Client = {c1, c2}
    Sid = {s1}
    Code = {k1}
    Token = {t1, t2, t3}
    ClientOf <- MCClientOf
    SidOf <- MCSidOf
    Expiring = {}
    NoClient = NoClient
    NoCode = NoCode
    NoToken = NoToken
SPECIFICATION HealthySpec
INVARIANT RevocationReachesEveryToken
