SPECIFICATION Spec
CONSTANTS
    Conn = {c1}
    Db = {d1, d2}
    Req = {r1, r2}
    Pool = {p1, p2, p3, p4}
    None = None
    MaxVer = 2
    PgVersions = {2}
    Disconnects = TRUE
SYMMETRY Symm
INVARIANT RegisteredPoolsOpen
INVARIANT RegisteredUnderOwnConn
INVARIANT WaitsEnd
PROPERTY ServesLikeRegistry
