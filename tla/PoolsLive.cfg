SPECIFICATION LiveSpec
CONSTANTS
    Conn = {c1}
    Db = {d1}
    Req = {r1, r2}
    Pool = {p1, p2, p3}
    None = None
    MaxVer = 1
    PgVersions = {1}
    Disconnects = FALSE
PROPERTY EveryRequestFinishes
INVARIANT EvictedPoolsQuiet
