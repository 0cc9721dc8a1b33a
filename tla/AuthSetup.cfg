SPECIFICATION Spec
CONSTANTS
    Sid = {s1}
    Username = {u1, u2}
    Req = {r1, r2}
    None = None
    MaxFails = 2
    LockSecs = 1
    IdleTimeout = 0
    MaxNow = 2
SYMMETRY Symm
INVARIANT SingleAdmin
