SPECIFICATION Spec
CONSTANTS
    Db = {"d1"}
    Key = {1, 2}
    Col = {"note", "tag"}
    OldCol = {"note"}
    Tables <- Start
    Link = {l1}
    Req = {r1, r2}
    None = None
    PageSize = 1
    Queries <- Editor
    UseWorks = TRUE
    Interrupts = TRUE
    MaxLog = 3
SYMMETRY Symm
INVARIANT AuditTruthful
