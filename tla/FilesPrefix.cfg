SPECIFICATION Spec
CONSTANTS
    Task = {t1, t2}
    Cfg = {c1, c2}
    c1 = c1
    c2 = c2
    c3 = c3
    app = app
    app_old = app_old
    prod = prod
    prod_app = prod_app
    bucket = bucket
    folder = folder
    drive = drive
    NameOf <- TwoNames
    PlaceOf <- BucketAndDrive
    StemOf <- TwoNames
    KeepOf <- Keep12
    Begins <- Alike
    Contains <- Alike
    Place = {bucket, drive}
    S3 = {bucket}
    Unfiled = {drive}
    None = None
    Flaky = {}
    MaxNow = 4
\* the clock stops and every run ends
CHECK_DEADLOCK FALSE
SYMMETRY Symm
INVARIANT KeptWithinRetention
