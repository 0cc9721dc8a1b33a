SPECIFICATION Spec
CONSTANTS
    Task = {t1, t2}
    Cfg = {c1, c2, c3}
    c1 = c1
    c2 = c2
    c3 = c3
    app = app
    app_old = app_old
    prod = prod
    prod_app = prod_app
    bucket = bucket
    folder = folder
    drive = drive
    NameOf <- ThreeNames
    PlaceOf <- ThreePlaces
    StemOf <- ThreeStems
    KeepOf <- Keep1
    Begins <- Alike
    Contains <- Alike
    Place = {bucket, folder}
    S3 = {bucket}
    Unfiled = {}
    None = None
    Flaky = {t1}
    MaxNow = 4
\* the clock stops and every run ends
CHECK_DEADLOCK FALSE
INVARIANT KeptWithinRetention
INVARIANT OldBackupsGone
PROPERTY OnlyOutdatedDeleted
