SPECIFICATION FairSpec
CONSTANTS
    r1 = r1
    r2 = r2
    r3 = r3
    None = None
    Runs = {r1, r2}
    Names = {"backup", "report"}
    Objects = {"backup#1", "report#1"}
    NameOf <- PairNameOf
    AllowOverlap = {}
    Timed = {"backup#1", "report#1"}
    Listeners = {"backup#1", "report#1"}
    MaxChain = 2
    ThreadsRunOut = TRUE
CHECK_DEADLOCK FALSE
INVARIANT ReportedOnce
PROPERTY FiringsSettle
