SPECIFICATION Spec
CONSTANTS
    r1 = r1
    r2 = r2
    r3 = r3
    None = None
    Runs = {r1, r2}
    Names = {"backup"}
    Objects = {"backup#1", "backup#2"}
    NameOf <- AgainNameOf
    AllowOverlap = {}
    Timed = {}
    Listeners = {}
    MaxChain = 2
    ThreadsRunOut = FALSE
SYMMETRY RunSymmetry
CHECK_DEADLOCK FALSE
INVARIANT NoCollision
