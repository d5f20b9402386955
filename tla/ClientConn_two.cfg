SPECIFICATION Spec
CONSTANTS
    r1 = r1  r2 = r2  r3 = r3  u = u
    Reqs <- TwoReqs
    SyncReqs = {r1}
    UserChans = {}
    AsyncChan <- TwoChan
    UserCap <- UnitCap
    Objs = {o1, o2}
    NoReq = NoReq  NoChan = NoChan  Nil = Nil
    Conns = {c1, c2}
    MaxWaitCall = 1
    UnitePackageNum = 1
    BadReqs = {r2}
    PanicReqs = {}
    PingReqs = {r2}
SYMMETRY ObjConnSymmetry
INVARIANTS IInv 
PROPERTIES KeepsPromise
CHECK_DEADLOCK FALSE
