SPECIFICATION FairSpec
CONSTANTS
    r1 = r1  r2 = r2  r3 = r3  u = u
    Reqs <- TwoReqs
    SyncReqs = {r1, r2}
    UserChans = {}
    AsyncChan <- NoAsync
    UserCap <- UnitCap
    Objs = {o1, o2}
    NoReq = NoReq  NoChan = NoChan  Nil = Nil
    Conns = {c1}
    MaxWaitCall = 2
    UnitePackageNum = 1
    BadReqs = {r2}
    PanicReqs = {r2}
    PingReqs = {}
PROPERTIES  ShutdownStopsWriter WriterExitShutsDown
CHECK_DEADLOCK FALSE
