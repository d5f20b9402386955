SPECIFICATION Spec
CONSTANTS
    r1 = r1  r2 = r2  r3 = r3  u = u
    Reqs <- MixedReqs
    SyncReqs = {r1}
    UserChans = {u}
    AsyncChan <- MixedChan
    UserCap <- UnitCap
    Objs = {o1, o2, o3}
    NoReq = NoReq  NoChan = NoChan  Nil = Nil
    Conns = {c1}
    MaxWaitCall = 1
    UnitePackageNum = 1
    BadReqs = {r3}
    PanicReqs = {}
    PingReqs = {}
SYMMETRY ObjSymmetry
INVARIANTS TypeOK CallsNotShared ResponseReachesItsCall NilErrorMeansAnswered SyncCallIsNotified DeadConnHoldsNothing
PROPERTIES SecondReportNeedsShutdown
CHECK_DEADLOCK FALSE
