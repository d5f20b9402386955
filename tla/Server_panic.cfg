SPECIFICATION FairSpec
CONSTANTS
    Conns = {c1}
    Reqs = {q1}
    Kinds = {"call"}
    Rets = {"nil", "panic"}
    DispatchFails = {}
    MaxWaitResp = 1
    UnitePackageNum = 1
    Nil = Nil
PROPERTIES StopStopsService
CHECK_DEADLOCK FALSE
