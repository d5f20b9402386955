SPECIFICATION FairSpec
CONSTANTS
    Conns = {c1}
    Reqs = {q1, q2}
    Kinds = {"call", "dummy", "ping", "bad", "noname"}
    Rets = {"nil", "error", "panic"}
    DispatchFails = {"call", "dummy"}
    MaxWaitResp = 1
    UnitePackageNum = 1
    Nil = Nil
INVARIANTS TypeOK IInv GracefulCloseAnswersAll AnsweredOnce  ListedWhileRunning WaitIsForSomebody
PROPERTIES NoResponseLostInStop StopEndsConns 
CHECK_DEADLOCK FALSE
