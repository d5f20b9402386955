SPECIFICATION FairSpec
CONSTANTS
    Servers = {s1}
    Calls = {k1, k2}
    Conns = {c1, c2}
    Infos <- OneInfo
    MaxWaitCall = 1
    Nil = Nil
PROPERTIES SyncCallReturns
CHECK_DEADLOCK FALSE
