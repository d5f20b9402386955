SPECIFICATION Spec
CONSTANTS
    Servers = {s1}
    Calls = {k1}
    Conns = {c1}
    Infos <- OneInfo
    MaxWaitCall = 1
    Nil = Nil
PROPERTIES PauseIsKept
CHECK_DEADLOCK FALSE
