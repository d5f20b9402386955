SPECIFICATION Spec
CONSTANTS
    Servers = {s1, s2}
    Calls = {k1, k2, k3}
    Conns = {c1, c2}
    Infos <- OneInfo
    MaxWaitCall = 1
    Nil = Nil
PROPERTIES InvalidMeansUnusable
CHECK_DEADLOCK FALSE
