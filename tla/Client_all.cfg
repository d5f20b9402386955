SPECIFICATION FairSpec
CONSTANTS
    Servers = {s1, s2}
    Calls = {k1, k2}
    Conns = {c1, c2}
    Infos <- TwoInfos
    MaxWaitCall = 1
    Nil = Nil
INVARIANTS TypeOK IInv DrawFindsServer DrawFollowsWeights ListMatchesConns CallsAccountedFor
PROPERTIES ConnLimit 
CHECK_DEADLOCK FALSE
