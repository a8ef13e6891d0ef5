CONSTANTS
    Objs = {o1, o2}
    Props = {p1}
    NoObj = NoObj
    MaxInits = 2
    MayResetOwn = FALSE
SPECIFICATION Spec
INVARIANT ProxyChainEnds
