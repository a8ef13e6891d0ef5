CONSTANTS
    Objs = {o1, o2, o3}
    Props = {p1, p2}
    NoObj = NoObj
    MaxInits = 2
    MayResetOwn = FALSE
SPECIFICATION Spec
INVARIANTS TypeOK InitializerIsOwed OneInitializerAtATime LazyGhostShowsOnlySkipped RealizedGhostIsComplete
SYMMETRY Symmetry
