SPECIFICATION FairSpec
CONSTANTS
    m = m
    s = s
    p1 = p1
    p2 = p2
    Root = Root
    NoKind = NoKind
    Uuids <- MCUuids
    Parent <- MCParent
    Path <- MCPath
    Kinds <- MCKinds
    Kind <- MCKind
    TopKinds <- MCTopKinds
    MaxChanges = 1
    MaxQueue = 1
    MaxDowns = 1
    MaxErrors = 1
    RequestTypes = {}
    LateUuids = {}
CHECK_DEADLOCK FALSE
PROPERTIES Converges DeadForgotten
