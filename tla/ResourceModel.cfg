SPECIFICATION Spec
CONSTANTS
    m = m
    s = s
    p1 = p1
    p2 = p2
    Root = Root
    NoKind = NoKind
    Uuids <- MCUuids
    Parent <- MCParent
    Path <- MCPath
    Kinds <- MCKinds
    Kind <- MCKind
    TopKinds <- MCTopKinds
    MaxChanges = 2
    MaxQueue = 1
    MaxDowns = 1
    MaxErrors = 0
    RequestTypes = {"create", "patch", "delete"}
    LateUuids = {p1}
CHECK_DEADLOCK FALSE
INVARIANTS SubscribersFollow
PROPERTIES NoSpuriousRemoval 
