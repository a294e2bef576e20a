CONSTANTS
    v1 = v1
    v2 = v2
    n1 = n1
    n2 = n2
    o1 = o1
    None = None
    Tomb = Tomb
    Start = Start
    Current = Current
    NoTx = NoTx
    MaxId = 2
    Val = {v1, v2}
    Name = {n1, n2}
    Tx = {t1}
    ObsId = {o1}
    Query <- AllOrField
    Limit <- NoLimit
    Docs <- NoDocs
    Overwrite = {FALSE}
    Ignore = {FALSE, TRUE}
    ReadOnly = {v2}
    Parts <- ScalarParts
    Store = "map"
    SnapshotIds = 6
    MaxSnapshots = 2
    Ops = {"insert", "removeId", "remove", "newSnapshot", "revert", "observe", "transactions", "reopen"}
    Discipline = {"quiet", "apart"}
SYMMETRY SymmetricNames
SPECIFICATION Spec
INVARIANTS ObserversCurrent
