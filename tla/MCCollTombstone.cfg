CONSTANTS
    v1 = v1
    v2 = v2
    n1 = n1
    n2 = n2
    o1 = o1
    None = None
    Tomb = Tomb
    Start = Start
    Current = Current
    NoTx = NoTx
    MaxId = 2
    Val = {v1}
    Name = {n1, n2}
    Tx = {}
    ObsId = {}
    Query <- AllQuery
    Limit <- NoLimit
    Docs <- NoDocs
    Overwrite = {TRUE}
    Ignore = {FALSE}
    ReadOnly = {}
    Parts <- ScalarParts
    Store = "leveldb"
    SnapshotIds = 6
    MaxSnapshots = 3
    Ops = {"insert", "removeId", "newSnapshot", "removeSnapshot"}
    Discipline = {}
SPECIFICATION Spec
PROPERTIES SnapshotsReadOnly
