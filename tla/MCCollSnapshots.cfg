CONSTANTS
    v1 = v1
    v2 = v2
    n1 = n1
    n2 = n2
    o1 = o1
    None = None
    Tomb = Tomb
    Start = Start
    Current = Current
    NoTx = NoTx
    MaxId = 2
    Val = {v1, v2}
    Name = {n1, n2}
    Tx = {}
    ObsId = {}
    Query <- AllOrField
    Limit <- NoLimit
    Docs <- SomeDocs
    Overwrite = {FALSE, TRUE}
    Ignore = {FALSE}
    ReadOnly = {v2}
    Parts <- ScalarParts
    Store = "leveldb"
    SnapshotIds = 6
    MaxSnapshots = 3
    Ops = {"insert", "removeId", "remove", "set", "createIndex", "newSnapshot", "revert", "removeSnapshot", "reopen"}
    Discipline = {"noTombs", "noGaps", "indexFirst", "fresh", "reopens"}
SYMMETRY SymmetricNames
SPECIFICATION Spec
INVARIANTS NoLostDocument ModifiedComplete FindsAgree
PROPERTIES ImplementsDocumentStore
