CONSTANTS
    v1 = v1
    v2 = v2
    n1 = n1
    n2 = n2
    o1 = o1
    None = None
    Tomb = Tomb
    Start = Start
    Current = Current
    NoTx = NoTx
    MaxId = 1
    Val = {v1, v2}
    Name = {n1, n2}
    Tx = {t1, t2}
    ObsId = {}
    Query <- AllQuery
    Limit <- NoLimit
    Docs <- NoDocs
    Overwrite = {TRUE}
    Ignore = {FALSE}
    ReadOnly = {}
    Parts <- ScalarParts
    Store = "leveldb"
    SnapshotIds = 3
    MaxSnapshots = 3
    Ops = {"insert", "removeId", "transactions", "newSnapshot", "revert", "writefail", "doubt", "reopen"}
    Discipline = {"quiet", "settled"}
SYMMETRY SymmetricTransactions
SPECIFICATION Spec
INVARIANTS SnapshotsOK
PROPERTIES SnapshotsReadOnly
