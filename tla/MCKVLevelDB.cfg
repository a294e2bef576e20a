CONSTANTS
    Key = {k1, k2}
    Val = {v1}
    Tx = {t1, t2}
    NotFound = NotFound
    Same = Same
    MaxBatch = 2
    Holes = FALSE
SYMMETRY Perms
SPECIFICATION Spec
INVARIANT ReadYourWrites
PROPERTY ImplementsKV
