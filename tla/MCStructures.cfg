CONSTANTS
    Nil = Nil
    NotFound = NotFound
    Same = Same
    k1 = k1
    k2 = k2
    v1 = v1
    v2 = v2
    t1 = t1
    t2 = t2
    f1 = f1
    f2 = f2
SPECIFICATION MCSpec
INVARIANTS QueryRight LinkRight MemTableRight LogRight CachesRight TableRight AnswersRight
PROPERTY MapWrites
CHECK_DEADLOCK FALSE
