SPECIFICATION Spec
CONSTANTS
    SlotCount = 2
    FdCount = 4
    Threads = {t1, t2}
SYMMETRY Symmetry
INVARIANTS
    OneUser
    NothingStrayClosed
