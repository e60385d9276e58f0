SPECIFICATION MCSpec
CONSTANTS
    Entry = {1, 2, 3, 4}
    Prio = {1, 2, 3}
    Updater = {u1, u2}
SYMMETRY UpdaterSymmetry
INVARIANTS pril_validate UpdatersTracked
PROPERTY ImplementsQueue
