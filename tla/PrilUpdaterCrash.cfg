CONSTANTS
    Entry = {1, 2}
    Prio = {1}
    Updater = {u1}
SPECIFICATION Spec
INVARIANT UpdaterSurvivesRemoval
