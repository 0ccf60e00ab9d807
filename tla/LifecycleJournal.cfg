\* Three attempts to delete, two of them planned at the same time.
SPECIFICATION Spec
CONSTANTS
    Invocation = {i1, i2, i3}
    alpha = alpha
    zeta = zeta
    Services <- MCOneService
    ServiceStatus = {"absent", "ready"}
    Creation = Creation
    NoOne = NoOne
    Commands = {"delete"}
    MaxDrift = 0
    WorktreeMayVanish = FALSE
SYMMETRY Interchangeable
INVARIANTS
    JournalComplete
\* Every command ends; when all have, nothing is left to do.
CHECK_DEADLOCK FALSE
