\* Overlapping starts, restarts, deletions and forgets of two Services and their Worktree,
\* one of which others disturb.
SPECIFICATION Spec
CONSTANTS
    Invocation = {i1, i2}
    alpha = alpha
    zeta = zeta
    Services <- MCTwoServices
    ServiceStatus = {"absent", "ready"}
    Creation = Creation
    NoOne = NoOne
    Commands = {"start", "restart", "delete", "forget"}
    MaxDrift = 1
    WorktreeMayVanish = TRUE
SYMMETRY Interchangeable
INVARIANTS
    TypeOK
    StateMatchesJournal
    DeletedIsProven
PROPERTIES
    StopsBeforeStarts
    CommitIsSeen
    RemovalAfterBarrier
    TombstonesStay
\* Every command ends; when all have, nothing is left to do.
CHECK_DEADLOCK FALSE
