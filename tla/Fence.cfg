\* The groups of one invocation may close the inherited descriptor; guardians may give up.
SPECIFICATION FairSpec
CONSTANTS
    Invocation = {i1, i2}
    Creators = {i1, i2}
    creating = creating
    stopping = stopping
    NoOne = NoOne
    Forgetting = {}
    Operation <- MCOperation
    OperationOf <- MCOperationOf
    Dropping = {i2}
    GuardianMayGiveUp = TRUE
INVARIANTS
    FenceTypeOK
    NoFalseDeathWhenSure
    EffectsUnderLease
    HoldersKeepLease
    CrashFence
PROPERTIES
    FenceKept
    Recoverable
    MarkersCleaned
\* Every command ends; when all have, nothing is left to do.
CHECK_DEADLOCK FALSE
