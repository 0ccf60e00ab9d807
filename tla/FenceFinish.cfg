\* Groups may close the inherited descriptor, and guardians may give up.
SPECIFICATION Spec
CONSTANTS
    Invocation = {i1, i2}
    Creators = {i1}
    creating = creating
    stopping = stopping
    NoOne = NoOne
    Forgetting = {}
    Operation <- MCOperation
    OperationOf <- MCOperationOf
    Dropping = {i1, i2}
    GuardianMayGiveUp = TRUE
INVARIANTS
    NoFalseDeath
\* Every command ends; when all have, nothing is left to do.
CHECK_DEADLOCK FALSE
