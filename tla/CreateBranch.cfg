\* A branch that others made.
SPECIFICATION Spec
CONSTANTS
    Invocation = {i1}
    app = app
    Requests <- MCStart
    Services <- MCNoServices
    Commit = {c1}
    NoOne = NoOne
    NoId = NoId
    NoCommit = NoCommit
    NoBranch = NoBranch
    Meddling = {"branch"}
    MaxMeddling = 1
    MaxFaults = 0
INVARIANTS
    BranchIsNew
\* Every command ends; when all have, nothing is left to do.
CHECK_DEADLOCK FALSE
