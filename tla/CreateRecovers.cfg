\* Repeated attempts at one create, or at another that would share its target path.
SPECIFICATION FairSpec
CONSTANTS
    Invocation = {i1, i2}
    app = app
    Requests <- MCEither
    Services <- MCOneService
    Commit = {c1}
    NoOne = NoOne
    NoId = NoId
    NoCommit = NoCommit
    NoBranch = NoBranch
    Meddling = {}
    MaxMeddling = 0
    MaxFaults = 2
PROPERTIES
    NeverInItsOwnWay
    Recovers
\* Every command ends; when all have, nothing is left to do.
CHECK_DEADLOCK FALSE
