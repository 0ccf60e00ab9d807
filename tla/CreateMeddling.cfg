\* Others move, occupy, use and change what one create needs.
SPECIFICATION Spec
CONSTANTS
    Invocation = {i1, i2}
    app = app
    Requests <- MCStart
    Services <- MCOneService
    Commit = {c1, c2}
    NoOne = NoOne
    NoId = NoId
    NoCommit = NoCommit
    NoBranch = NoBranch
    Meddling = {"base", "branch", "target", "remove", "service", "lifecycle"}
    MaxMeddling = 1
    MaxFaults = 2
SYMMETRY Interchangeable
INVARIANTS
    CreateStateAgrees
    CreateJournalComplete
    StagingHasReceipt
    CompletedIsThere
PROPERTIES
    ResolvedOnce
    CreateIsFinal
    NoResurrection
\* Every command ends; when all have, nothing is left to do.
CHECK_DEADLOCK FALSE
