\* Two creators of one operation and a forget; the probe may answer anything.
SPECIFICATION LeaseSpec
CONSTANTS
    create1 = create1
    create2 = create2
    forget1 = forget1
    creating = creating
    forgetting = forgetting
    NoOne = NoOne
    Invocation <- MCInvocation
    Operation <- MCOperation
    OperationOf <- MCOperationOf
    Forgetting <- MCForgetting
INVARIANTS
    FenceNamesOwner
    StepKeptByFence
PROPERTIES
    ImplementsSingleWriter
\* Every command ends; when all have, nothing is left to do.
CHECK_DEADLOCK FALSE
