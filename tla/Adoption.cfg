\* Two adoptions, a create, kills, and outsiders.
SPECIFICATION Spec
CONSTANTS
    Adopter = {a1, a2}
    Create = create
    Plain = {w1}
    Made = made
    Repository = repo
    NoOne = NoOne
    MaxMeddling = 1
    MaxKills = 1
SYMMETRY Interchangeable
INVARIANTS
    Converged
    CreateUndisturbed
PROPERTIES
    OneMarker
    FactsMoveForward
\* Every command ends; when all have, nothing is left to do.
CHECK_DEADLOCK FALSE
