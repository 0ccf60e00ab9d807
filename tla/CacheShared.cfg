\* Two creates of one source and one of another, whose caches share a directory.
SPECIFICATION Spec
CONSTANTS
    Invocation = {i1, i2}
    o1 = o1
    o2 = o2
    o3 = o3
    Operation = {o1, o2, o3}
    s1 = s1
    s2 = s2
    Source = {s1, s2}
    SourceOf <- MCSourceOf
    NoOne = NoOne
    NoOperation = NoOperation
    MaxVersion = 2
    MaxFaults = 2
SYMMETRY Interchangeable
INVARIANTS
    ResolvesFresh
PROPERTIES
    EntryStays
    CloneKept
    NeedsNoOrigin
\* Creates get completed, or nobody can help them any more.
CHECK_DEADLOCK FALSE
