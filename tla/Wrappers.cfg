SPECIFICATION Spec
CONSTANTS
    o1 = o1
    o2 = o2
    o3 = o3
    a = a
    b = b
    None = None
    Objects <- MCObjects
    Nodes <- MCNodes
    MaxLen = 2
    MaxSessions = 2
SYMMETRY Interchangeable
INVARIANTS
    TypeOK
    RefsConserved
    CollectorHoldsOwners
    CollectedSessionsAreSafe
\* The client may stop after the last session.
CHECK_DEADLOCK FALSE
