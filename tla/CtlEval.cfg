SPECIFICATION Spec
CONSTANTS
    p = p
    q = q
    r = r
    out = out
    k = k
    l = l
    forbidden = forbidden
    State <- MCState
    Input <- MCInput
    Initial <- MCInitial
    Invar <- MCInvar
    InvarInput <- MCInvarInput
    Justice <- MCJustice
    Edges <- MCEdges
    Args <- MCArgs
    Infs <- MCInfs
    Sups <- MCSups
INVARIANTS
    TypeOK
    UntilIsLeast
    GloballyIsGreatest
    ResultIsMeant
    LengthIsMeant
PROPERTY
    EvaluationEnds
