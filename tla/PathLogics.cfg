SPECIFICATION Spec
CONSTANTS
    p = p
    q = q
    r = r
    out = out
    a = a
    b = b
    forbidden = forbidden
    State <- MCState
    Input <- MCInput
    Initial <- MCInitial
    Invar <- MCInvar
    InvarInput <- MCInvarInput
    Justice <- MCJustice
    Edges <- MCEdges
    Args <- MCArgs
    Alphas <- MCAlphas
INVARIANTS
    FairnessIsMeant
    CtlToolsAreMeant
    ArctlIsMeant
