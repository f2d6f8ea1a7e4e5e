SPECIFICATION Spec
CONSTANTS
    p = p
    q = q
    r = r
    out = out
    k = k
    l = l
    State <- MCState
    Input <- MCInput
    Initial <- MCInitial
    Invar <- MCInvar
    InvarInput <- MCInvarInput
    Justice <- MCJustice
    Edges <- MCEdges
    Node <- MCNode
    Syntax <- MCSyntax
    Explained <- MCExplained
    Witnessed <- MCWitnessed
    Checked <- MCChecked
INVARIANT
    BoundedUntilInF
