SPECIFICATION Spec
CONSTANTS
    s0 = s0
    s1 = s1
    s2 = s2
    s3 = s3
    out = out
    a = a
    b = b
    forbidden = forbidden
    f1 = f1
    f2 = f2
    NoSet = NoSet
    UseReachable = TRUE
    State <- MCState
    Input <- MCInput
    Initial <- MCInitial
    Invar <- MCInvar
    InvarInput <- MCInvarInput
    Justice <- MCJustice
    Fsm <- MCFsm
    Models <- MCModels
    Replacements <- MCReplacements
    Overrides <- MCOverrides
    Bads <- MCBads
    MaxBudget = 2
INVARIANTS
    TypeOK
    LayersAreOnion
    SetsAreCurrent
    ObjectsAgree
    VerdictRight
PROPERTIES
    OnionOnlyGrows
    CallsReturn
