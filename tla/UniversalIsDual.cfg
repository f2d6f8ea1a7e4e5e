SPECIFICATION Spec
CONSTANTS
    p = p
    q = q
    r = r
    State <- MCState
    Input <- MCInput
    Initial = {p}
    Invar <- MCState
    InvarInput <- MCInput
    Justice = {}
    Agents <- MCAgents
    Action <- MCAction
    Sees <- MCSees
    Systems <- MCSystems
    Fairnesses <- MCFairnesses
    Specs <- MCSpecs
INVARIANTS
    UniversalIsDual
