CONSTANT MaxSessions = 2
SPECIFICATION MasSpec
INVARIANTS
    TypeOK
    FlagsMatchStructures
    CachesAreCurrent
    OnlySoundModels
    ReadTreeIsLive
    CrashesOnlyHalfWay
    MasIsCurrent
    MainIsFound
PROPERTIES
    ComputeDelivers
    MasDelivers
    PipelineSpec
