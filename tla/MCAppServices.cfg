SPECIFICATION AppSpec
CONSTANTS
    NumGroups = 1
    Size <- MCSizeOne
    Proactive = {}
    MaxInstances = 2
    MaxAdverse = 1
    ModelAttempts = 2
    ConnectAttempts = 2
    MaxSourceChanges = 1
    MaxEvictions = 1
    Profiles = {p1}
    Admins = {a1}
    ModelRuns = {r1}
    MaxKeyChanges = 3
    Apps = {z1, z2}
    MaxSessionMishaps = 2
    Pollers = {b1, b2}
    Mixes <- MixesDef
    MaxControlMishaps = 2
    Previews = {q1}
    ChunkCount = 2
    Maintainers = {m1, m2}
    MaxRejectedRetries = 1
    MaxPreviewMishaps = 2
CHECK_DEADLOCK FALSE
INVARIANTS
    ActiveProfileHasKey
    OneRequestPerRun
    SoleSession
PROPERTIES
    KeepsStream
    SendingResolves
    DeletedKeyForgotten
    PreviewsVanish
    UpdatesAreHandled
    DrainEnds
