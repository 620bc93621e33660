CONSTANTS
    a = a
    b = b
    i = i
    DC = {a, b}
    IOC = {i}
    Nbft = {}
    MaxHops = 2
    None = None
    Confs <- ConfA
    Pages <- PagesDirect
    Mdns = {b}
    Fc = {}
    Exclusions <- NoExclusions
    LookupFails = FALSE
    StartFails = FALSE
    GivesUp = FALSE
    Serial = FALSE
    MaxReload = 1
    MaxCrash = 2
    MaxLoss = 1
SPECIFICATION Spec
CHECK_DEADLOCK FALSE
INVARIANTS
    TypeOK
    FileIsCurrent
    ConfiguredTracked
PROPERTIES
    UnchangedReleasesNothing
