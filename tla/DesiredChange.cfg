CONSTANTS
    a = a
    b = b
    i = i
    DC = {a, b}
    IOC = {i}
    Nbft = {}
    MaxHops = 2
    None = None
    Confs <- ConfNamed
    Pages <- PagesAny
    Mdns = {b}
    Fc = {i}
    Exclusions <- ExcludeI
    LookupFails = TRUE
    StartFails = FALSE
    GivesUp = TRUE
    Serial = FALSE
    MaxReload = 2
    MaxCrash = 0
    MaxLoss = 1
SPECIFICATION FairSpec
CHECK_DEADLOCK FALSE
PROPERTIES
    ReleasesHappen
