CONSTANTS
    a = a
    b = b
    c = c
    i = i
    DC = {a, b, c}
    IOC = {i}
    Nbft = {}
    MaxHops = 1
    None = None
    Pages <- MCPages
    Confs <- MCConfs
SPECIFICATION InventorySpec
INVARIANTS
    HopsAreShortest
    DesiredByChain
    SourceExplains
    FirstLookupsCounted
