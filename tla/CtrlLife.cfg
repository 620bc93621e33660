CONSTANTS
    d = d
    i = i
    Ctrl = {d, i}
    DC = {d}
    Foreign = Foreign
    None = None
    Empty = Empty
    Names = 2
    Races = {}
    MaxDesired = 1
    MaxIno = 2
    MaxFault = 2
SPECIFICATION Spec
CHECK_DEADLOCK FALSE
INVARIANTS
    TypeOK
    

    
