SPECIFICATION Spec
CONSTANTS
    a = a
    b = b
    None = None
    Proc = {a, b}
    Races = {}
    MaxSeq = 6
INVARIANTS TypeOK 
PROPERTIES  StaleEntryGoes
CHECK_DEADLOCK FALSE
