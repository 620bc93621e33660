SPECIFICATION Spec
CONSTANTS
    i1 = i1
    tcp = tcp
    udp = udp
    n1 = n1
    e1 = e1
    e2 = e2
    If = {i1}
    Type = {tcp, udp}
    Name = {n1}
    Ep = {e1, e2}
    Tcp = {e1}
    Ads <- MCAds
    MaxDelay = 3
    MaxIdx = 1
    MaxChange = 6
    MaxStop = 1
    Races = {}
INVARIANTS
    TypeOK

    
    
CHECK_DEADLOCK FALSE
