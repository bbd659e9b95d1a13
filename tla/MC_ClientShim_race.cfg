CONSTANTS
    t1 = t1
    t2 = t2
    a1 = a1
    a2 = a2
    Threads <- MCThreads
    Addrs <- MCAddrs
    MaxHeld <- MCMaxHeld
SPECIFICATION Spec
INVARIANT NoMapRace
