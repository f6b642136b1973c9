SPECIFICATION FairSpec
CONSTANTS
    a = a
    b = b
    c = c
    o = o
    u = u
    New = {a, b}
    Old = {o, u}
    NoMkdir = {b}
    NoRename = {b}
    NoWrite = {}
    NoRmdir = {}
    Mortal = {a}
    Signalled = {b}
    Recycled = {}
    MaxPolls = 1
    Nobody = Nobody
    Absent = Absent
PROPERTIES EveryWaitEnds WatchedOrphanStops
