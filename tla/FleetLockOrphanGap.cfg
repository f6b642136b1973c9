SPECIFICATION FairSpec
CONSTANTS
    a = a
    b = b
    c = c
    o = o
    u = u
    New = {a}
    Old = {}
    NoMkdir = {}
    NoRename = {}
    NoWrite = {}
    NoRmdir = {}
    Mortal = {a}
    Signalled = {}
    Recycled = {}
    MaxPolls = 1
    Nobody = Nobody
    Absent = Absent
PROPERTIES EveryOrphanStops
