SPECIFICATION Spec
CONSTANTS
    a = a
    b = b
    c = c
    o = o
    u = u
    New = {a, b}
    Old = {}
    NoMkdir = {}
    NoRename = {}
    NoWrite = {}
    NoRmdir = {}
    Mortal = {}
    Signalled = {a}
    Recycled = {}
    MaxPolls = 1
    Nobody = Nobody
    Absent = Absent
INVARIANTS HandlerStopsLake
