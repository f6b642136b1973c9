SPECIFICATION Spec
CONSTANTS
    a = a
    b = b
    c = c
    o = o
    u = u
    New = {a}
    Old = {o}
    NoMkdir = {}
    NoRename = {}
    NoWrite = {}
    NoRmdir = {}
    Mortal = {}
    Signalled = {}
    Recycled = {}
    MaxPolls = 1
    Nobody = Nobody
    Absent = Absent
INVARIANTS OneHeavyJob
