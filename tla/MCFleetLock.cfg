SPECIFICATION Spec
CONSTANTS
    a = a
    b = b
    c = c
    o = o
    u = u
    New = {a, b, c}
    Old = {}
    NoMkdir = {}
    NoRename = {b}
    NoWrite = {c}
    NoRmdir = {c}
    Mortal = {a, b, c}
    Signalled = {a, b}
    Recycled = {a}
    MaxPolls = 1
    Nobody = Nobody
    Absent = Absent
INVARIANTS OneGuardedBuild MarkerNamesBuild NoSleepOnCorpse  
PROPERTIES SignalledNeverBuilds AbsSpec
