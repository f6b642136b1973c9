SPECIFICATION Spec
CONSTANTS
    Job = {1, 2, 3}
    Rank <- MCRank
    NoTicket = {}
    Mortal = {1}
    Signalled = {3}
    Recycled = {}
    Nobody = Nobody
    MaxClock = 1
INVARIANTS InOrder
PROPERTIES  AbsSpec
