SPECIFICATION FairSpec
CONSTANTS
    Job = {1, 2, 3}
    Rank <- MCRank
    NoTicket = {2}
    Mortal = {1}
    Signalled = {}
    Recycled = {1}
    Nobody = Nobody
    MaxClock = 1
PROPERTIES EveryTicketIsServed
