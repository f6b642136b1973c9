SPECIFICATION Spec
CONSTANTS
    NetOrder <- MCNetOrder
    Sources <- MCSources
    Corpus <- MCCorpus
    Chunk = 3
    Threshold = 5
INVARIANTS
    
    
    CensusIsExact
    ConesAreExact
PROPERTIES
    Terminates
