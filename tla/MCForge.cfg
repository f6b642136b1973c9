SPECIFICATION CommonsSpec
CONSTANTS
    Files <- MCFiles
    Lines <- MCLines
    Shapes <- MCShapes
    NamedFiles = {"box"}
    Kind <- MCKind
    Decl <- MCDecl
    Pieces <- MCPieces
    Version <- MCVersion
    Cites <- MCCites
    Menus <- MCMenus
    MaxEdits = 2
    Posters = {"maestro", "math"}
    Hands = {"helm"}
    Watchers = {"math"}
    Maestro = "maestro"
    Keys = {2, 3}
    MaxPosts = 2
    Sealers = {"p", "q", "r"}
    Clones = {"c", "d"}
    CloneOf <- MCCloneOf
    Labels = {"L"}
    Texts = {"none", "v", "w"}
    Empty = "none"
    MaxLines = 2
CHECK_DEADLOCK FALSE
INVARIANTS
    
    NoSpuriousRed
    GreenVouchesForHistory
    ForgeMergesClean
    ClaimsStayRead
    OneCommitment
    
PROPERTIES
    OnlyAccountedPublished
    PinDriftStopsPushes
    DebtKept
