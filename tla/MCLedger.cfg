SPECIFICATION RecordsSpec
CONSTANTS
    Transcripts <- MCTranscripts
    Lane <- MCLane
    Quotes <- MCQuotes
    MaxShift = 2
    RecordTol = 1
    Gap = 2
    Minute = 2
    Repo = "m"
    THRESHOLDS_H = {1, 2, 4}
    Buckets <- MCBuckets
    Day = 3
    Floor = 1
    ActiveHours = 3
    Lag = 1
    QuietHours = 1
    Window = 1
    Early = 0
    Menus <- MCAllMenus
    Rest <- MCRest
    Books <- MCBooks
    Closed <- MCClosed
    Longer <- MCLonger
    Distinctive = {"run_trace", "run_trace_all", "Skew_ok", "SaltWorks"}
    Short = {"top", "Skew_ok"}
    Sibling <- MCSibling
    Near = 3
    Around = 1
CHECK_DEADLOCK FALSE
INVARIANTS
    SilenceIsExact
    MeterCountsRequestsOnce
    TagsKept
    NudgesAreAFloor
    
    PinsFindTheirLine
    ToolsAgree

    
