SPECIFICATION LayoutSpec
CONSTANTS
    Files <- TwoFiles
    Base = "base"
    EnclosedBy <- InBase
    FileID = 9
    Data <- MCData
    MaxElements = 2
    MaxTempMem = 2
    FlushChanges = TRUE
    EmbeddedCrash = FALSE
INVARIANTS
    LayoutTypeOK
    AssertionsHold
PROPERTIES
    KeepsContents
