SPECIFICATION FairSpec
CONSTANTS
    MaxWord = 255
    MaxLayers = 3
    MaxEmbd = 6
    MaxHeads = 4
    MaxCtx = 8
    Element = 2
    Multiplier = 4
    Overhead = 3
    Files <- AllFiles
    Configs <- AllConfigs
    Capacities <- Roomy
    Texts <- AllTexts
    Vocabulary <- AllPieces
    TemplateBuffer = 4
    PieceBuffer = 2
    Begin = 8
    Turn = 9
    Junk = 0
    Handles = {1, 2}
    Null = Null
INVARIANTS
    HandlesOwned
    ContextAccounted
    StreamedIsRemembered
    AdmissionIsExact
    TextIsWhole
PROPERTY CallsReturn
