SPECIFICATION ImportSpec
CONSTANTS
    pct = pct
    eq = eq
    nl = nl
    cr = cr
    ch = ch
    NoFile = NoFile
    line1 = line1
    kId = kId
    kPath = kPath
    kStatus = kStatus
    kSum = kSum
    d0 = d0
    d1 = d1
    d2 = d2
    d3 = d3
    Files <- AllFiles
    MaxTensors = 1
    MaxKvs = 3
    MaxString = 3
    MaxArray = 9
    MaxKey = 2
    BlockSize = 4
    LengthSize = 2
    ChunkSize = 8
    Percent = pct
    Equals = eq
    NewLine = nl
    Escaped = cr
    Letter = ch
    MagicLine = line1
    IdKey = kId
    PathKey = kPath
    StatusKey = kStatus
    ChecksumKey = kSum
    Digits <- AllDigits
    Code <- AllCodes
    Imported <- ImportedFiles
    Checksums <- AllChecksums
    Paths <- AllPaths
    Registries <- AllRegistries
CHECK_DEADLOCK FALSE
INVARIANTS
    WorkIsBounded
    AcceptsTheFormat
    MetadataIsTheFiles
    ImportTypeOK
    VerdictIsTheFiles
    SavedReadsBack
    CutInventsNothing
