SPECIFICATION CliSpec
CONSTANTS
    m1 = m1
    m2 = m2
    s1 = s1
    Nothing = Nothing
    Models = {m1, m2}
    Stores = {s1}
    DefaultStore = s1
    Argvs <- AllArgvs
    Asked <- AllConfigs
    MaxMessages = 2
    MaxWide = 15
    MaxNarrow = 3
    Unit = 2
    MaxLines = 2
CHECK_DEADLOCK FALSE
INVARIANT
    NumbersAreNeverCoerced
