SPECIFICATION FairSpec
CONSTANTS
    t1 = t1
    t2 = t2
    t3 = t3
    m1 = m1
    m2 = m2
    h1 = h1
    h2 = h2
    Threads <- Workers
    Models <- Gguf
    Handles <- Free
    MaxTokens = 1
    MaxRequests = 4
    Nothing = Nothing
CHECK_DEADLOCK FALSE
INVARIANTS
    OneRuntime
    LoadedIsTrue
    ReloadIsOfTheSame
PROPERTIES
    SerialSpec
    EveryRequestAnswered
