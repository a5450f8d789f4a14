SPECIFICATION Spec
CONSTANTS
    m1 = m1
    m2 = m2
    s1 = s1
    s2 = s2
    Nothing = Nothing
    Models = {m1, m2}
    Stores = {s1, s2}
    Asked <- AnyConfig
    MaxMessages = 1
INVARIANTS
    ReadyServesOneLoad
    StoppedAtTheGate
    InferenceIsPaid
    StatusTellsReadiness
