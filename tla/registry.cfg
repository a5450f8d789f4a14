SPECIFICATION Spec
CONSTANTS
    cli = cli
    dashboard = dashboard
    p1 = p1
    p2 = p2
    a = a
    b = b
    Nothing = Nothing
    Absent = Absent
    Malformed = Malformed
    Procs = {cli, dashboard}
    Paths = {p1, p2}
    Contents = {a, b}
    Invalid = {b}
    Asked <- Typed
    Faults = {"midway", "save_fails", "damage", "crash"}
INVARIANTS
    UniqueIds
    EntriesAreWitnessed
    OpenedWasVerified
PROPERTY ForgottenOnlyByStaleCopies
SYMMETRY SamePaths
