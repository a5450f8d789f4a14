SPECIFICATION Spec
CONSTANTS
    cli = cli
    dashboard = dashboard
    Procs = {cli, dashboard}
    Policy <- ShortPolicy
    MaxTokens = 1
    MaxClock = 2
    MaxRecords = 2
    MaxCounter = 2
    MaxTimestamp = 100
    Faults = {"removal", "rollback", "crash"}
INVARIANTS
    NeverOvercharged
    DenialsExpire
PROPERTY
    LostOnlyToStaleCopies
SYMMETRY Interchangeable
