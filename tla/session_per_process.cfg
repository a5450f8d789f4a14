SPECIFICATION Spec
CONSTANTS
    cli = cli
    dashboard = dashboard
    Procs = {cli}
    Policy <- SessionPolicy
    MaxTokens = 1
    MaxClock = 3
    MaxRecords = 2
    MaxCounter = 100
    MaxTimestamp = 100
    Faults = {}
INVARIANT SessionTimePerProcess
