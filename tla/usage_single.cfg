SPECIFICATION Spec
CONSTANTS
    cli = cli
    dashboard = dashboard
    Procs = {cli}
    Policy <- DailyPolicy
    MaxTokens = 2
    MaxClock = 5
    MaxRecords = 6
    MaxCounter = 100
    MaxTimestamp = 4
    Faults = {"crash", "corruption"}
INVARIANTS
    ExactAccounting
    QuotaOvershootBounded
    CorruptionStopsGeneration
