---------------------------- MODULE MCUsageManager ----------------------------
(* Instances of UsageManager for TLC: small policies over a short clock.   *)
EXTENDS UsageManager, TLC

CONSTANTS cli, dashboard  \* two processes that share the state file

Limits(time, messages, tkns, reset) ==
    [time_limit |-> time, message_limit |-> messages, token_limit |-> tkns,
     reset_period |-> reset]

\* Messages and tokens limited, no session limit: three messages or three tokens.
DailyPolicy == [p \in Procs |-> Limits(0, 3, 3, 2)]

\* Messages and tokens limited over the shortest period, so that either runs out first.
ShortPolicy == [p \in Procs |-> Limits(0, 2, 1, 1)]

\* Only the session's time is limited.
SessionPolicy == [p \in Procs |-> Limits(1, 0, 0, 3)]

\* Sound where the processes have the same policy and no liveness is checked.
Interchangeable == Permutations(Procs)
=============================================================================
