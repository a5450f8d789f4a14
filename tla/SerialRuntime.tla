----------------------------- MODULE SerialRuntime -----------------------------
(***************************************************************************)
(* What docs/dashboard.md ("Concurrency model") promises of the dashboard: *)
(* there is at most one loaded model; it is installed only when there is   *)
(* none, and neither installed nor released while a generation streams     *)
(* from it; generations do not overlap.                                    *)
(***************************************************************************)
CONSTANTS Threads, Models, Nothing

VARIABLES
    loaded, \* the loaded model, or Nothing
    serving \* the threads whose client is being streamed to

vars == <<loaded, serving>>

Init == loaded = Nothing /\ serving = {}

Install ==
    /\ loaded = Nothing /\ serving = {}
    /\ loaded' \in Models
    /\ UNCHANGED serving

Release ==
    /\ serving = {}
    /\ loaded' = Nothing
    /\ UNCHANGED serving

Start(t) ==
    /\ loaded # Nothing /\ serving = {}
    /\ serving' = {t}
    /\ UNCHANGED loaded

Finish(t) ==
    /\ t \in serving
    /\ serving' = serving \ {t}
    /\ UNCHANGED loaded

Next == Install \/ Release \/ \E t \in Threads : Start(t) \/ Finish(t)

Spec == Init /\ [][Next]_vars
=============================================================================
