----------------------------- MODULE DurableCell -----------------------------
(***************************************************************************)
(* What the usage guard and the model registry rely on their store for: a  *)
(* register that a save replaces in one step or not at all, that survives  *)
(* the process, and that a load reads in one step.                         *)
(***************************************************************************)
CONSTANTS Writers, Readers, Values, Missing

VARIABLES
    cell,     \* the stored value, or Missing before the first save
    pending,  \* pending[w]: the value a save in progress wants to store
    outcome,  \* outcome[w]: what the last save returned
    seen      \* seen[r]: what a load in progress or finished returns

vars == <<cell, pending, outcome, seen>>

Init ==
    /\ cell = Missing
    /\ pending = [w \in Writers |-> Missing]
    /\ outcome = [w \in Writers |-> "none"]
    /\ seen = [r \in Readers |-> Missing]

Begin(w, v) ==
    /\ pending[w] = Missing
    /\ pending' = [pending EXCEPT ![w] = v]
    /\ outcome' = [outcome EXCEPT ![w] = "none"]
    /\ UNCHANGED <<cell, seen>>

\* The save takes effect, and only then reports success.
Commit(w) ==
    /\ pending[w] # Missing
    /\ cell' = pending[w]
    /\ pending' = [pending EXCEPT ![w] = Missing]
    /\ outcome' = [outcome EXCEPT ![w] = "ok"]
    /\ UNCHANGED seen

\* The save fails, or its process dies: the old value stays.
Abandon(w) ==
    /\ pending' = [pending EXCEPT ![w] = Missing]
    /\ outcome' = [outcome EXCEPT ![w] = "failed"]
    /\ UNCHANGED <<cell, seen>>

Read(r) ==
    /\ seen' = [seen EXCEPT ![r] = cell]
    /\ UNCHANGED <<cell, pending, outcome>>

Next ==
    \/ \E w \in Writers : Commit(w) \/ Abandon(w) \/ \E v \in Values : Begin(w, v)
    \/ \E r \in Readers : Read(r)

Spec == Init /\ [][Next]_vars
=============================================================================
