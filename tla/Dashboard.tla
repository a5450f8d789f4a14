------------------------------- MODULE Dashboard -------------------------------
(***************************************************************************)
(* src/dashboard/dashboard.cpp: threads of the HTTP server that share one  *)
(* runtime handle, its last status and the last configuration, behind      *)
(* operation_mutex_.  The HTTP library is external: it calls a handler on  *)
(* some thread, and the stream's writability is what the client makes it.  *)
(* The C API is what Runtime describes: a create gives a loaded handle,    *)
(* one kept for its diagnostic, or none.                                   *)
(***************************************************************************)
EXTENDS Naturals, FiniteSets

CONSTANTS
    Threads,     \* of the HTTP server
    Models,      \* ids or paths of models
    Handles,     \* bound: runtime objects alive at once
    MaxTokens,   \* tokens a generation may stream
    MaxRequests, \* bound: requests the clients send
    Nothing      \* no thread, model or handle; a malformed load body

ASSUME DashboardAssumption ==
    /\ Nothing \notin Threads \cup Models \cup Handles
    /\ MaxTokens \in Nat /\ MaxRequests \in Nat

Kinds == {"load", "unload", "reload", "reset", "generate", "runtime", "report", "health"}

\* OK; a failure with a handle for the diagnostic; a failure without.
Statuses == {"OK", "kept", "failed"}

VARIABLES
    pc,          \* where each thread is in its handler
    kind,        \* the request each thread handles
    target,      \* the model of a load or reload
    mine,        \* the handle in use by a create or a generation of the thread
    tokens,      \* tokens streamed by the thread's generation
    lock,        \* the owner of operation_mutex_
    runtime,     \* runtime_
    state,       \* state_: the model of the last configuration with a handle
    last_status, \* last_status_
    objects,     \* the runtime objects that exist
    resident,    \* those of them that have a model loaded
    holds,       \* the model each object was created for
    requests     \* requests sent so far

thread == <<pc, kind, target, mine, tokens>>
shared == <<runtime, state, last_status, objects, resident, holds>>
vars == <<thread, lock, shared, requests>>

Init ==
    /\ pc = [t \in Threads |-> "idle"]
    /\ kind = [t \in Threads |-> "health"]
    /\ target = [t \in Threads |-> Nothing]
    /\ mine = [t \in Threads |-> Nothing]
    /\ tokens = [t \in Threads |-> 0]
    /\ lock = Nothing
    /\ runtime = Nothing /\ state = Nothing /\ last_status = "OK"
    /\ objects = {} /\ resident = {} /\ holds = [h \in Handles |-> Nothing]
    /\ requests = 0
-----------------------------------------------------------------------------
Goto(t, label) == pc' = [pc EXCEPT ![t] = label]

\* The handler returns, and the lock_guard with it.
Answer(t) ==
    /\ Goto(t, "idle") /\ lock' = Nothing
    /\ mine' = [mine EXCEPT ![t] = Nothing]
    /\ tokens' = [tokens EXCEPT ![t] = 0]
    /\ target' = [target EXCEPT ![t] = Nothing]
    /\ UNCHANGED kind

\* A request reaches a thread; only health goes ahead without the mutex.
Arrive(t) ==
    /\ pc[t] = "idle" /\ requests < MaxRequests
    /\ requests' = requests + 1
    /\ \E k \in Kinds : kind' = [kind EXCEPT ![t] = k]
    /\ target' \in {[target EXCEPT ![t] = m] : m \in
                        IF kind'[t] = "load" THEN Models \cup {Nothing} ELSE {Nothing}}
    /\ Goto(t, IF kind'[t] = "health" THEN "read" ELSE "wait")
    /\ UNCHANGED <<mine, tokens, lock, shared>>

Acquire(t) ==
    /\ pc[t] = "wait" /\ lock = Nothing
    /\ lock' = t
    /\ Goto(t, "locked")
    /\ UNCHANGED <<kind, target, mine, tokens, shared, requests>>

Handling(t, k) == pc[t] = "locked" /\ kind[t] = k

\* unload_current.
UnloadCurrent ==
    /\ runtime' = Nothing
    /\ objects' = objects \ {runtime} /\ resident' = resident \ {runtime}
    /\ last_status' = "OK"

Unload(t) ==
    /\ Handling(t, "unload")
    /\ UnloadCurrent
    /\ Answer(t)
    /\ UNCHANGED <<state, holds, requests>>

\* Mutation: the previous runtime is destroyed only when the new one is there.
LoadFromRequest_KeepsOld(t, m) ==
    IF m = Nothing
    THEN Answer(t) /\ UNCHANGED <<shared, requests>>
    ELSE /\ target' = [target EXCEPT ![t] = m]
         /\ Goto(t, "create")
         /\ UNCHANGED <<kind, mine, tokens, lock, shared, requests>>

\* load_from_request up to syj_edgemind_create; a bad body leaves everything alone.
LoadFromRequest(t, m) ==
    IF m = Nothing
    THEN Answer(t) /\ UNCHANGED <<shared, requests>>
    ELSE /\ UnloadCurrent
         /\ target' = [target EXCEPT ![t] = m]
         /\ Goto(t, "create")
         /\ UNCHANGED <<kind, mine, tokens, lock, state, holds, requests>>

Load(t) == Handling(t, "load") /\ LoadFromRequest(t, target[t])

\* Mutation: reload goes through the load route, which takes the mutex again.
Reload_Relocks(t) ==
    /\ Handling(t, "reload")
    /\ Goto(t, "wait")
    /\ kind' = [kind EXCEPT ![t] = "load"] /\ target' = [target EXCEPT ![t] = state]
    /\ UNCHANGED <<mine, tokens, lock, shared, requests>>

\* reload_current, which has nothing to reload before the first load with a handle.
Reload(t) == Handling(t, "reload") /\ LoadFromRequest(t, state)

\* syj_edgemind_create constructs the object, then loads for as long as it takes.
CreateBegins(t) ==
    /\ pc[t] = "create"
    /\ \E h \in Handles \ objects :
          /\ objects' = objects \cup {h}
          /\ holds' = [holds EXCEPT ![h] = target[t]]
          /\ mine' = [mine EXCEPT ![t] = h]
    /\ Goto(t, "creating")
    /\ UNCHANGED <<kind, target, tokens, lock, runtime, state, last_status, resident, requests>>

\* Mutations: what is assigned only when the load succeeded.
Assign_StatusIfOk(t, status) ==
    /\ runtime' = mine[t] /\ state' = target[t]
    /\ last_status' = IF status = "OK" THEN status ELSE last_status

Assign_StateIfOk(t, status) ==
    /\ runtime' = mine[t] /\ last_status' = status
    /\ state' = IF status = "OK" THEN target[t] ELSE state

Assign(t, status) ==
    runtime' = mine[t] /\ state' = target[t] /\ last_status' = status

CreateEnds(t) ==
    /\ pc[t] = "creating"
    /\ \E status \in Statuses :
          IF status = "failed"
          THEN /\ last_status' = status
               /\ objects' = objects \ {mine[t]}
               /\ UNCHANGED <<runtime, state, resident>>
          ELSE /\ Assign(t, status)
               /\ resident' = IF status = "OK" THEN resident \cup {mine[t]} ELSE resident
               /\ UNCHANGED objects
    /\ Answer(t)
    /\ UNCHANGED <<holds, requests>>
-----------------------------------------------------------------------------
\* reset, /api/runtime, /api/memory and /api/usage read the handle and change nothing here.
Diagnose(t) ==
    /\ \E k \in {"reset", "runtime", "report"} : Handling(t, k)
    /\ Answer(t)
    /\ UNCHANGED <<shared, requests>>

\* Mutation: the mutex is given back before the tokens are streamed.
Streaming_Unlocked(t) == Goto(t, "generating") /\ lock' = Nothing

Streaming(t) == Goto(t, "generating") /\ UNCHANGED lock

\* The content provider: without a handle, or with one that is only kept, no token comes.
Generate(t) ==
    /\ Handling(t, "generate")
    /\ IF runtime \in resident
       THEN /\ Streaming(t)
            /\ mine' = [mine EXCEPT ![t] = runtime]
            /\ UNCHANGED <<kind, target, tokens>>
       ELSE Answer(t)
    /\ UNCHANGED <<shared, requests>>

StreamToken(t) ==
    /\ pc[t] = "generating" /\ tokens[t] < MaxTokens
    /\ tokens' = [tokens EXCEPT ![t] = @ + 1]
    /\ UNCHANGED <<pc, kind, target, mine, lock, shared, requests>>

\* The end of generation, an error, or a client that is gone: the callback returns 0.
GenerateEnds(t) ==
    /\ pc[t] = "generating"
    /\ Answer(t)
    /\ UNCHANGED <<shared, requests>>

\* health_json, which takes no lock.
Health(t) ==
    /\ pc[t] = "read"
    /\ Goto(t, "idle")
    /\ UNCHANGED <<kind, target, mine, tokens, lock, shared, requests>>

\* A thread that is handling a request goes on.
Handle(t) ==
    \/ Acquire(t) \/ Unload(t) \/ Load(t) \/ Reload(t) \/ CreateBegins(t) \/ CreateEnds(t)
    \/ Diagnose(t) \/ Generate(t) \/ StreamToken(t) \/ GenerateEnds(t) \/ Health(t)

Next == \E t \in Threads : Arrive(t) \/ Handle(t)

Spec == Init /\ [][Next]_vars

\* Every thread runs; nothing makes a client send a request.
FairSpec == Spec /\ \A t \in Threads : WF_vars(Handle(t))
-----------------------------------------------------------------------------
TypeOK ==
    /\ pc \in [Threads -> {"idle", "read", "wait", "locked", "create", "creating", "generating"}]
    /\ kind \in [Threads -> Kinds]
    /\ target \in [Threads -> Models \cup {Nothing}]
    /\ mine \in [Threads -> Handles \cup {Nothing}]
    /\ tokens \in [Threads -> 0..MaxTokens]
    /\ lock \in Threads \cup {Nothing}
    /\ runtime \in Handles \cup {Nothing}
    /\ state \in Models \cup {Nothing}
    /\ last_status \in Statuses
    /\ objects \subseteq Handles /\ resident \subseteq Handles
    /\ holds \in [Handles -> Models \cup {Nothing}]
    /\ requests \in 0..MaxRequests

(***************************************************************************)
(* A second runtime is never created before the first is released, which   *)
(* would defeat the memory admission, and none is leaked: what exists is   *)
(* runtime_ or the object a load is creating (dashboard.cpp:421-424).      *)
(***************************************************************************)
Creating == {mine[t] : t \in {u \in Threads : pc[u] = "creating"}}

OneRuntime ==
    /\ Cardinality(objects) <= 1
    /\ objects = ({runtime} \cup Creating) \ {Nothing}
    /\ resident \subseteq objects

(***************************************************************************)
(* Between operations "loaded" in /api/runtime is the truth: runtime_ and  *)
(* last_status_ together say whether there is a model in memory, after any *)
(* order of loads, failures with and without a handle, and unloads.        *)
(***************************************************************************)
ReportsLoaded == runtime # Nothing /\ last_status = "OK"

LoadedIsTrue == lock = Nothing => (ReportsLoaded <=> resident # {})

(***************************************************************************)
(* The remembered configuration is the one the handle was created with, so *)
(* that reload creates the same runtime again (dashboard.cpp:434-451).     *)
(***************************************************************************)
ReloadIsOfTheSame == lock = Nothing /\ runtime # Nothing => state = holds[runtime]

(***************************************************************************)
(* The whole dashboard behaves as one runtime used by one thread at a time *)
(* (docs/dashboard.md:40-53).                                              *)
(***************************************************************************)
Serial == INSTANCE SerialRuntime WITH
    loaded  <- IF resident = {} THEN Nothing
               ELSE holds[CHOOSE h \in resident : TRUE],
    serving <- {t \in Threads : pc[t] = "generating"}

SerialSpec == Serial!Spec

(***************************************************************************)
(* As long as the clients do not send requests for ever, every request is  *)
(* answered, those that wait behind a long generation too: no handler      *)
(* waits for a mutex that its own thread holds, and every path unlocks.    *)
(***************************************************************************)
EveryRequestAnswered == \A t \in Threads : pc[t] # "idle" ~> pc[t] = "idle"
=============================================================================
