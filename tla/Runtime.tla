-------------------------------- MODULE Runtime --------------------------------
(***************************************************************************)
(* src/core/runtime.cpp and the C API over it: one Runtime object, from    *)
(* its construction to its destruction, and the pipeline of gates a load   *)
(* goes through -- configuration, quota, resolution, verification, engine. *)
(*                                                                         *)
(* The gates themselves are modules of their own (UsageManager,            *)
(* ModelRegistry, InferenceEngine); here each is the verdict it may give,  *)
(* which depends on a file or a count that the rest of the machine changes *)
(* between any two steps.                                                  *)
(***************************************************************************)
EXTENDS Integers, FiniteSets

CONSTANTS
    Models,      \* model files
    Stores,      \* usage-state files
    Asked,       \* the configurations callers pass
    MaxMessages, \* bound: messages a store counts up to
    Nothing      \* no model, no store, no diagnostic

\* context and limit stand for the numeric fields, limit for those where 0 disables.
Configs == [names : SUBSET {"path", "id"}, model : Models, context : Int, limit : Int,
            store : Stores]

ASSUME RuntimeAssumption ==
    /\ Asked \subseteq Configs
    /\ Nothing \notin Models \cup Stores
    /\ MaxMessages \in Nat

MinContext == 1
MaxContext == 2
DefaultContext == 2
MaxLimit == 8

\* The RuntimeConfig a Runtime is constructed with.
DefaultConfig == [names |-> {}, model |-> Nothing, context |-> DefaultContext, limit |-> 0,
                  store |-> Nothing]

Errors == {"None", "InvalidConfig", "ModelFileNotFound", "ModelLoadFailed",
           "ContextCreateFailed", "TokenizeFailed", "DecodeFailed", "MemoryBudgetExceeded",
           "NotLoaded", "QuotaExceeded", "ModelVerificationFailed", "ModelResolutionFailed"}

EngineLoadErrors == {"ModelFileNotFound", "ModelLoadFailed", "ContextCreateFailed",
                     "MemoryBudgetExceeded"}
GenerateErrors == {"ContextCreateFailed", "TokenizeFailed", "DecodeFailed"}

\* What the gates after the quota make of a model file at the moment they look.
Fates == {"good", "ModelResolutionFailed", "ModelVerificationFailed"} \cup EngineLoadErrors

VARIABLES
    alive,      \* there is a Runtime object
    ready,      \* ready_
    config,     \* config_
    last_error, \* last_error_
    usage,      \* the file of usage_manager_, Nothing before the first load
    verified,   \* last_verification_diagnostic_: the model and the verdict, or Nothing
    engine,     \* the model loaded in engine_, or Nothing
    pc,         \* the next gate of the load, or where generate is
    call,       \* history: the last call made
    arg,        \* the configuration Runtime::load was given
    passed,     \* history: the configuration the caller passed
    registry,   \* the models recorded in the registry
    before,     \* history: engine and registry when the load began
    debt,       \* history: the store that owes a message for a generation
    fate,       \* the state of every model file
    used        \* the messages of every store's current period

object == <<ready, config, last_error, usage, verified, engine>>
world == <<fate, used>>
history == <<call, passed, before, debt>>
vars == <<alive, object, pc, arg, registry, world, history>>

\* The members of a new Runtime, primed.
NewObject ==
    /\ ready' = FALSE /\ config' = DefaultConfig /\ last_error' = "None"
    /\ usage' = Nothing /\ verified' = Nothing /\ engine' = Nothing

Init ==
    /\ alive = FALSE
    /\ ready = FALSE /\ config = DefaultConfig /\ last_error = "None"
    /\ usage = Nothing /\ verified = Nothing /\ engine = Nothing
    /\ pc = "idle" /\ call = "none"
    /\ arg \in Asked /\ passed = arg
    /\ registry \in SUBSET Models /\ before = [engine |-> Nothing, registry |-> registry]
    /\ debt = Nothing
    /\ fate \in [Models -> Fates] /\ used = [s \in Stores |-> 0]
-----------------------------------------------------------------------------
\* validate_config.
ValidConfig(c) ==
    /\ Cardinality(c.names) = 1
    /\ c.context \in MinContext..MaxContext
    /\ c.limit \in 0..MaxLimit

\* to_cpp_config: a number that is not positive is replaced by the default (a top_k of 0,
\* which these fields do not stand for, is kept).
ToCppConfig(c) ==
    [c EXCEPT !.context = IF @ > 0 THEN @ ELSE DefaultContext,
              !.limit   = IF @ > 0 THEN @ ELSE 0]

\* UsageManager::check_admission of a policy with this limit.
Admitted(limit, store) == limit = 0 \/ used[store] < limit

\* syj_edgemind_create keeps the handle of these failures, for their diagnostic.
Kept == {"None", "MemoryBudgetExceeded", "QuotaExceeded", "ModelVerificationFailed"}

\* Runtime::load or generate returns; a create has its status to look at still.
Return(e) == last_error' = e /\ pc' = IF call = "create" THEN "status" ELSE "idle"

Construct ==
    /\ ~alive
    /\ alive' = TRUE /\ call' = "construct"
    /\ UNCHANGED <<object, pc, arg, registry, world, passed, before, debt>>

Destroy ==
    /\ alive /\ pc = "idle"
    /\ alive' = FALSE /\ call' = "destroy"
    /\ NewObject
    /\ UNCHANGED <<pc, arg, registry, world, passed, before, debt>>

\* Mutation: the runtime stays ready until the new model is.
Begin_KeepsReady(c) ==
    /\ arg' = c /\ before' = [engine |-> engine, registry |-> registry]
    /\ last_error' = "None" /\ pc' = "validate"
    /\ UNCHANGED ready

\* Runtime::load begins.
Begin(c) ==
    /\ arg' = c /\ before' = [engine |-> engine, registry |-> registry]
    /\ last_error' = "None" /\ pc' = "validate"
    /\ ready' = FALSE

\* A load by a C++ caller, on a Runtime that may have a model already.
Load(c) ==
    /\ alive /\ pc = "idle"
    /\ call' = "load" /\ passed' = c
    /\ Begin(c)
    /\ UNCHANGED <<alive, config, usage, verified, engine, registry, world, debt>>

\* syj_edgemind_create.
Create(c) ==
    /\ ~alive /\ pc = "idle"
    /\ alive' = TRUE /\ call' = "create" /\ passed' = c
    /\ Begin(ToCppConfig(c))
    /\ UNCHANGED <<config, usage, verified, engine, registry, world, debt>>
-----------------------------------------------------------------------------
\* Mutation: a load unloads the previous model before it looks at the configuration.
Validate_UnloadsFirst ==
    /\ pc = "validate"
    /\ IF ValidConfig(arg)
       THEN pc' = "quota" /\ usage' = arg.store /\ UNCHANGED last_error
       ELSE Return("InvalidConfig") /\ UNCHANGED usage
    /\ engine' = Nothing
    /\ UNCHANGED <<alive, ready, config, verified, arg, registry, world, history>>

Validate ==
    /\ pc = "validate"
    /\ IF ValidConfig(arg)
       THEN pc' = "quota" /\ usage' = arg.store /\ UNCHANGED last_error
       ELSE Return("InvalidConfig") /\ UNCHANGED usage
    /\ UNCHANGED <<alive, ready, config, verified, engine, arg, registry, world, history>>

\* check_admission and session_start, whose failure is ignored.
CheckQuota ==
    /\ pc = "quota"
    /\ IF Admitted(arg.limit, usage)
       THEN pc' = "resolve" /\ UNCHANGED last_error
       ELSE Return("QuotaExceeded")
    /\ UNCHANGED <<alive, ready, config, usage, verified, engine, arg, registry, world,
                   history>>

Resolve ==
    /\ pc = "resolve"
    /\ IF fate[arg.model] # "ModelResolutionFailed"
       THEN pc' = "verify" /\ UNCHANGED last_error
       ELSE Return("ModelResolutionFailed")
    /\ UNCHANGED <<alive, ready, config, usage, verified, engine, arg, registry, world,
                   history>>

\* import_model, which records mismatches too, unless the file cannot be read at all.
Verify ==
    /\ pc = "verify"
    /\ \E ok \in BOOLEAN :
          /\ ok <=> fate[arg.model] # "ModelVerificationFailed"
          /\ verified' = [model |-> arg.model, ok |-> ok]
          /\ registry' \in {registry, registry \cup {arg.model}}
          /\ IF ok THEN pc' = "engine" /\ UNCHANGED last_error
                   ELSE Return("ModelVerificationFailed")
    /\ UNCHANGED <<alive, ready, config, usage, engine, arg, world, history>>

\* Mutation: one engine error is forgotten in the mapping.
ToRuntimeError_Incomplete(e) == IF e = "ContextCreateFailed" THEN "None" ELSE e

\* to_runtime_error and to_c_status: every error has its own counterpart of the same name.
ToRuntimeError(e) == e

\* InferenceEngine::load, which releases the previous model whatever comes of it.
LoadEngine ==
    /\ pc = "engine"
    /\ IF fate[arg.model] \in EngineLoadErrors
       THEN Return(ToRuntimeError(fate[arg.model])) /\ engine' = Nothing /\ UNCHANGED <<ready, config>>
       ELSE Return("None") /\ engine' = arg.model /\ config' = arg /\ ready' = TRUE
    /\ UNCHANGED <<alive, usage, verified, arg, registry, world, history>>

\* The end of syj_edgemind_create: the handle is kept or deleted.
CreateReturns ==
    /\ pc = "status" /\ pc' = "idle"
    /\ IF last_error \in Kept
       THEN UNCHANGED <<alive, object>>
       ELSE alive' = FALSE /\ NewObject
    /\ UNCHANGED <<arg, registry, world, history>>
-----------------------------------------------------------------------------
IsReady == ready /\ engine # Nothing

Unload ==
    /\ alive /\ pc = "idle"
    /\ engine' = Nothing /\ ready' = FALSE
    /\ call' = "unload"
    /\ UNCHANGED <<alive, config, last_error, usage, verified, pc, arg, registry, world,
                   passed, before, debt>>

\* generate up to the inference.
Generate ==
    /\ alive /\ pc = "idle"
    /\ call' = "generate"
    /\ IF ~IsReady THEN last_error' = "NotLoaded" /\ UNCHANGED pc
       ELSE IF Admitted(config.limit, usage) THEN pc' = "infer" /\ UNCHANGED last_error
       ELSE last_error' = "QuotaExceeded" /\ UNCHANGED pc
    /\ UNCHANGED <<alive, ready, config, usage, verified, engine, arg, registry, world,
                   passed, before, debt>>

\* Mutation: a generation that fails is not recorded.
AfterInference_OnlySuccess(e) == pc' = IF e = "None" THEN "record" ELSE "idle"

AfterInference(e) == pc' = "record"

Infer ==
    /\ pc = "infer"
    /\ \E e \in {"None"} \cup GenerateErrors : last_error' = ToRuntimeError(e) /\ AfterInference(e)
    /\ debt' = config.store
    /\ UNCHANGED <<alive, ready, config, usage, verified, engine, arg, registry, world, call,
                   passed, before>>

\* record_generation, which stops counting at the largest counter.
Record ==
    /\ pc = "record" /\ pc' = "idle"
    /\ used' = [used EXCEPT ![usage] = IF @ < MaxMessages THEN @ + 1 ELSE @]
    /\ debt' = IF usage = debt THEN Nothing ELSE debt
    /\ UNCHANGED <<alive, object, arg, registry, fate, call, passed, before>>
-----------------------------------------------------------------------------
\* The rest of the machine: model files change, other processes generate, periods end.
ChangeModel ==
    /\ \E m \in Models, f \in Fates : fate' = [fate EXCEPT ![m] = f]
    /\ UNCHANGED <<alive, object, pc, arg, registry, used, history>>

OtherProcess ==
    /\ \E s \in Stores : used[s] < MaxMessages /\ used' = [used EXCEPT ![s] = @ + 1]
    /\ UNCHANGED <<alive, object, pc, arg, registry, fate, history>>

NewPeriod ==
    /\ \E s \in Stores : used' = [used EXCEPT ![s] = 0]
    /\ UNCHANGED <<alive, object, pc, arg, registry, fate, history>>

Next ==
    \/ Construct \/ Destroy
    \/ \E c \in Asked : Load(c) \/ Create(c)
    \/ Validate \/ CheckQuota \/ Resolve \/ Verify \/ LoadEngine \/ CreateReturns
    \/ Unload \/ Generate \/ Infer \/ Record
    \/ ChangeModel \/ OtherProcess \/ NewPeriod

Spec == Init /\ [][Next]_vars
-----------------------------------------------------------------------------
TypeOK ==
    /\ alive \in BOOLEAN /\ ready \in BOOLEAN
    /\ config \in Configs \cup {DefaultConfig}
    /\ last_error \in Errors
    /\ usage \in Stores \cup {Nothing}
    /\ verified \in [model : Models, ok : BOOLEAN] \cup {Nothing}
    /\ engine \in Models \cup {Nothing}
    /\ pc \in {"idle", "validate", "quota", "resolve", "verify", "engine", "status", "infer",
               "record"}
    /\ call \in {"none", "construct", "destroy", "load", "create", "unload", "generate"}
    /\ arg \in Configs /\ passed \in Configs
    /\ registry \subseteq Models
    /\ before \in [engine : Models \cup {Nothing}, registry : SUBSET Models]
    /\ debt \in Stores \cup {Nothing}
    /\ fate \in [Models -> Fates] /\ used \in [Stores -> 0..MaxMessages]

(***************************************************************************)
(* A runtime that is ready serves one load: its model is the configured    *)
(* one, that load validated the configuration and verified the file, and   *)
(* its messages go to the store and count against the limit of that        *)
(* configuration, however many loads of other configurations failed at     *)
(* whichever gate, which move usage_manager_ and the diagnostic but not    *)
(* config_ or engine_ (runtime.cpp:40-156).                                *)
(***************************************************************************)
ReadyServesOneLoad ==
    ready => /\ ValidConfig(config)
             /\ engine = config.model
             /\ usage = config.store
             /\ verified = [model |-> config.model, ok |-> TRUE]

(***************************************************************************)
(* A load stopped at a gate has no effect beyond it: the engine has what   *)
(* it had unless the load got to it, and the registry too unless the load  *)
(* got to the verification (runtime.cpp:50-55, runtime.h:64-68).           *)
(***************************************************************************)
StoppedAtTheGate ==
    call \in {"load", "create"} /\ alive =>
        /\ last_error \in {"InvalidConfig", "QuotaExceeded", "ModelResolutionFailed",
                           "ModelVerificationFailed"}
           => engine = before.engine
        /\ last_error \in {"InvalidConfig", "QuotaExceeded", "ModelResolutionFailed"}
           => registry = before.registry

(***************************************************************************)
(* Every inference is paid for, a failed one too, by a message in the      *)
(* store of the configuration that was loaded (runtime.cpp:207-216).       *)
(***************************************************************************)
InferenceIsPaid == pc = "idle" => debt = Nothing

(***************************************************************************)
(* edge_mind_api.h:199-207 says a handle kept by a failed create only      *)
(* carries the diagnostic and nothing can be generated with it, while one  *)
(* that came with OK is loaded: its status tells the caller which it has.  *)
(***************************************************************************)
StatusTellsReadiness ==
    call = "create" /\ pc = "idle" => (IsReady <=> alive /\ last_error = "None")
=============================================================================
