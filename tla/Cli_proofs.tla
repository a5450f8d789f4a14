------------------------------ MODULE Cli_proofs ------------------------------
(***************************************************************************)
(* Proofs about Runtime, for every set of models, stores and configurations*)
(* and every client, and about Cli, for every set of command lines and     *)
(* every width: the program is a client of Runtime, so what is proved of   *)
(* every client holds of it, and what it adds of its own.                  *)
(***************************************************************************)
EXTENDS Cli, TLAPS, WellFoundedInduction, FiniteSetTheorems

Gates == {"validate", "quota", "resolve", "verify", "engine"}

\* Where the thread is says how far the load got and what it left behind.
LoadInv ==
    /\ pc \in Gates \cup {"status"} => alive /\ call \in {"load", "create"}
    /\ pc \in Gates => ~ready /\ last_error = "None" /\ engine = before.engine
    /\ pc \in {"validate", "quota", "resolve", "verify"} => registry = before.registry
    /\ pc \in Gates \ {"validate"} => ValidConfig(arg) /\ usage = arg.store
    /\ pc = "engine" => verified = [model |-> arg.model, ok |-> TRUE]
    /\ pc = "status" => call = "create"

GenerateInv ==
    /\ pc \in {"infer", "record"} => ready /\ call = "generate"
    /\ debt = IF pc = "record" THEN config.store ELSE Nothing

\* ReadyServesOneLoad, with what makes it inductive.
ReadyInv ==
    /\ ready => alive /\ config \in Configs
    /\ ReadyServesOneLoad

\* StatusTellsReadiness, from the moment the status of a create is looked at.
StatusInv == call = "create" /\ pc \in {"idle", "status"} => (IsReady <=> alive /\ last_error = "None")

IInv == TypeOK /\ LoadInv /\ GenerateInv /\ ReadyInv /\ StoppedAtTheGate /\ StatusInv
-----------------------------------------------------------------------------
(* The C API's defaults turn a configuration into a configuration.         *)
LEMMA CoercedIsConfig == \A c \in Configs : ToCppConfig(c) \in Configs
<1> SUFFICES ASSUME NEW c \in Configs PROVE ToCppConfig(c) \in Configs
  OBVIOUS
<1>1. /\ c.names \in SUBSET {"path", "id"} /\ c.model \in Models
      /\ c.context \in Int /\ c.limit \in Int /\ c.store \in Stores
  BY DEF Configs
<1>2. c = [names |-> c.names, model |-> c.model, context |-> c.context, limit |-> c.limit,
           store |-> c.store]
  BY DEF Configs
<1> DEFINE context == IF c.context > 0 THEN c.context ELSE DefaultContext
           limit   == IF c.limit > 0 THEN c.limit ELSE 0
<1>3. context \in Int /\ limit \in Int
  BY <1>1 DEF DefaultContext
<1>4. ToCppConfig(c) = [c EXCEPT !.context = context, !.limit = limit]
  BY DEF ToCppConfig
<1> HIDE DEF context, limit
<1>5. [c EXCEPT !.context = context, !.limit = limit] \in Configs
  BY <1>1, <1>2, <1>3 DEF Configs
<1> QED BY <1>4, <1>5

LEMMA InitTyped == Init => TypeOK
<1> SUFFICES ASSUME Init PROVE TypeOK
  OBVIOUS
<1> USE RuntimeAssumption DEF RuntimeAssumption, Init
<1>1. before \in [engine : Models \cup {Nothing}, registry : SUBSET Models]
  OBVIOUS
<1>2. used \in [Stores -> 0..MaxMessages]
  OBVIOUS
<1>3. arg \in Configs /\ passed \in Configs
  OBVIOUS
<1>4. last_error \in Errors
  BY DEF Errors
<1>5. alive \in BOOLEAN /\ ready \in BOOLEAN /\ config \in Configs \cup {DefaultConfig}
  OBVIOUS
<1> QED BY <1>1, <1>2, <1>3, <1>4, <1>5 DEF TypeOK

(* Every member of the state stays in the set its member of the class has. *)
THEOREM TypeCorrect == Spec => []TypeOK
<1>1. Init => TypeOK
  BY InitTyped
<1>2. TypeOK /\ [Next]_vars => TypeOK'
  <2> SUFFICES ASSUME TypeOK, [Next]_vars PROVE TypeOK'
    OBVIOUS
  <2> USE RuntimeAssumption DEF RuntimeAssumption, TypeOK
  <2>1. CASE Construct
    BY <2>1 DEF Construct, object, world
  <2>2. CASE Destroy
    BY <2>2 DEF Destroy, NewObject, world, Errors
  <2>3. ASSUME NEW c \in Asked, Load(c) PROVE TypeOK'
    BY <2>3 DEF Load, Begin, world, Errors
  <2>4. ASSUME NEW c \in Asked, Create(c) PROVE TypeOK'
    BY <2>4, CoercedIsConfig DEF Create, Begin, world, Errors
  <2>5. CASE Validate
    BY <2>5 DEF Validate, Return, world, history, Errors, Configs
  <2>6. CASE CheckQuota
    BY <2>6 DEF CheckQuota, Return, world, history, Errors
  <2>7. CASE Resolve
    BY <2>7 DEF Resolve, Return, world, history, Errors
  <2>8. CASE Verify
    BY <2>8 DEF Verify, Return, world, history, Errors, Configs
  <2>9. CASE LoadEngine
    <3>1. last_error' \in Errors /\ pc' \in {"status", "idle"}
      BY <2>9 DEF LoadEngine, Return, ToRuntimeError, Errors, EngineLoadErrors
    <3>2. engine' \in Models \cup {Nothing} /\ config' \in Configs \cup {DefaultConfig}
          /\ ready' \in BOOLEAN
      BY <2>9 DEF LoadEngine, Configs
    <3> QED BY <2>9, <3>1, <3>2 DEF LoadEngine, world, history
  <2>10. CASE CreateReturns
    <3>1. CASE last_error \in Kept
      BY <2>10, <3>1 DEF CreateReturns, object, world, history
    <3>2. CASE last_error \notin Kept
      BY <2>10, <3>2 DEF CreateReturns, NewObject, world, history, Errors
    <3> QED BY <3>1, <3>2
  <2>11. CASE Unload
    BY <2>11 DEF Unload, world
  <2>12. CASE Generate
    BY <2>12 DEF Generate, world, Errors
  <2>13. CASE Infer
    <3>1. config.store \in Stores \cup {Nothing}
      BY DEF Configs, DefaultConfig
    <3> QED BY <2>13, <3>1 DEF Infer, AfterInference, ToRuntimeError, world, Errors,
                               GenerateErrors
  <2>14. CASE Record
    <3> DEFINE n == IF used[usage] < MaxMessages THEN used[usage] + 1 ELSE used[usage]
    <3>1. used' \in [Stores -> 0..MaxMessages]
      <4>1. used' = [used EXCEPT ![usage] = n]
        BY <2>14 DEF Record
      <4>2. usage \in Stores => n \in 0..MaxMessages
        OBVIOUS
      <4> HIDE DEF n
      <4> QED BY <4>1, <4>2
    <3> QED BY <2>14, <3>1 DEF Record, object
  <2>15. CASE ChangeModel
    BY <2>15 DEF ChangeModel, object, history
  <2>16. CASE OtherProcess
    BY <2>16 DEF OtherProcess, object, history
  <2>17. CASE NewPeriod
    BY <2>17 DEF NewPeriod, object, history
  <2>18. CASE UNCHANGED vars
    BY <2>18 DEF vars, object, world, history
  <2> QED BY <2>1, <2>2, <2>3, <2>4, <2>5, <2>6, <2>7, <2>8, <2>9, <2>10, <2>11, <2>12,
             <2>13, <2>14, <2>15, <2>16, <2>17, <2>18 DEF Next
<1> QED BY <1>1, <1>2, PTL DEF Spec
-----------------------------------------------------------------------------
LEMMA InductiveInit == Init => IInv
<1> SUFFICES ASSUME Init PROVE IInv
  OBVIOUS
<1>1. TypeOK
  BY InitTyped
<1> QED BY <1>1 DEF Init, IInv, LoadInv, GenerateInv, ReadyInv, ReadyServesOneLoad,
                   StoppedAtTheGate, StatusInv, Gates

(* One step, given the types on both of its sides.                         *)
LEMMA InductiveStep ==
  ASSUME IInv, TypeOK', [Next]_vars
  PROVE  LoadInv' /\ GenerateInv' /\ ReadyInv' /\ StoppedAtTheGate' /\ StatusInv'
<1> USE RuntimeAssumption DEF RuntimeAssumption, IInv, LoadInv, GenerateInv, ReadyInv, ReadyServesOneLoad,
                              StoppedAtTheGate, StatusInv, Gates, IsReady
<1>1. CASE Construct
  BY <1>1 DEF Construct, object, world
<1>2. CASE Destroy
  BY <1>2 DEF Destroy, NewObject, world
<1>3. ASSUME NEW c \in Asked, Load(c)
      PROVE  LoadInv' /\ GenerateInv' /\ ReadyInv' /\ StoppedAtTheGate' /\ StatusInv'
  BY <1>3 DEF Load, Begin, world
<1>4. ASSUME NEW c \in Asked, Create(c)
      PROVE  LoadInv' /\ GenerateInv' /\ ReadyInv' /\ StoppedAtTheGate' /\ StatusInv'
  BY <1>4 DEF Create, Begin, world
<1>5. CASE Validate
  BY <1>5 DEF Validate, Return, world, history, ValidConfig
<1>6. CASE CheckQuota
  BY <1>6 DEF CheckQuota, Return, world, history, ValidConfig
<1>7. CASE Resolve
  BY <1>7 DEF Resolve, Return, world, history, ValidConfig
<1>8. CASE Verify
  BY <1>8 DEF Verify, Return, world, history, ValidConfig
<1>9. CASE LoadEngine
  <2>1. arg \in Configs /\ arg.model \in Models
    BY DEF TypeOK, Configs
  <2>2. fate[arg.model] \in Fates
    BY <2>1 DEF TypeOK
  <2> QED BY <1>9, <2>1, <2>2 DEF LoadEngine, Return, ToRuntimeError, world, history,
                                  ValidConfig, EngineLoadErrors
<1>10. CASE CreateReturns
  BY <1>10 DEF CreateReturns, NewObject, object, world, history, ValidConfig
<1>11. CASE Unload
  BY <1>11 DEF Unload, world
<1>12. CASE Generate
  BY <1>12 DEF Generate, world, ValidConfig
<1>13. CASE Infer
  BY <1>13 DEF Infer, AfterInference, world, ValidConfig
<1>14. CASE Record
  BY <1>14 DEF Record, object, ValidConfig
<1>15. CASE ChangeModel
  BY <1>15 DEF ChangeModel, object, history, ValidConfig
<1>16. CASE OtherProcess
  BY <1>16 DEF OtherProcess, object, history, ValidConfig
<1>17. CASE NewPeriod
  BY <1>17 DEF NewPeriod, object, history, ValidConfig
<1>18. CASE UNCHANGED vars
  BY <1>18 DEF vars, object, world, history, ValidConfig
<1> QED BY <1>1, <1>2, <1>3, <1>4, <1>5, <1>6, <1>7, <1>8, <1>9, <1>10, <1>11, <1>12,
           <1>13, <1>14, <1>15, <1>16, <1>17, <1>18 DEF Next

LEMMA Inductive == Spec => []IInv
<1>1. IInv /\ TypeOK' /\ [Next]_vars => IInv'
  BY InductiveStep DEF IInv
<1> QED BY InductiveInit, TypeCorrect, <1>1, PTL DEF Spec

(* A runtime that is ready serves exactly one load that passed every gate. *)
THEOREM ReadyIsConsistent == Spec => []ReadyServesOneLoad
<1>1. IInv => ReadyServesOneLoad
  BY DEF IInv, ReadyInv
<1> QED BY <1>1, Inductive, PTL

(* A load that a gate stops touches nothing behind the gate.               *)
THEOREM GatesHold == Spec => []StoppedAtTheGate
<1>1. IInv => StoppedAtTheGate
  BY DEF IInv
<1> QED BY <1>1, Inductive, PTL

(* No generation returns before its message was recorded where it belongs. *)
THEOREM EveryInferenceIsPaid == Spec => []InferenceIsPaid
<1>1. IInv => InferenceIsPaid
  BY DEF IInv, GenerateInv, InferenceIsPaid
<1> QED BY <1>1, Inductive, PTL

(* The status of a create says whether the handle can generate.            *)
THEOREM StatusIsHonest == Spec => []StatusTellsReadiness
<1>1. IInv => StatusTellsReadiness
  BY DEF IInv, StatusInv, StatusTellsReadiness
<1> QED BY <1>1, Inductive, PTL
-----------------------------------------------------------------------------
(***************************************************************************)
(* The command-line program.                                               *)
(***************************************************************************)
OptsTyped ==
    /\ argv \in Argvs /\ i \in 1..(Len(argv) + 1)
    /\ opts \in [path : Models \cup {Nothing}, id : Models \cup {Nothing}, prompt : BOOLEAN,
                 list : BOOLEAN, context : Signed(MaxNarrow), limit : Signed(MaxWide)]
    /\ at \in Locations /\ exit \in {Nothing, 0, 1, 2} /\ lines \in 0..MaxLines
    /\ at = "create" => \/ opts.path # Nothing /\ opts.id = Nothing
                        \/ opts.path = Nothing /\ opts.id # Nothing
-----------------------------------------------------------------------------
(* A conversion to a signed type is in that type.                          *)
LEMMA WrapsInto ==
  ASSUME NEW n \in Int, NEW max \in Nat
  PROVE  Wrap(n, max) \in Signed(max)
<1> DEFINE d == 2 * (max + 1)
           r == (n + max + 1) % d
<1>1. d \in Nat \ {0}
  OBVIOUS
<1>2. r \in 0 .. (d - 1)
  <2> HIDE DEF d
  <2> QED BY <1>1
<1>3. Wrap(n, max) = r - (max + 1)
  BY DEF Wrap
<1> HIDE DEF r
<1> QED BY <1>2, <1>3 DEF Signed

(* What a number option stores is in the type of its field.                *)
LEMMA ParsesInto ==
  ASSUME NEW n \in Int
  PROVE  ParseInt(n) \in Signed(MaxNarrow) /\ Seconds(n) \in Signed(MaxWide)
<1>1. StrTo(n) \in Int
  BY CliAssumption DEF StrTo
<1>2. StrTo(n) * Unit \in Int
  <2> HIDE DEF StrTo
  <2> QED BY <1>1, CliAssumption
<1> QED BY <1>1, <1>2, WrapsInto, CliAssumption DEF ParseInt, Seconds

LEMMA OptsInit == CliInit => OptsTyped
<1> SUFFICES ASSUME CliInit PROVE OptsTyped
  OBVIOUS
<1>1. DefaultContext \in Signed(MaxNarrow) /\ 0 \in Signed(MaxWide)
  BY CliAssumption DEF Signed, DefaultContext
<1>2. Len(argv) \in Nat
  BY CliAssumption DEF CliInit
<1> QED BY <1>1, <1>2, CliAssumption DEF CliInit, OptsTyped, DefaultOpts, Locations

(* Reading an option leaves the options typed.                             *)
LEMMA StoreTyped ==
  ASSUME OptsTyped, NEW flag \in Flags, NEW value \in Arguments, Store(flag, value)
  PROVE  opts' \in [path : Models \cup {Nothing}, id : Models \cup {Nothing}, prompt : BOOLEAN,
                    list : BOOLEAN, context : Signed(MaxNarrow), limit : Signed(MaxWide)]
<1>1. value.names \in Models \cup {Nothing} /\ value.number \in Int \cup {Nothing}
  BY DEF Arguments
<1>2. CASE flag = "--model" /\ opts' = [opts EXCEPT !.path = value.names]
  BY <1>1, <1>2 DEF OptsTyped
<1>3. CASE flag = "--model-id" /\ opts' = [opts EXCEPT !.id = value.names]
  BY <1>1, <1>3 DEF OptsTyped
<1>4. CASE value.number # Nothing
  <2>1. ParseInt(value.number) \in Signed(MaxNarrow) /\ Seconds(value.number) \in Signed(MaxWide)
    BY <1>1, <1>4, ParsesInto
  <2>2. CASE opts' = [opts EXCEPT !.context = ParseInt(value.number)]
    BY <2>1, <2>2 DEF OptsTyped
  <2>3. CASE opts' = [opts EXCEPT !.limit = Seconds(value.number)]
    BY <2>1, <2>3 DEF OptsTyped
  <2> QED BY <1>1, <1>2, <1>3, <1>4, <2>2, <2>3 DEF Store
<1> QED BY <1>2, <1>3, <1>4 DEF Store

LEMMA OptsStep ==
  ASSUME OptsTyped, [CliNext]_cliVars
  PROVE  OptsTyped'
<1>1. Len(argv) \in Nat /\ (i <= Len(argv) => argv[i] \in Arguments /\ argv[i].is \in Flags)
  <2>1. argv \in Seq(Arguments) /\ i \in Nat \ {0}
    BY CliAssumption DEF OptsTyped
  <2>2. Len(argv) \in Nat /\ (i <= Len(argv) => argv[i] \in Arguments)
    BY <2>1
  <2>3. \A a \in Arguments : a.is \in Flags
    BY DEF Arguments
  <2> QED BY <2>2, <2>3
<1>2. i < Len(argv) => argv[i + 1] \in Arguments
  BY <1>1, CliAssumption DEF OptsTyped
<1> USE DEF OptsTyped, Locations, Exit
<1>3. CASE ReadOption
  <2>1. CASE i < Len(argv) /\ Store(argv[i].is, argv[i + 1]) /\ i' = i + 2
    BY <1>1, <1>2, <1>3, <2>1, StoreTyped DEF ReadOption
  <2>2. CASE Exit(2) /\ UNCHANGED <<i, opts>>
    BY <1>3, <2>2 DEF ReadOption
  <2> QED BY <1>3, <2>1, <2>2 DEF ReadOption
<1>4. CASE ReadFlag
  <2>1. CASE (Exit(0) \/ Exit(2)) /\ UNCHANGED <<i, opts>>
    BY <1>4, <2>1 DEF ReadFlag
  <2>2. CASE /\ \/ opts' = [opts EXCEPT !.list = TRUE]
                \/ opts' = [opts EXCEPT !.prompt = TRUE]
             /\ i' = i + 1 /\ UNCHANGED <<at, exit>>
    <3>1. opts' \in [path : Models \cup {Nothing}, id : Models \cup {Nothing}, prompt : BOOLEAN,
                     list : BOOLEAN, context : Signed(MaxNarrow), limit : Signed(MaxWide)]
      BY <2>2
    <3>2. at = "args" /\ i <= Len(argv) /\ UNCHANGED <<argv, lines>>
      BY <1>4 DEF ReadFlag
    <3> QED BY <1>1, <2>2, <3>1, <3>2
  <2> HIDE DEF OptsTyped
  <2> QED BY <1>4, <2>1, <2>2 DEF ReadFlag
<1>5. CASE EndOfArgs
  BY <1>5 DEF EndOfArgs
<1>6. CASE Select
  <2>1. CASE UNCHANGED opts /\ (opts.path # Nothing \/ opts.id # Nothing \/ Exit(2))
    BY <1>6, <2>1 DEF Select
  <2>2. ASSUME NEW m \in Models, opts.path = Nothing, opts.id = Nothing,
               opts' = [opts EXCEPT !.id = m], at' = "create"
        PROVE  OptsTyped'
    BY <1>6, <2>2, RuntimeAssumption DEF Select, RuntimeAssumption
  <2> QED BY <1>6, <2>1, <2>2 DEF Select, Selected
<1>7. CASE CallCreate
  BY <1>7 DEF CallCreate
<1>8. CASE CreateIsDone
  BY <1>8 DEF CreateIsDone
<1>9. CASE CreateFailed
  BY <1>9 DEF CreateFailed
<1>10. CASE ModelLoaded
  BY <1>10 DEF ModelLoaded
<1>11. CASE OneShot
  BY <1>11 DEF OneShot
<1>12. CASE OneShotIsDone
  BY <1>12 DEF OneShotIsDone, OneShotCode
<1>13. CASE Command \/ UnloadCommand \/ Prompt
  BY <1>13, CliAssumption DEF Command, UnloadCommand, Prompt
<1>14. CASE PromptIsDone
  BY <1>14 DEF PromptIsDone
<1>15. CASE Quit
  BY <1>15 DEF Quit
<1>16. CASE Leave
  BY <1>16 DEF Leave
<1>17. CASE InRuntime \/ World
  BY <1>17 DEF InRuntime, World, cli
<1>18. CASE UNCHANGED cliVars
  BY <1>18 DEF cliVars, cli
<1> QED BY <1>3, <1>4, <1>5, <1>6, <1>7, <1>8, <1>9, <1>10, <1>11, <1>12, <1>13, <1>14,
           <1>15, <1>16, <1>17, <1>18 DEF CliNext, Main

LEMMA OptsCorrect == CliSpec => []OptsTyped
BY OptsInit, OptsStep, PTL DEF CliSpec
-----------------------------------------------------------------------------
(* The first state of a process is one of a runtime that is not made yet.  *)
LEMMA ClientInit == CliInit => Init
BY DEF CliInit

(* What main passes to create is a configuration that callers pass.        *)
LEMMA RequestIsAsked ==
  ASSUME OptsTyped, at = "create"
  PROVE  Requested \in Asked
<1>1. /\ opts.path \in Models \cup {Nothing} /\ opts.id \in Models \cup {Nothing}
      /\ opts.context \in Signed(MaxNarrow) /\ opts.limit \in Signed(MaxWide)
  BY DEF OptsTyped
<1>2. Requested \in CliConfigs
  BY <1>1 DEF OptsTyped, Requested, CliConfigs
<1> QED BY <1>2, CliAssumption

(* Every step of the process is a step of its runtime, or none.            *)
LEMMA ClientStep ==
  ASSUME OptsTyped, [CliNext]_cliVars
  PROVE  [Next]_vars
<1>1. CASE ReadOption \/ ReadFlag \/ EndOfArgs \/ Select
  BY <1>1 DEF ReadOption, ReadFlag, EndOfArgs, Select
<1>2. CASE CallCreate
  <2>1. Requested \in Asked
    BY <1>2, RequestIsAsked DEF CallCreate
  <2> QED BY <1>2, <2>1 DEF CallCreate, Next
<1>3. CASE CreateIsDone
  BY <1>3 DEF CreateIsDone, Next
<1>4. CASE CreateFailed
  BY <1>4 DEF CreateFailed, Next
<1>5. CASE ModelLoaded \/ Command \/ PromptIsDone \/ Quit
  BY <1>5 DEF ModelLoaded, Command, PromptIsDone, Quit
<1>6. CASE OneShot \/ OneShotIsDone \/ UnloadCommand \/ Prompt \/ Leave
  BY <1>6 DEF OneShot, OneShotIsDone, UnloadCommand, Prompt, Leave, Next
<1>7. CASE InRuntime \/ World
  BY <1>7 DEF InRuntime, World, Next
<1>8. CASE UNCHANGED cliVars
  BY <1>8 DEF cliVars
<1> QED BY <1>1, <1>2, <1>3, <1>4, <1>5, <1>6, <1>7, <1>8 DEF CliNext, Main

(* The program is a client of the C API, so every theorem about clients    *)
(* holds of it (edge_mind_api.cpp under main.cpp:408-497).                 *)
THEOREM CliIsAClient == CliSpec => Spec
BY OptsCorrect, ClientInit, ClientStep, PTL DEF CliSpec, Spec
-----------------------------------------------------------------------------
\* What main knows of its runtime at each place.
Phase ==
    /\ at \in {"args", "select", "create"} => ~alive /\ pc = "idle" /\ call = "none"
    /\ at = "creating" => alive /\ pc \in Gates \cup {"status"} /\ call = "create"
    /\ at = "created" =>
         /\ pc = "idle" /\ call = "create"
         /\ IF alive THEN status = last_error ELSE status # "None"
         /\ alive => status \in Kept
    /\ at \in {"oneshot", "line", "answering", "leaving"} => alive
    /\ at = "oneshot" => pc = "idle" /\ opts.prompt /\ IsReady /\ last_error = "None"
    /\ at = "line" => /\ pc = "idle" /\ ~opts.prompt
                      /\ last_error \in {"None", "QuotaExceeded"}
                      /\ call # "unload" => IsReady
    /\ at = "answering" => /\ pc \in {"idle", "infer", "record"} /\ call = "generate"
                           /\ pc # "idle" => IsReady
                           /\ last_error \in {"None", "QuotaExceeded"} => IsReady
    /\ at = "leaving" => pc = "idle" /\ ~opts.prompt

Exited ==
    at = "exited" => /\ ~alive /\ exit \in {0, 1, 2}
                     /\ exit = 2 => call = "none"
                     /\ call # "none" /\ opts.prompt => (exit = 0 <=> status = "None")
                     /\ exit = 1 => status # "None"

LEMMA PhaseInit == CliInit => Phase /\ Exited
BY DEF CliInit, Init, Phase, Exited

LEMMA PhaseStep ==
  ASSUME Phase, Exited, OptsTyped, IInv, IInv', [CliNext]_cliVars
  PROVE  Phase' /\ Exited'
<1> USE DEF Phase, Exited, Exit
<1>1. CASE ReadOption \/ ReadFlag \/ EndOfArgs \/ Select
  BY <1>1 DEF ReadOption, ReadFlag, EndOfArgs, Select, vars, object, history, IsReady
<1>2. CASE CallCreate
  BY <1>2 DEF CallCreate, Create, Begin, Gates
<1>3. CASE CreateIsDone
  BY <1>3 DEF CreateIsDone, CreateReturns, Kept, object, history, Gates
<1>4. CASE CreateFailed
  BY <1>4 DEF CreateFailed, Destroy, vars, object, Failed, history
<1>5. CASE ModelLoaded
  BY <1>5 DEF ModelLoaded, Failed, Kept, IInv, StatusInv, vars, object, history
<1>6. CASE OneShot \/ Prompt
  BY <1>6 DEF OneShot, Prompt, Generate, IsReady
<1>7. CASE OneShotIsDone
  BY <1>7 DEF OneShotIsDone, Destroy, OneShotCode
<1>8. CASE Command \/ Quit
  BY <1>8 DEF Command, Quit, vars, object, history, IsReady
<1>9. CASE UnloadCommand
  BY <1>9 DEF UnloadCommand, Unload
<1>10. CASE PromptIsDone
  BY <1>10 DEF PromptIsDone, GoesOn, vars, object, history, IsReady
<1>11. CASE Leave
  BY <1>11 DEF Leave, Destroy
<1>12. CASE InRuntime
  <2> USE DEF Gates, history
  <2>1. UNCHANGED cli
    BY <1>12 DEF InRuntime
  <2>2. CASE Validate \/ CheckQuota \/ Resolve
    BY <2>1, <2>2 DEF cli, Validate, CheckQuota, Resolve, Return
  <2>3. CASE Verify \/ LoadEngine
    BY <2>1, <2>3 DEF cli, Verify, LoadEngine, Return
  <2>4. CASE Infer
    BY <2>1, <2>4 DEF cli, Infer, AfterInference, IsReady
  <2>5. CASE Record
    BY <2>1, <2>5 DEF cli, Record, object, IsReady
  <2> QED BY <1>12, <2>2, <2>3, <2>4, <2>5 DEF InRuntime
<1>13. CASE World
  BY <1>13 DEF World, cli, ChangeModel, OtherProcess, NewPeriod, object, history, IsReady
<1>14. CASE UNCHANGED cliVars
  BY <1>14 DEF cliVars, cli, vars, object, history, IsReady
<1> QED BY <1>1, <1>2, <1>3, <1>4, <1>5, <1>6, <1>7, <1>8, <1>9, <1>10, <1>11, <1>12,
           <1>13, <1>14 DEF CliNext, Main

LEMMA PhaseCorrect == CliSpec => [](Phase /\ Exited)
BY PhaseInit, PhaseStep, OptsCorrect, CliIsAClient, Inductive, PTL DEF CliSpec

(* The options, the place and the runtime are typed, for every command     *)
(* line and every width of the integers.                                   *)
THEOREM CliTypeCorrect == CliSpec => []CliTypeOK
<1> DEFINE StatusTyped == status \in Errors
<1>1. CliInit => StatusTyped
  BY DEF CliInit, Errors
<1>2. StatusTyped /\ TypeOK /\ [CliNext]_cliVars => StatusTyped'
  <2> SUFFICES ASSUME StatusTyped, TypeOK, [CliNext]_cliVars PROVE StatusTyped'
    OBVIOUS
  <2>1. status' = status \/ status' = last_error
    BY DEF CliNext, Main, ReadOption, ReadFlag, EndOfArgs, Select, CallCreate, CreateIsDone,
           CreateFailed, ModelLoaded, OneShot, OneShotIsDone, Command, UnloadCommand, Prompt,
           PromptIsDone, Quit, Leave, InRuntime, World, cliVars, cli
  <2> QED BY <2>1 DEF TypeOK
<1>3. OptsTyped /\ TypeOK /\ StatusTyped => CliTypeOK
  BY DEF OptsTyped, CliTypeOK
<1>4. CliSpec => []TypeOK
  BY CliIsAClient, TypeCorrect, PTL
<1> QED BY <1>1, <1>2, <1>3, <1>4, OptsCorrect, PTL DEF CliSpec

(* Whatever fails, the process ends without its runtime.                   *)
THEOREM NothingIsLeaked == CliSpec => []HandleIsFreed
<1>1. Phase /\ Exited => HandleIsFreed
  BY DEF Phase, Exited, HandleIsFreed
<1> QED BY <1>1, PhaseCorrect, PTL

(* The loop takes lines only for a runtime that is fit for them.           *)
THEOREM LoopIsValid == CliSpec => []NeverOnInvalid
<1>1. Phase => NeverOnInvalid
  BY DEF Phase, NeverOnInvalid
<1> QED BY <1>1, PhaseCorrect, PTL

(* The exit code says what happened, but for a session: once its model is  *)
(* loaded it exits with 0, however it ends.                                *)
THEOREM CodeIsHonest == CliSpec => []ExitCodeIsHonest
<1>1. Exited => ExitCodeIsHonest
  BY DEF Exited, ExitCodeIsHonest
<1> QED BY <1>1, PhaseCorrect, PTL
-----------------------------------------------------------------------------
(***************************************************************************)
(* What the arguments mean.  IsValue is defined by recursion on the place  *)
(* of an argument; that there is such a function is an induction on the    *)
(* number of arguments, over the set of the numbers for which it exists.   *)
(***************************************************************************)

(* A set of natural numbers that is not empty has a least one: the         *)
(* intervals below its members are finite sets, which inclusion orders     *)
(* well.                                                                   *)
LEMMA Least ==
  ASSUME NEW T \in SUBSET Nat, T # {}
  PROVE  \E m \in T : \A k \in T : m <= k
<1> DEFINE Below(n) == 0 .. (n - 1)
           Downs == {Below(n) : n \in T}
<1>1. Downs \subseteq FiniteSubsetsOf(Nat)
  <2>1. \A n \in T : IsFiniteSet(Below(n)) /\ Below(n) \subseteq Nat
    BY FS_Interval
  <2> QED BY <2>1 DEF FiniteSubsetsOf
<1>2. \E d \in Downs : \A e \in Downs : <<e, d>> \notin StrictSubsetOrdering(Nat)
  <2>1. IsWellFoundedOn(StrictSubsetOrdering(Nat), FiniteSubsetsOf(Nat))
    BY FS_StrictSubsetOrderingWellFounded
  <2>2. Downs # {}
    OBVIOUS
  <2> HIDE DEF Downs
  <2> QED BY <1>1, <2>1, <2>2, WFMin
<1>3. PICK m \in T : \A k \in T : <<Below(k), Below(m)>> \notin StrictSubsetOrdering(Nat)
  BY <1>2
<1>4. ASSUME NEW k \in T, k < m PROVE <<Below(k), Below(m)>> \in StrictSubsetOrdering(Nat)
  <2>1. k \in Below(m) /\ k \notin Below(k)
    BY <1>4
  <2>2. Below(k) \subseteq Below(m) /\ Below(m) \subseteq Nat
    BY <1>4
  <2>3. Below(k) # Below(m)
    BY <2>1
  <2> HIDE DEF Below
  <2> QED BY <2>2, <2>3 DEF StrictSubsetOrdering
<1>5. \A k \in T : ~(k < m)
  BY <1>3, <1>4 DEF Below
<1> QED BY <1>5

LEMMA SetInduction ==
  ASSUME NEW T \in SUBSET Nat, 0 \in T, \A n \in T : n + 1 \in T
  PROVE  T = Nat
<1> SUFFICES ASSUME T # Nat PROVE FALSE
  OBVIOUS
<1>1. PICK m \in Nat \ T : \A k \in Nat \ T : m <= k
  BY Least
<1>2. m # 0 /\ m - 1 \in Nat /\ m - 1 \notin Nat \ T
  BY <1>1
<1> QED BY <1>2

\* The functions that tell the values among the first n arguments of a.
ValuesOf(a, n) ==
    {f \in [1..n -> BOOLEAN] :
       \A k \in 1..n : f[k] = (k > 1 /\ ~f[k - 1] /\ a[k - 1].is \in ValueOptions)}

LEMMA ValuesExist == \A a, n : n \in Nat => ValuesOf(a, n) # {}
<1> SUFFICES ASSUME NEW a PROVE \A n \in Nat : ValuesOf(a, n) # {}
  OBVIOUS
<1> DEFINE T == {n \in Nat : ValuesOf(a, n) # {}}
<1>1. 0 \in T
  <2> DEFINE f == [k \in 1..0 |-> FALSE]
  <2>1. f \in ValuesOf(a, 0)
    BY DEF ValuesOf
  <2> QED BY <2>1
<1>2. ASSUME NEW n \in T PROVE n + 1 \in T
  <2>1. PICK f \in ValuesOf(a, n) : TRUE
    OBVIOUS
  <2> DEFINE last == n + 1 > 1 /\ ~f[n] /\ a[n].is \in ValueOptions
             g == [k \in 1..(n + 1) |-> IF k = n + 1 THEN last ELSE f[k]]
  <2>2. g \in [1..(n + 1) -> BOOLEAN]
    <3>1. last \in BOOLEAN
      BY Zenon
    <3>2. \A k \in 1..(n + 1) : k # n + 1 => f[k] \in BOOLEAN
      BY DEF ValuesOf
    <3> HIDE DEF last
    <3> QED BY <3>1, <3>2
  <2>3. ASSUME NEW k \in 1..(n + 1)
        PROVE  g[k] = (k > 1 /\ ~g[k - 1] /\ a[k - 1].is \in ValueOptions)
    <3>1. CASE k = n + 1
      <4>1. g[k] = last /\ k - 1 = n
        BY <3>1
      <4>2. n + 1 > 1 => g[n] = f[n]
        OBVIOUS
      <4> HIDE DEF g
      <4> QED BY <3>1, <4>1, <4>2
    <3>2. CASE k \in 1..n
      <4>1. g[k] = f[k] /\ (k > 1 => g[k - 1] = f[k - 1])
        BY <3>2
      <4>2. f[k] = (k > 1 /\ ~f[k - 1] /\ a[k - 1].is \in ValueOptions)
        BY <3>2 DEF ValuesOf
      <4> HIDE DEF g
      <4> QED BY <4>1, <4>2
    <3> QED BY <3>1, <3>2
  <2> HIDE DEF g
  <2>4. g \in ValuesOf(a, n + 1)
    BY <2>2, <2>3 DEF ValuesOf
  <2> QED BY <2>4
<1>3. T = Nat
  <2> HIDE DEF T
  <2>1. T \in SUBSET Nat
    BY DEF T
  <2> QED BY <1>1, <1>2, <2>1, SetInduction
<1> QED BY <1>3

(* IsValue is what its recursive definition says.                          *)
LEMMA ValuesAre ==
  ASSUME argv \in Seq(Arguments)
  PROVE  /\ IsValue \in [1..Len(argv) -> BOOLEAN]
         /\ \A k \in 1..Len(argv) :
               IsValue[k] <=> k > 1 /\ ~IsValue[k - 1] /\ argv[k - 1].is \in ValueOptions
<1>1. PICK f \in ValuesOf(argv, Len(argv)) : TRUE
  BY ValuesExist
<1> DEFINE F(g) == [k \in 1..Len(argv) |-> k > 1 /\ ~g[k - 1] /\ argv[k - 1].is \in ValueOptions]
<1>2. f = F(f)
  BY <1>1 DEF ValuesOf
<1>3. IsValue = CHOOSE g : g = F(g)
  BY DEF IsValue
<1>4. IsValue = F(IsValue)
  <2> HIDE DEF F
  <2> QED BY <1>2, <1>3
<1> QED BY <1>4


(* The command line stays what it is, and so does what it means.           *)
LEMMA MeaningStays ==
  ASSUME argv' = argv
  PROVE  /\ IsValue' = IsValue
         /\ \A flag : Given(flag)' = Given(flag)
         /\ Stops' = Stops
<1> DEFINE V(a) == CHOOSE f : f = [k \in 1..Len(a) |->
                                     k > 1 /\ ~f[k - 1] /\ a[k - 1].is \in ValueOptions]
<1>1. IsValue = V(argv) /\ IsValue' = V(argv')
  BY DEF IsValue
<1>2. IsValue' = IsValue
  <2> HIDE DEF V
  <2> QED BY <1>1
<1>3. \A flag : Given(flag)' = Given(flag)
  BY <1>2 DEF Given
<1>4. Stops' = Stops
  BY <1>3 DEF Stops
<1> QED BY <1>2, <1>3, <1>4

(* What the numbers 1, 2, ... of the arguments are.                        *)
LEMMA Places ==
  ASSUME argv \in Seq(Arguments)
  PROVE  /\ Len(argv) \in Nat
         /\ \A k \in 1..Len(argv) : argv[k] \in Arguments /\ argv[k].is \in Flags
         /\ \A flag : Given(flag) \subseteq 1..Len(argv)
         /\ Stops \subseteq 1..Len(argv)
<1>1. Len(argv) \in Nat /\ \A k \in 1..Len(argv) : argv[k] \in Arguments
  OBVIOUS
<1>2. \A a \in Arguments : a.is \in Flags
  BY DEF Arguments
<1>3. \A flag : Given(flag) \subseteq 1..Len(argv)
  BY DEF Given
<1>4. Stops \subseteq 1..Len(argv)
  BY <1>3 DEF Stops
<1> QED BY <1>1, <1>2, <1>3, <1>4

-----------------------------------------------------------------------------
\* The arguments read as this flag so far, and the last of them.
Sofar(flag) == {k \in Given(flag) : k < i}
Latest(flag) == CHOOSE k \in Sofar(flag) : \A j \in Sofar(flag) : j <= k

Seen(flag) == Sofar(flag) # {}
ValueSeen(flag) == argv[1 + Latest(flag)]

\* The options as the arguments before i mean them.
Meant(flag) == IF Seen(flag) THEN ValueSeen(flag).names ELSE Nothing

OthersMeant ==
    /\ opts.prompt <=> Seen("text")
    /\ opts.list <=> Seen("--list-models")
    /\ opts.context = IF Seen("--context") THEN ParseInt(ValueSeen("--context").number)
                      ELSE DefaultContext
    /\ opts.limit = IF Seen("--time-limit-minutes")
                    THEN Seconds(ValueSeen("--time-limit-minutes").number) ELSE 0

AllMeant == opts.path = Meant("--model") /\ opts.id = Meant("--model-id") /\ OthersMeant

\* Nothing before i ends the program, and the options are those before i.
Reading == AllMeant /\ \A k \in Stops : i <= k

(* An argument that is not a value is read as the flag it is.              *)
LEMMA ReadsOne ==
  ASSUME argv \in Seq(Arguments), i \in 1..Len(argv), ~IsValue[i], argv' = argv,
         \/ argv[i].is \in ValueOptions /\ i < Len(argv) /\ i' = i + 2
         \/ argv[i].is \notin ValueOptions /\ i' = i + 1
  PROVE  /\ i \in Given(argv[i].is)
         /\ i' <= Len(argv) => ~IsValue[i']
         /\ \A flag : Sofar(flag)' = IF flag = argv[i].is THEN Sofar(flag) \cup {i}
                                     ELSE Sofar(flag)
<1>1. /\ Len(argv) \in Nat /\ \A k \in 1..Len(argv) : argv[k] \in Arguments /\ argv[k].is \in Flags
      /\ \A flag : Given(flag) \subseteq 1..Len(argv)
  BY Places
<1>2. \A k \in 1..Len(argv) :
         IsValue[k] <=> k > 1 /\ ~IsValue[k - 1] /\ argv[k - 1].is \in ValueOptions
  BY ValuesAre
<1>3. \A flag : i \in Given(flag) <=> flag = argv[i].is
  BY DEF Given
<1>4. CASE argv[i].is \in ValueOptions /\ i < Len(argv) /\ i' = i + 2
  <2>1. IsValue[i + 1]
    BY <1>1, <1>2, <1>4
  <2>2. i + 2 <= Len(argv) => ~IsValue[i + 2]
    BY <1>1, <1>2, <2>1
  <2>3. \A flag : i + 1 \notin Given(flag)
    BY <2>1 DEF Given
  <2>4. \A flag : Sofar(flag)' = {k \in Given(flag) : k < i + 2}
    BY <1>4, MeaningStays DEF Sofar
  <2>5. \A flag : \A k \in Given(flag) : k < i + 2 <=> k < i \/ k = i
    BY <1>1, <2>3
  <2> QED BY <1>3, <1>4, <2>2, <2>4, <2>5 DEF Sofar
<1>5. CASE argv[i].is \notin ValueOptions /\ i' = i + 1
  <2>1. i + 1 <= Len(argv) => ~IsValue[i + 1]
    BY <1>1, <1>2, <1>5
  <2>2. \A flag : Sofar(flag)' = {k \in Given(flag) : k < i + 1}
    BY <1>5, MeaningStays DEF Sofar
  <2>3. \A flag : \A k \in Given(flag) : k < i + 1 <=> k < i \/ k = i
    BY <1>1
  <2> QED BY <1>3, <1>5, <2>1, <2>2, <2>3 DEF Sofar
<1> QED BY <1>4, <1>5

(* The argument just read is the last of its flag.                         *)
LEMMA LatestIsNew ==
  ASSUME NEW flag, Sofar(flag) \subseteq Nat, i \in Nat, Sofar(flag)' = Sofar(flag) \cup {i}
  PROVE  Latest(flag)' = i
<1>1. Latest(flag)' = CHOOSE k \in Sofar(flag) \cup {i} : \A j \in Sofar(flag) \cup {i} : j <= k
  BY DEF Latest
<1>2. \A j \in Sofar(flag) : j < i
  BY DEF Sofar
<1>3. \A k \in Sofar(flag) \cup {i} :
         (\A j \in Sofar(flag) \cup {i} : j <= k) <=> k = i
  BY <1>2
<1> HIDE DEF Sofar
<1> DEFINE P(k) == k \in Sofar(flag) \cup {i} /\ \A j \in Sofar(flag) \cup {i} : j <= k
<1>4. \A k : P(k) <=> k = i
  BY <1>3
<1>5. Latest(flag)' = CHOOSE k : P(k)
  BY <1>1
<1> HIDE DEF P
<1> QED BY <1>4, <1>5

LEMMA LatestStays ==
  ASSUME NEW flag, Sofar(flag)' = Sofar(flag)
  PROVE  Latest(flag)' = Latest(flag)
BY DEF Latest

(* What is read next neither stops the program nor is passed over.         *)
LEMMA StopsAreAhead ==
  ASSUME argv \in Seq(Arguments), i \in 1..Len(argv), ~IsValue[i], argv' = argv,
         \/ argv[i].is \in ValueOptions /\ i < Len(argv) /\ i' = i + 2
         \/ argv[i].is \notin ValueOptions /\ i' = i + 1,
         i \notin Stops, \A k \in Stops : i <= k
  PROVE  \A k \in Stops' : i' <= k
<1>1. /\ Len(argv) \in Nat /\ Stops \subseteq 1..Len(argv)
  BY Places
<1>5. Stops' = Stops /\ i' \in Nat
  BY MeaningStays
<1> SUFFICES ASSUME NEW k \in Stops, k < i' PROVE FALSE
  BY <1>1, <1>5
<1>2. PICK flag : k \in Given(flag)
  BY DEF Stops
<1>3. k \in Sofar(flag)'
  BY <1>2, MeaningStays DEF Sofar
<1>4. k \in Sofar(flag) \/ k = i
  BY <1>3, ReadsOne
<1> QED BY <1>1, <1>4 DEF Sofar

(* Reading one argument keeps the options those that are meant so far.     *)
LEMMA MeantStep ==
  ASSUME OptsTyped, i <= Len(argv), ~IsValue[i], argv' = argv,
         \/ /\ argv[i].is \in ValueOptions /\ i < Len(argv) /\ i' = i + 2
            /\ Store(argv[i].is, argv[i + 1])
         \/ /\ argv[i].is \notin ValueOptions /\ i' = i + 1
            /\ \/ argv[i].is = "--list-models" /\ opts' = [opts EXCEPT !.list = TRUE]
               \/ argv[i].is = "text" /\ opts' = [opts EXCEPT !.prompt = TRUE],
         AllMeant
  PROVE  AllMeant'
<1>1. argv \in Seq(Arguments) /\ i \in 1..Len(argv) /\ i \in Nat
  BY CliAssumption DEF OptsTyped
<1>2. \A flag : Sofar(flag) \subseteq Nat
  BY <1>1, Places DEF Sofar
<1>7. PICK f : f = argv[i].is
  OBVIOUS
<1>3. \A flag : Sofar(flag)' = IF flag = f THEN Sofar(flag) \cup {i} ELSE Sofar(flag)
  BY <1>1, <1>7, ReadsOne
<1>4. Seen(f)' /\ ValueSeen(f)' = argv[i + 1]
  <2>1. Latest(f)' = i /\ 1 + i = i + 1
    BY <1>1, <1>2, <1>3, LatestIsNew
  <2> QED BY <1>3, <2>1 DEF Seen, ValueSeen
<1>5. \A flag : flag # f => (Seen(flag)' <=> Seen(flag)) /\ ValueSeen(flag)' = ValueSeen(flag)
  BY <1>3, LatestStays DEF Seen, ValueSeen
<1>8. opts \in [path : Models \cup {Nothing}, id : Models \cup {Nothing}, prompt : BOOLEAN,
                list : BOOLEAN, context : Signed(MaxNarrow), limit : Signed(MaxWide)]
  BY DEF OptsTyped
<1> DEFINE value == argv[i + 1]
<1> USE DEF AllMeant, OthersMeant, Meant
<1>9. CASE f = "--model"
  <2>1. opts' = [opts EXCEPT !.path = value.names]
    BY <1>7, <1>9 DEF Store, ValueOptions
  <2> QED BY <1>4, <1>5, <1>8, <1>9, <2>1
<1>10. CASE f = "--model-id"
  <2>1. opts' = [opts EXCEPT !.id = value.names]
    BY <1>7, <1>10 DEF Store, ValueOptions
  <2> QED BY <1>4, <1>5, <1>8, <1>10, <2>1
<1>11. CASE f = "--context"
  <2>1. opts' = [opts EXCEPT !.context = ParseInt(value.number)]
    BY <1>7, <1>11 DEF Store, ValueOptions
  <2> QED BY <1>4, <1>5, <1>8, <1>11, <2>1
<1>12. CASE f = "--time-limit-minutes"
  <2>1. opts' = [opts EXCEPT !.limit = Seconds(value.number)]
    BY <1>7, <1>12 DEF Store, ValueOptions
  <2> QED BY <1>4, <1>5, <1>8, <1>12, <2>1
<1>13. CASE f = "--list-models"
  <2>1. opts' = [opts EXCEPT !.list = TRUE]
    BY <1>7, <1>13 DEF ValueOptions
  <2> QED BY <1>4, <1>5, <1>8, <1>13, <2>1
<1>14. CASE f = "text"
  <2>1. opts' = [opts EXCEPT !.prompt = TRUE]
    BY <1>7, <1>14 DEF ValueOptions
  <2> QED BY <1>4, <1>5, <1>8, <1>14, <2>1
<1> QED BY <1>7, <1>9, <1>10, <1>11, <1>12, <1>13, <1>14 DEF ValueOptions

(* Between the arguments nothing changes what they mean.                   *)
LEMMA MeantStays ==
  ASSUME argv' = argv, i' = i
  PROVE  /\ Stops' = Stops /\ IsValue' = IsValue
         /\ \A flag : /\ Given(flag)' = Given(flag) /\ Meant(flag)' = Meant(flag)
                      /\ (Seen(flag)' <=> Seen(flag)) /\ ValueSeen(flag)' = ValueSeen(flag)
         /\ opts' = opts => (OthersMeant' <=> OthersMeant)
<1>1. Stops' = Stops /\ IsValue' = IsValue /\ \A flag : Given(flag)' = Given(flag)
  BY MeaningStays
<1>2. \A flag : Sofar(flag)' = Sofar(flag)
  BY <1>1 DEF Sofar
<1>3. \A flag : (Seen(flag)' <=> Seen(flag)) /\ ValueSeen(flag)' = ValueSeen(flag)
  BY <1>2 DEF Seen, ValueSeen, Latest
<1>4. \A flag : Meant(flag)' = Meant(flag)
  BY <1>3 DEF Meant
<1>5. opts' = opts => (OthersMeant' <=> OthersMeant)
  BY <1>3 DEF OthersMeant
<1> QED BY <1>1, <1>3, <1>4, <1>5

LEMMA NamesStay ==
  ASSUME argv' = argv
  PROVE  \A flag : LastValue(flag)' = LastValue(flag) /\ Named(flag)' = Named(flag)
<1> SUFFICES ASSUME NEW flag
             PROVE  LastValue(flag)' = LastValue(flag) /\ Named(flag)' = Named(flag)
  OBVIOUS
<1>1. Given(flag)' = Given(flag)
  BY MeaningStays
<1>2. LastValue(flag)' = LastValue(flag)
  BY <1>1 DEF LastValue
<1> QED BY <1>1, <1>2 DEF Named

(* At the end of the arguments all of them have been seen.                 *)
LEMMA AllSeen ==
  ASSUME argv \in Seq(Arguments), i = Len(argv) + 1
  PROVE  /\ \A flag : Meant(flag) = Named(flag)
         /\ \A flag : Seen(flag) <=> Given(flag) # {}
         /\ \A flag : ValueSeen(flag) = LastValue(flag)
<1>1. Len(argv) \in Nat /\ \A flag : Given(flag) \subseteq 1..Len(argv)
  BY Places
<1>2. \A flag : Sofar(flag) = Given(flag)
  BY <1>1 DEF Sofar
<1>3. \A flag : ValueSeen(flag) = LastValue(flag) /\ (Seen(flag) <=> Given(flag) # {})
  BY <1>2 DEF ValueSeen, Latest, LastValue, Seen
<1> QED BY <1>3 DEF Meant, Named

\* The model is the one that was named, or the registry's only one.
Chosen ==
    /\ opts.path = Nothing <=> opts.id # Nothing
    /\ \/ opts.id = Meant("--model-id")
       \/ /\ opts.path = Nothing /\ Meant("--model-id") = Nothing
          /\ IF at = "create" THEN registry = {opts.id} ELSE before.registry = {opts.id}

\* How far main has read the command line.
Understood ==
    /\ at = "args" => Reading /\ (i <= Len(argv) => ~IsValue[i])
    /\ at \notin {"args", "exited"} =>
         /\ i = Len(argv) + 1 /\ Stops = {} /\ ~opts.list
         /\ opts.path = Meant("--model") /\ OthersMeant
    /\ at = "select" => opts.id = Meant("--model-id")
    /\ at \notin {"args", "select", "exited"} => Chosen

\* What a process that made no runtime exited for.
Refusal ==
    \/ \E k \in Stops : /\ \A j \in Stops : k <= j
                       /\ exit = IF argv[k].is = "--help" THEN 0 ELSE 2
    \/ Stops = {} /\ Given("--list-models") # {} /\ exit = 0
    \/ /\ Stops = {} /\ Given("--list-models") = {} /\ exit = 2
       /\ Named("--model") = Nothing <=> Named("--model-id") = Nothing

MeaningInv == Understood /\ (at = "exited" /\ call = "none" => Refusal)

LEMMA MeaningInit == CliInit => MeaningInv
<1> SUFFICES ASSUME CliInit PROVE MeaningInv
  OBVIOUS
<1>1. argv \in Seq(Arguments) /\ i = 1 /\ at = "args" /\ opts = DefaultOpts
  BY CliAssumption DEF CliInit
<1>2. /\ Len(argv) \in Nat /\ Stops \subseteq 1..Len(argv)
      /\ \A flag : Given(flag) \subseteq 1..Len(argv)
  BY <1>1, Places
<1>3. \A flag : ~Seen(flag)
  BY <1>1, <1>2 DEF Seen, Sofar
<1>4. AllMeant
  BY <1>1, <1>3 DEF AllMeant, OthersMeant, Meant, DefaultOpts
<1>5. i <= Len(argv) => ~IsValue[i]
  BY <1>1, <1>2, ValuesAre
<1> QED BY <1>1, <1>2, <1>4, <1>5 DEF MeaningInv, Understood, Reading

(* Reading an argument, or stopping at one that cannot be read.            *)
LEMMA MeaningOfArgument ==
  ASSUME OptsTyped, MeaningInv, ReadOption \/ ReadFlag
  PROVE  MeaningInv'
<1>1. /\ argv \in Seq(Arguments) /\ i \in 1..Len(argv) /\ at = "args" /\ argv' = argv
      /\ Len(argv) \in Nat
  BY CliAssumption DEF OptsTyped, ReadOption, ReadFlag
<1>2. Reading /\ ~IsValue[i]
  BY <1>1 DEF MeaningInv, Understood
<1>3. argv[i].is \in Flags /\ i \in Given(argv[i].is)
  BY <1>1, <1>2, Places DEF Given
<1>4. ASSUME i \in Stops, i' = i, at' = "exited",
             exit' = IF argv[i].is = "--help" THEN 0 ELSE 2
      PROVE  MeaningInv'
  <2>1. Stops' = Stops
    BY <1>1, <1>4, MeantStays
  <2>2. Refusal'
    BY <1>1, <1>2, <1>4, <2>1 DEF Refusal, Reading
  <2> QED BY <1>4, <2>2 DEF MeaningInv, Understood
<1>5. ASSUME i \notin Stops, at' = "args",
             \/ /\ argv[i].is \in ValueOptions /\ i < Len(argv) /\ i' = i + 2
                /\ Store(argv[i].is, argv[i + 1])
             \/ /\ argv[i].is \notin ValueOptions /\ i' = i + 1
                /\ \/ argv[i].is = "--list-models" /\ opts' = [opts EXCEPT !.list = TRUE]
                   \/ argv[i].is = "text" /\ opts' = [opts EXCEPT !.prompt = TRUE]
      PROVE  MeaningInv'
  <2>1. \/ argv[i].is \in ValueOptions /\ i < Len(argv) /\ i' = i + 2
        \/ argv[i].is \notin ValueOptions /\ i' = i + 1
    BY <1>5
  <2>2. AllMeant'
    BY <1>1, <1>2, <1>5, MeantStep DEF Reading
  <2>3. \A k \in Stops' : i' <= k
    BY <1>1, <1>2, <1>5, <2>1, StopsAreAhead DEF Reading
  <2>4. i' <= Len(argv') => ~IsValue'[i']
    BY <1>1, <1>2, <2>1, ReadsOne, MeaningStays
  <2> QED BY <1>5, <2>2, <2>3, <2>4 DEF MeaningInv, Understood, Reading
<1>6. CASE ReadOption
  <2>1. i \in Stops <=> i = Len(argv) \/ ~Readable(argv[i].is, argv[i + 1])
    <3>1. argv[i].is \in ValueOptions
      BY <1>6 DEF ReadOption
    <3>2. \A flag : i \in Given(flag) <=> flag = argv[i].is
      BY <1>3 DEF Given
    <3> QED BY <3>1, <3>2 DEF Stops, ValueOptions
  <2>2. CASE i < Len(argv) /\ Readable(argv[i].is, argv[i + 1])
    BY <1>1, <1>5, <1>6, <2>1, <2>2 DEF ReadOption
  <2>3. CASE ~(i < Len(argv) /\ Readable(argv[i].is, argv[i + 1]))
    BY <1>1, <1>4, <1>6, <2>1, <2>3 DEF ReadOption, Exit, ValueOptions
  <2> QED BY <2>2, <2>3
<1>7. CASE ReadFlag
  <2>1. i \in Stops <=> argv[i].is \in {"--help", "unknown"}
    <3>1. argv[i].is \notin ValueOptions
      BY <1>7 DEF ReadFlag
    <3>2. \A flag : i \in Given(flag) <=> flag = argv[i].is
      BY <1>3 DEF Given
    <3> QED BY <3>1, <3>2 DEF Stops
  <2>2. CASE argv[i].is \in {"--help", "unknown"}
    BY <1>1, <1>4, <1>7, <2>1, <2>2 DEF ReadFlag, Exit
  <2>3. CASE argv[i].is \notin {"--help", "unknown"}
    BY <1>1, <1>5, <1>7, <2>1, <2>3 DEF ReadFlag
  <2> QED BY <2>2, <2>3
<1> QED BY <1>6, <1>7

(* The end of the arguments and the choice of the model.                   *)
LEMMA MeaningOfEnd ==
  ASSUME OptsTyped, MeaningInv, Phase, EndOfArgs \/ Select
  PROVE  MeaningInv'
<1> USE DEF Exit
<1>1. argv \in Seq(Arguments) /\ argv' = argv /\ i' = i /\ Len(argv) \in Nat
  BY CliAssumption, Places DEF OptsTyped, EndOfArgs, Select
<1>2. /\ Stops' = Stops /\ \A flag : Given(flag)' = Given(flag) /\ Meant(flag)' = Meant(flag)
      /\ opts' = opts => (OthersMeant' <=> OthersMeant)
  BY <1>1, MeantStays
<1>3. ASSUME at' = "exited", Refusal' PROVE MeaningInv'
  BY <1>3 DEF MeaningInv, Understood
<1>4. CASE EndOfArgs
  <2>1. i = Len(argv) + 1 /\ Reading
    BY <1>1, <1>4 DEF EndOfArgs, OptsTyped, MeaningInv, Understood
  <2>2. Stops = {}
    BY <1>1, <2>1, Places DEF Reading
  <2>3. CASE opts.list
    <3>1. Given("--list-models") # {}
      BY <1>1, <2>1, <2>3, AllSeen DEF Reading, AllMeant, OthersMeant
    <3>2. Refusal'
      BY <1>2, <1>4, <2>2, <2>3, <3>1 DEF EndOfArgs, Refusal
    <3> QED BY <1>3, <1>4, <2>3, <3>2 DEF EndOfArgs
  <2>4. CASE ~opts.list
    <3>1. at' = "select" /\ opts' = opts
      BY <1>4, <2>4 DEF EndOfArgs
    <3> QED BY <1>1, <1>2, <2>1, <2>2, <2>4, <3>1
            DEF MeaningInv, Understood, Reading, AllMeant
  <2> QED BY <2>3, <2>4
<1>5. CASE Select
  <2>1. /\ at = "select" /\ i = Len(argv) + 1 /\ Stops = {} /\ ~opts.list /\ OthersMeant
        /\ opts.path = Meant("--model") /\ opts.id = Meant("--model-id")
    BY <1>5 DEF Select, MeaningInv, Understood
  <2>2. /\ Named("--model") = opts.path /\ Named("--model-id") = opts.id
        /\ Given("--list-models") = {}
    BY <1>1, <2>1, AllSeen DEF OthersMeant
  <2>3. \A flag : Named(flag)' = Named(flag)
    BY <1>1, NamesStay
  <2>4. CASE at' = "exited"
    <3>1. exit' = 2 /\ (opts.path = Nothing <=> opts.id = Nothing)
      BY <1>5, <2>4 DEF Select
    <3>2. Refusal'
      BY <1>2, <2>1, <2>2, <2>3, <3>1 DEF Refusal
    <3> QED BY <1>3, <2>4, <3>2
  <2>5. CASE at' = "create" /\ opts' = opts /\ (opts.path = Nothing <=> opts.id # Nothing)
    BY <1>1, <1>2, <2>1, <2>5 DEF MeaningInv, Understood, Chosen
  <2>6. ASSUME NEW m \in Models, registry = {m}, opts.path = Nothing, opts.id = Nothing,
               opts' = [opts EXCEPT !.id = m], at' = "create"
        PROVE  MeaningInv'
    <3>1. /\ opts'.id = m /\ opts'.path = opts.path /\ opts'.list = opts.list
          /\ opts'.prompt = opts.prompt /\ opts'.context = opts.context
          /\ opts'.limit = opts.limit
      BY <2>6 DEF OptsTyped
    <3>2. registry' = registry /\ m # Nothing
      BY <1>5, RuntimeAssumption DEF Select, vars, RuntimeAssumption
    <3>3. OthersMeant'
      <4>1. \A flag : (Seen(flag)' <=> Seen(flag)) /\ ValueSeen(flag)' = ValueSeen(flag)
        BY <1>1, MeantStays
      <4> QED BY <2>1, <3>1, <4>1 DEF OthersMeant
    <3> QED BY <1>1, <1>2, <2>1, <2>6, <3>1, <3>2, <3>3 DEF MeaningInv, Understood, Chosen
  <2> QED BY <1>5, <2>4, <2>5, <2>6 DEF Select, Selected
<1> QED BY <1>4, <1>5

(* After the choice the options stay, and the registry that was looked at. *)
LEMMA MeaningAfter ==
  ASSUME OptsTyped, MeaningInv, Phase, Exited, [CliNext]_cliVars,
         ~ReadOption, ~ReadFlag, ~EndOfArgs, ~Select
  PROVE  MeaningInv'
<1>1. /\ argv' = argv /\ i' = i /\ opts' = opts
      /\ at \notin {"args", "select"} => at' \notin {"args", "select"}
      /\ at \notin {"args", "select", "create"} => at' # "create"
      /\ at \in {"args", "select", "exited"} => at' = at /\ exit' = exit
  <2> USE DEF Exit, cli
  <2>1. CASE CallCreate \/ CreateIsDone \/ CreateFailed \/ ModelLoaded \/ OneShot
    BY <2>1 DEF CallCreate, CreateIsDone, CreateFailed, ModelLoaded, OneShot
  <2>2. CASE OneShotIsDone \/ Command \/ UnloadCommand \/ Prompt \/ PromptIsDone
    BY <2>2 DEF OneShotIsDone, Command, UnloadCommand, Prompt, PromptIsDone
  <2>3. CASE Quit \/ Leave \/ InRuntime \/ World \/ UNCHANGED cliVars
    BY <2>3 DEF Quit, Leave, InRuntime, World, cliVars
  <2> QED BY <2>1, <2>2, <2>3 DEF CliNext, Main
<1>2. /\ Stops' = Stops /\ IsValue' = IsValue
      /\ \A flag : Given(flag)' = Given(flag) /\ Meant(flag)' = Meant(flag)
      /\ OthersMeant' <=> OthersMeant
  BY <1>1, MeantStays
<1>3. AllMeant' <=> AllMeant
  BY <1>1, <1>2 DEF AllMeant
<1>4. IF at' # "create" /\ at = "create" THEN before'.registry = registry
      ELSE (at = "create" => registry' = registry) /\ (at \notin {"args", "select"} => before' = before)
  <2> USE DEF vars, history
  <2>1. CASE CallCreate
    <3>1. before' = [engine |-> engine, registry |-> registry]
      BY <2>1 DEF CallCreate, Create, Begin
    <3>2. at = "create" /\ at' = "creating"
      BY <2>1 DEF CallCreate
    <3> QED BY <3>1, <3>2
  <2>2. CASE CreateIsDone \/ CreateFailed
    BY <2>2 DEF CreateIsDone, CreateReturns, CreateFailed, Destroy, Exit
  <2>3. CASE ModelLoaded \/ Command \/ PromptIsDone \/ Quit
    BY <2>3 DEF ModelLoaded, Command, PromptIsDone, Quit
  <2>4. CASE OneShot \/ Prompt
    BY <2>4 DEF OneShot, Prompt, Generate
  <2>5. CASE OneShotIsDone \/ Leave
    BY <2>5 DEF OneShotIsDone, Leave, Destroy, Exit
  <2>6. CASE UnloadCommand
    BY <2>6 DEF UnloadCommand, Unload
  <2>7. CASE InRuntime
    <3>1. at' = at /\ before' = before
      BY <2>7 DEF InRuntime, cli, Validate, CheckQuota, Resolve, Verify, LoadEngine, Infer, Record
    <3>2. at # "create"
      BY <2>7 DEF Phase, InRuntime, Validate, CheckQuota, Resolve, Verify, LoadEngine, Infer, Record
    <3> QED BY <3>1, <3>2
  <2>8. CASE World
    BY <2>8 DEF World, cli, ChangeModel, OtherProcess, NewPeriod
  <2>9. CASE UNCHANGED cliVars
    BY <2>9 DEF cliVars, cli
  <2> QED BY <2>1, <2>2, <2>3, <2>4, <2>5, <2>6, <2>7, <2>8, <2>9 DEF CliNext, Main
<1>5. Understood'
  <2>1. CASE at = "args"
    BY <1>1, <1>2, <1>3, <2>1 DEF MeaningInv, Understood, Reading
  <2>2. CASE at = "select"
    BY <1>1, <1>2, <2>2 DEF MeaningInv, Understood
  <2>3. CASE at \notin {"args", "select", "exited"}
    <3>1. Chosen
      BY <2>3 DEF MeaningInv, Understood
    <3>2. at = "create" \/ at' # "create"
      BY <1>1, <2>3
    <3>3. \/ opts.id = Meant("--model-id")
          \/ /\ opts.path = Nothing /\ Meant("--model-id") = Nothing
             /\ IF at' = "create" THEN registry' = {opts.id} ELSE before'.registry = {opts.id}
      BY <1>4, <2>3, <3>1, <3>2 DEF Chosen
    <3>4. Chosen'
      BY <1>1, <1>2, <3>1, <3>3 DEF Chosen
    <3> QED BY <1>1, <1>2, <2>3, <3>4 DEF MeaningInv, Understood
  <2>4. CASE at = "exited"
    BY <1>1, <2>4 DEF Understood
  <2> QED BY <2>1, <2>2, <2>3, <2>4
<1>6. ASSUME at' = "exited", call' = "none" PROVE Refusal'
  <2>1. at = "exited" /\ call = "none"
    <3>1. CASE CallCreate \/ CreateIsDone \/ ModelLoaded \/ OneShot \/ Command \/ UnloadCommand
      BY <1>6, <3>1 DEF CallCreate, CreateIsDone, ModelLoaded, OneShot, Command, UnloadCommand
    <3>2. CASE Prompt \/ PromptIsDone \/ Quit
      BY <1>6, <3>2 DEF Prompt, PromptIsDone, Quit
    <3>3. CASE CreateFailed
      BY <1>6, <3>3 DEF CreateFailed, Destroy, Phase, vars, history
    <3>4. CASE OneShotIsDone \/ Leave
      BY <1>6, <3>4 DEF OneShotIsDone, Leave, Destroy
    <3>5. CASE InRuntime
      BY <1>6, <3>5 DEF InRuntime, cli, history, Validate, CheckQuota, Resolve, Verify,
                        LoadEngine, Infer, Record
    <3>6. CASE World \/ UNCHANGED cliVars
      BY <1>6, <3>6 DEF World, cliVars, vars, cli, history, ChangeModel, OtherProcess, NewPeriod
    <3> QED BY <3>1, <3>2, <3>3, <3>4, <3>5, <3>6 DEF CliNext, Main
  <2>2. \A flag : Named(flag)' = Named(flag)
    BY <1>1, NamesStay
  <2> QED BY <1>1, <1>2, <2>1, <2>2 DEF MeaningInv, Refusal
<1> QED BY <1>5, <1>6 DEF MeaningInv

LEMMA MeaningCorrect == CliSpec => []MeaningInv
<1>1. /\ OptsTyped /\ MeaningInv /\ Phase /\ Exited /\ [CliNext]_cliVars => MeaningInv'
  BY MeaningOfArgument, MeaningOfEnd, MeaningAfter
<1> QED BY <1>1, MeaningInit, OptsCorrect, PhaseCorrect, PTL DEF CliSpec
-----------------------------------------------------------------------------
\* What the runtime was given is what main requested of it.
Handed ==
    /\ at \in {"creating", "created", "oneshot", "line", "answering", "leaving"} =>
         passed = Requested /\ arg = ToCppConfig(passed)
    /\ ready => config = arg

LEMMA HandedStep ==
  ASSUME OptsTyped, IInv, Phase, Handed, [CliNext]_cliVars
  PROVE  Handed'
<1>1. opts' = opts => Requested' = Requested
  BY DEF Requested
<1> USE DEF Handed
<1>2. CASE ReadOption \/ ReadFlag \/ EndOfArgs \/ Select
  BY <1>2 DEF ReadOption, ReadFlag, EndOfArgs, Select, Exit, vars, object, history
<1>3. CASE CallCreate
  BY <1>1, <1>3 DEF CallCreate, Create, Begin
<1>4. CASE CreateIsDone
  BY <1>1, <1>4 DEF CreateIsDone, CreateReturns, object, history, NewObject
<1>5. CASE CreateFailed
  BY <1>5 DEF CreateFailed, Destroy, Exit, NewObject, vars, object
<1>6. CASE ModelLoaded \/ Command \/ PromptIsDone \/ Quit
  BY <1>1, <1>6 DEF ModelLoaded, Command, PromptIsDone, Quit, vars, object, history
<1>7. CASE OneShot \/ Prompt
  BY <1>1, <1>7 DEF OneShot, Prompt, Generate
<1>8. CASE OneShotIsDone \/ Leave
  BY <1>8 DEF OneShotIsDone, Leave, Destroy, Exit, NewObject
<1>9. CASE UnloadCommand
  BY <1>1, <1>9 DEF UnloadCommand, Unload
<1>10. CASE InRuntime
  <2>1. UNCHANGED cli
    BY <1>10 DEF InRuntime
  <2>2. passed' = passed /\ arg' = arg
    BY <1>10 DEF InRuntime, Validate, CheckQuota, Resolve, Verify, LoadEngine, Infer, Record,
                 history
  <2>3. ready' => config' = arg'
    <3>1. CASE LoadEngine
      BY <3>1 DEF LoadEngine
    <3>2. CASE Validate \/ CheckQuota \/ Resolve \/ Verify
      BY <3>2 DEF Validate, CheckQuota, Resolve, Verify
    <3>3. CASE Infer \/ Record
      BY <3>3 DEF Infer, Record, object
    <3> QED BY <1>10, <3>1, <3>2, <3>3 DEF InRuntime
  <2> QED BY <1>1, <2>1, <2>2, <2>3 DEF cli
<1>11. CASE World \/ UNCHANGED cliVars
  BY <1>1, <1>11 DEF World, cli, cliVars, vars, ChangeModel, OtherProcess, NewPeriod, object,
                     history
<1> QED BY <1>2, <1>3, <1>4, <1>5, <1>6, <1>7, <1>8, <1>9, <1>10, <1>11 DEF CliNext, Main

LEMMA HandedCorrect == CliSpec => []Handed
<1>1. CliInit => Handed
  BY DEF CliInit, Init, Handed
<1> QED BY <1>1, HandedStep, OptsCorrect, PhaseCorrect, CliIsAClient, Inductive, PTL DEF CliSpec

(* The program runs what the command line means, for every command line.   *)
THEOREM CommandLineIsObeyed == CliSpec => []RunsWhatIsMeant
<1>1. OptsTyped /\ MeaningInv /\ Handed => RunsWhatIsMeant
  <2> SUFFICES ASSUME OptsTyped, MeaningInv, Handed PROVE RunsWhatIsMeant
    OBVIOUS
  <2>1. at = "exited" /\ call = "none" => Refusal
    BY DEF MeaningInv
  <2>2. ASSUME at \in {"creating", "created"}
        PROVE  /\ Stops = {} /\ Given("--list-models") = {}
               /\ opts.prompt <=> Given("text") # {}
               /\ \/ passed.names = {"path"} /\ Named("--model-id") = Nothing
                     /\ passed.model = Named("--model")
                  \/ passed.names = {"id"} /\ Named("--model") = Nothing
                     /\ passed.model = Named("--model-id")
                  \/ /\ passed.names = {"id"}
                     /\ Named("--model") = Nothing /\ Named("--model-id") = Nothing
                     /\ before.registry = {passed.model}
    <3>1. argv \in Seq(Arguments) /\ i = Len(argv) + 1
      BY <2>2, CliAssumption DEF OptsTyped, MeaningInv, Understood
    <3>2. /\ Stops = {} /\ Given("--list-models") = {} /\ (opts.prompt <=> Given("text") # {})
          /\ opts.path = Named("--model")
      BY <2>2, <3>1, AllSeen DEF MeaningInv, Understood, OthersMeant
    <3>3. /\ opts.path = Nothing <=> opts.id # Nothing
          /\ \/ opts.id = Named("--model-id")
             \/ /\ opts.path = Nothing /\ Named("--model-id") = Nothing
                /\ before.registry = {opts.id}
      BY <2>2, <3>1, AllSeen DEF MeaningInv, Understood, Chosen
    <3>4. /\ passed.names = IF opts.path # Nothing THEN {"path"} ELSE {"id"}
          /\ passed.model = IF opts.path # Nothing THEN opts.path ELSE opts.id
      BY <2>2 DEF Handed, Requested
    <3> QED BY <3>2, <3>3, <3>4
  <2> QED BY <2>1, <2>2 DEF RunsWhatIsMeant, Refusal
<1> QED BY <1>1, OptsCorrect, MeaningCorrect, HandedCorrect, PTL

-----------------------------------------------------------------------------
(* A number that is of the signed type is not changed by the conversion.   *)
LEMMA WrapIsExact ==
  ASSUME NEW max \in Nat, NEW n \in Signed(max)
  PROVE  Wrap(n, max) = n
<1> DEFINE d == 2 * (max + 1)
           x == n + max + 1
<1>1. d \in Nat \ {0} /\ x \in 0 .. (d - 1) /\ x - (max + 1) = n
  BY DEF Signed
<1>2. x % d = x
  <2> HIDE DEF d, x
  <2> QED BY <1>1
<1>3. Wrap(n, max) = (x % d) - (max + 1)
  BY DEF Wrap
<1> HIDE DEF d, x
<1> QED BY <1>1, <1>2, <1>3

(* A factor of at least one makes no number smaller.                       *)
LEMMA ScaleGrows ==
  ASSUME NEW n \in Int, NEW u \in Nat \ {0}
  PROVE  /\ n > 0 => n * u >= n
         /\ n <= 0 => n * u <= n
<1> DEFINE w == u - 1
<1>1. w \in Nat /\ n * u = n * w + n
  OBVIOUS
<1>2. (n > 0 => n * w >= 0) /\ (n <= 0 => n * w <= 0) /\ n * w \in Int
  <2> HIDE DEF w
  <2> QED BY <1>1
<1> HIDE DEF w
<1> QED BY <1>1, <1>2

(* A context or a limit that fits is itself.                               *)
LEMMA NumbersAreExact ==
  ASSUME NEW n \in Int
  PROVE  /\ n \in Signed(MaxNarrow) => ParseInt(n) = n
         /\ n * Unit \in Signed(MaxWide) => Seconds(n) = n * Unit
<1>1. n \in Signed(MaxWide) => StrTo(n) = n
  BY CliAssumption DEF Signed, StrTo
<1>2. ASSUME n \in Signed(MaxNarrow) PROVE ParseInt(n) = n
  <2>1. n \in Signed(MaxWide)
    BY <1>2, CliAssumption DEF Signed
  <2> QED BY <1>1, <1>2, <2>1, WrapIsExact, CliAssumption DEF ParseInt
<1>3. ASSUME n * Unit \in Signed(MaxWide)
      PROVE  Seconds(n) = n * Unit
  <2> DEFINE p == n * Unit
  <2>1. (n > 0 => p >= n) /\ (n <= 0 => p <= n)
    BY ScaleGrows, CliAssumption
  <2>2. p \in Signed(MaxWide) /\ p \in Int
    BY <1>3, CliAssumption
  <2>3. Seconds(n) = Wrap(StrTo(n) * Unit, MaxWide)
    BY DEF Seconds
  <2>4. n \in Signed(MaxWide)
    <3> HIDE DEF p
    <3> QED BY <2>1, <2>2, CliAssumption DEF Signed
  <2>5. Seconds(n) = Wrap(p, MaxWide)
    BY <1>1, <2>3, <2>4
  <2>6. Wrap(p, MaxWide) = p
    <3> HIDE DEF p
    <3> QED BY <2>2, WrapIsExact, CliAssumption
  <2> QED BY <2>5, <2>6
<1> QED BY <1>2, <1>3

(* The value of an option that was read is a number where it wants one.    *)
LEMMA NumberIsRead ==
  ASSUME argv \in Seq(Arguments), Stops = {},
         NEW flag \in {"--context", "--time-limit-minutes"}, Given(flag) # {}
  PROVE  LastValue(flag).number \in Int
<1>1. /\ Len(argv) \in Nat /\ Given(flag) \subseteq 1..Len(argv)
      /\ \A k \in 1..Len(argv) : argv[k] \in Arguments
  BY Places
<1> DEFINE last == CHOOSE k \in Given(flag) : \A j \in Given(flag) : j <= k
<1>2. last \in Given(flag)
  <2> DEFINE Gaps == {Len(argv) - k : k \in Given(flag)}
  <2>1. Gaps \in SUBSET Nat /\ Gaps # {}
    BY <1>1
  <2>2. PICK g \in Gaps : \A h \in Gaps : g <= h
    <3> HIDE DEF Gaps
    <3> QED BY <2>1, Least
  <2>3. PICK k \in Given(flag) : g = Len(argv) - k
    BY <2>2
  <2>4. ASSUME NEW j \in Given(flag) PROVE j <= k
    <3>1. g <= Len(argv) - j
      BY <2>2
    <3>2. j \in Nat /\ k \in Nat
      BY <1>1
    <3> QED BY <1>1, <2>3, <3>1, <3>2
  <2> QED BY <2>4
<1>3. last # Len(argv) /\ Readable(argv[last].is, argv[last + 1])
  <2> HIDE DEF last
  <2> QED BY <1>2 DEF Stops, ValueOptions
<1>4. argv[last].is = flag /\ last + 1 \in 1..Len(argv) /\ 1 + last = last + 1
  <2> HIDE DEF last
  <2> QED BY <1>1, <1>2, <1>3 DEF Given
<1>5. argv[last + 1] \in Arguments /\ argv[last + 1].number # Nothing
  <2> HIDE DEF last
  <2> QED BY <1>1, <1>3, <1>4 DEF Readable
<1>6. LastValue(flag) = argv[last + 1]
  BY <1>4 DEF LastValue
<1> QED BY <1>5, <1>6 DEF Arguments

(***************************************************************************)
(* At every width, a ready model has the number that was typed exactly if  *)
(* validate_config admits it: from an admitted number every step from the  *)
(* argument to the configuration is exact, the product included, and what  *)
(* a ready runtime is configured with has been admitted.                   *)
(***************************************************************************)
THEOREM NumbersAreKept == CliSpec => []ValidNumbersAreKept
<1>1. OptsTyped /\ IInv /\ Phase /\ Exited /\ MeaningInv /\ Handed => ValidNumbersAreKept
  <2> SUFFICES ASSUME OptsTyped, IInv, Phase, Exited, MeaningInv, Handed, ready
               PROVE  ValidNumbersAreKept
    BY DEF ValidNumbersAreKept
  <2>1. at \in {"creating", "created", "oneshot", "line", "answering", "leaving"}
    BY DEF IInv, ReadyInv, Phase, Exited, OptsTyped, Locations
  <2>2. /\ config.context = IF opts.context > 0 THEN opts.context ELSE DefaultContext
        /\ config.limit = IF opts.limit > 0 THEN opts.limit ELSE 0
    <3>1. config = ToCppConfig(Requested)
      BY <2>1 DEF Handed
    <3> QED BY <3>1 DEF Requested, ToCppConfig
  <2>3. config.context \in MinContext..MaxContext /\ config.limit \in 0..MaxLimit
    BY DEF IInv, ReadyInv, ReadyServesOneLoad, ValidConfig
  <2>4. argv \in Seq(Arguments) /\ i = Len(argv) + 1 /\ Stops = {} /\ OthersMeant
    BY <2>1, CliAssumption DEF OptsTyped, MeaningInv, Understood
  <2>5. ASSUME Given("--time-limit-minutes") # {}
        PROVE  LET seconds == LastValue("--time-limit-minutes").number * Unit
               IN  config.limit = seconds <=> seconds \in 0..MaxLimit
    <3> DEFINE n == LastValue("--time-limit-minutes").number
               seconds == n * Unit
    <3>1. n \in Int
      BY <2>4, <2>5, NumberIsRead
    <3>2. opts.limit = Seconds(n)
      BY <2>4, <2>5, AllSeen DEF OthersMeant
    <3>3. seconds \in Signed(MaxWide) => opts.limit = seconds
      <4> HIDE DEF n
      <4> QED BY <3>1, <3>2, NumbersAreExact
    <3> HIDE DEF seconds
    <3>4. seconds \in 0..MaxLimit => config.limit = seconds
      BY <2>2, <3>3, CliAssumption DEF Signed, MaxLimit
    <3>5. config.limit = seconds <=> seconds \in 0..MaxLimit
      BY <2>3, <3>4
    <3> QED BY <3>5 DEF seconds
  <2>6. ASSUME Given("--context") # {}
        PROVE  LET n == LastValue("--context").number
               IN  config.context = n <=> n \in MinContext..MaxContext
    <3> DEFINE n == LastValue("--context").number
    <3>1. n \in Int
      BY <2>4, <2>6, NumberIsRead
    <3>2. opts.context = ParseInt(n)
      BY <2>4, <2>6, AllSeen DEF OthersMeant
    <3> HIDE DEF n
    <3>3. n \in MinContext..MaxContext => config.context = n
      BY <2>2, <3>1, <3>2, NumbersAreExact, CliAssumption DEF Signed, MinContext, MaxContext
    <3>4. config.context = n <=> n \in MinContext..MaxContext
      BY <2>3, <3>3
    <3> QED BY <3>4 DEF n
  <2> QED BY <2>5, <2>6 DEF ValidNumbersAreKept
<1> QED BY <1>1, OptsCorrect, CliIsAClient, Inductive, PhaseCorrect, MeaningCorrect,
           HandedCorrect, PTL
=============================================================================
