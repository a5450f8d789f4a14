---------------------------------- MODULE Cli ----------------------------------
(***************************************************************************)
(* src/cli/main.cpp: one process of the command-line program, from the     *)
(* first argument to its exit code, as a client of the C API in Runtime.   *)
(*                                                                         *)
(* An argument is a record of what the program can make of it: the flag it *)
(* is, the model it names as a path or an id, and the number it reads as.  *)
(* --model and --model-id stand for the options with a text, --context for *)
(* those of type int32_t, --time-limit-minutes for those of type int64_t,  *)
(* and its unit for the factors 60, 3600 and 1.  Left out are the floating *)
(* point options, the other files an option may name, so that the usage is *)
(* always that of the default file, and a --top-k of 0, which the C API    *)
(* keeps while it replaces any other field's 0 by the default.             *)
(***************************************************************************)
EXTENDS Runtime, Sequences

CONSTANTS
    Argvs,        \* the command lines users write
    DefaultStore, \* the default usage-state file
    MaxWide,      \* the largest int64_t, and long
    MaxNarrow,    \* the largest int32_t
    Unit,         \* the seconds of a minute
    MaxLines      \* bound: lines typed before the end of the input

ValueOptions == {"--model", "--model-id", "--context", "--time-limit-minutes"}
Flags == ValueOptions \cup {"--help", "--list-models", "text", "unknown"}

\* names is Nothing in the empty argument, number is Nothing where strtol wants one.
Arguments == [is : Flags, names : Models \cup {Nothing}, number : Int \cup {Nothing}]

Signed(max) == -(max + 1) .. max

\* The configurations main can pass to create.
CliConfigs == [names : {{"path"}, {"id"}}, model : Models, context : Signed(MaxNarrow),
               limit : Signed(MaxWide), store : {DefaultStore}]

ASSUME CliAssumption ==
    /\ Argvs \subseteq Seq(Arguments)
    /\ DefaultStore \in Stores /\ Nothing \notin Int
    /\ MaxNarrow \in Nat /\ MaxWide \in Nat /\ DefaultContext <= MaxNarrow
    /\ MaxNarrow <= MaxWide
    /\ MaxContext <= MaxNarrow /\ MaxLimit <= MaxWide \* what is valid fits its type
    /\ Unit \in Nat \ {0} /\ MaxLines \in Nat
    /\ CliConfigs \subseteq Asked

VARIABLES
    argv,   \* the command line
    i,      \* i, from 1 as in argv
    opts,   \* the locals model_path, model_id, have_trailing_prompt, ... and config
    at,     \* where main is
    status, \* the last status the C API returned
    exit,   \* the exit code, or Nothing
    lines   \* how many lines were typed

cli == <<argv, i, opts, at, status, exit, lines>>
cliVars == <<vars, cli>>

\* syj_edgemind_default_config and the locals of main.
DefaultOpts == [path |-> Nothing, id |-> Nothing, prompt |-> FALSE, list |-> FALSE,
                context |-> DefaultContext, limit |-> 0]

CliInit ==
    /\ Init /\ arg = CHOOSE c \in Asked : TRUE
    /\ argv \in Argvs /\ i = 1 /\ opts = DefaultOpts
    /\ at = "args" /\ status = "None" /\ exit = Nothing /\ lines = 0
-----------------------------------------------------------------------------
Exit(code) == at' = "exited" /\ exit' = code

\* strtol and strtoll stop at the ends of their type.
StrTo(n) == IF n > MaxWide THEN MaxWide ELSE IF n < -(MaxWide + 1) THEN -(MaxWide + 1) ELSE n

\* A conversion to a signed type, and what the build makes of a product that leaves it.
Wrap(n, max) == ((n + max + 1) % (2 * (max + 1))) - (max + 1)

\* parse_int_arg.
ParseInt(n) == Wrap(StrTo(n), MaxNarrow)

\* Mutation: the minutes are converted to the narrow type first.
Seconds_Narrow(n) == ParseInt(n) * Unit

\* --time-limit-minutes, with its unchecked product.
Seconds(n) == Wrap(StrTo(n) * Unit, MaxWide)

\* The option's value is stored, if it is one.
Store(flag, value) ==
    \/ flag = "--model"    /\ opts' = [opts EXCEPT !.path = value.names]
    \/ flag = "--model-id" /\ opts' = [opts EXCEPT !.id = value.names]
    \/ /\ value.number # Nothing
       /\ \/ flag = "--context" /\ opts' = [opts EXCEPT !.context = ParseInt(value.number)]
          \/ flag = "--time-limit-minutes"
             /\ opts' = [opts EXCEPT !.limit = Seconds(value.number)]

Readable(flag, value) == flag \in {"--model", "--model-id"} \/ value.number # Nothing

\* Mutation: a value that is an option is left to be read as one.
ReadOption_Peeks ==
    /\ at = "args" /\ i <= Len(argv) /\ argv[i].is \in ValueOptions
    /\ IF i < Len(argv) /\ Readable(argv[i].is, argv[i + 1])
       THEN /\ Store(argv[i].is, argv[i + 1])
            /\ i' = IF argv[i + 1].is \in ValueOptions THEN i + 1 ELSE i + 2
            /\ UNCHANGED <<at, exit>>
       ELSE Exit(2) /\ UNCHANGED <<i, opts>>
    /\ UNCHANGED <<vars, argv, status, lines>>

\* An option takes the next argument, whatever that is.
ReadOption ==
    /\ at = "args" /\ i <= Len(argv) /\ argv[i].is \in ValueOptions
    /\ IF i < Len(argv) /\ Readable(argv[i].is, argv[i + 1])
       THEN Store(argv[i].is, argv[i + 1]) /\ i' = i + 2 /\ UNCHANGED <<at, exit>>
       ELSE Exit(2) /\ UNCHANGED <<i, opts>>
    /\ UNCHANGED <<vars, argv, status, lines>>

ReadFlag ==
    /\ at = "args" /\ i <= Len(argv) /\ argv[i].is \notin ValueOptions
    /\ \/ argv[i].is = "--help" /\ Exit(0) /\ UNCHANGED <<i, opts>>
       \/ argv[i].is = "unknown" /\ Exit(2) /\ UNCHANGED <<i, opts>>
       \/ /\ \/ argv[i].is = "--list-models" /\ opts' = [opts EXCEPT !.list = TRUE]
             \/ argv[i].is = "text" /\ opts' = [opts EXCEPT !.prompt = TRUE]
          /\ i' = i + 1 /\ UNCHANGED <<at, exit>>
    /\ UNCHANGED <<vars, argv, status, lines>>

EndOfArgs ==
    /\ at = "args" /\ i > Len(argv)
    /\ IF opts.list THEN Exit(0) ELSE at' = "select" /\ UNCHANGED exit
    /\ UNCHANGED <<vars, argv, i, opts, status, lines>>

\* The model that the registry leaves no doubt about.
Selected == {m \in Models : registry = {m}}

\* The choice of the model; a registry that cannot be read is one without entries.
Select ==
    /\ at = "select"
    /\ IF opts.path # Nothing \/ opts.id # Nothing
       THEN /\ UNCHANGED opts
            /\ IF opts.path # Nothing /\ opts.id # Nothing
               THEN Exit(2) ELSE at' = "create" /\ UNCHANGED exit
       ELSE \/ /\ \E m \in Selected : opts' = [opts EXCEPT !.id = m]
               /\ at' = "create" /\ UNCHANGED exit
            \/ Exit(2) /\ UNCHANGED opts
    /\ UNCHANGED <<vars, argv, i, status, lines>>
-----------------------------------------------------------------------------
Requested ==
    [names |-> IF opts.path # Nothing THEN {"path"} ELSE {"id"},
     model |-> IF opts.path # Nothing THEN opts.path ELSE opts.id,
     context |-> opts.context, limit |-> opts.limit, store |-> DefaultStore]

CallCreate ==
    /\ at = "create" /\ at' = "creating"
    /\ Create(Requested)
    /\ UNCHANGED <<argv, i, opts, status, exit, lines>>

\* The C API writes the status before it keeps or deletes the handle.
CreateIsDone ==
    /\ at = "creating"
    /\ CreateReturns
    /\ status' = last_error /\ at' = "created"
    /\ UNCHANGED <<argv, i, opts, exit, lines>>

\* main's three statuses with a report, and the null handle.
Failed ==
    \/ status \in {"ModelVerificationFailed", "MemoryBudgetExceeded", "QuotaExceeded"}
    \/ ~alive

\* main destroys the handle it has, reported or not, and exits.
CreateFailed ==
    /\ at = "created" /\ Failed
    /\ IF alive THEN Destroy ELSE UNCHANGED vars
    /\ Exit(1)
    /\ UNCHANGED <<argv, i, opts, status, lines>>

ModelLoaded ==
    /\ at = "created" /\ ~Failed
    /\ at' = IF opts.prompt THEN "oneshot" ELSE "line"
    /\ UNCHANGED <<vars, argv, i, opts, status, exit, lines>>
-----------------------------------------------------------------------------
\* The trailing prompt.
OneShot ==
    /\ at = "oneshot" /\ at' = "answering"
    /\ Generate
    /\ UNCHANGED <<argv, i, opts, status, exit, lines>>

\* Mutation: a failed command tells the shell nothing.
OneShotCode_Zero(e) == 0

OneShotCode(e) == IF e = "None" THEN 0 ELSE 1

OneShotIsDone ==
    /\ at = "answering" /\ opts.prompt /\ pc = "idle"
    /\ status' = last_error
    /\ Destroy /\ Exit(OneShotCode(last_error))
    /\ UNCHANGED <<argv, i, opts, lines>>

\* A line that only reports, resets the context or is empty.
Command ==
    /\ at = "line" /\ lines < MaxLines /\ lines' = lines + 1
    /\ UNCHANGED <<vars, argv, i, opts, at, status, exit>>

UnloadCommand ==
    /\ at = "line" /\ lines < MaxLines /\ lines' = lines + 1
    /\ Unload
    /\ UNCHANGED <<argv, i, opts, at, status, exit>>

Prompt ==
    /\ at = "line" /\ lines < MaxLines /\ lines' = lines + 1
    /\ Generate
    /\ at' = "answering"
    /\ UNCHANGED <<argv, i, opts, status, exit>>

\* Mutation: any failure is one that may pass.
GoesOn_Always(e) == TRUE

\* A denial is "not right now", any other failure ends the loop.
GoesOn(e) == e \in {"None", "QuotaExceeded"}

PromptIsDone ==
    /\ at = "answering" /\ ~opts.prompt /\ pc = "idle"
    /\ status' = last_error
    /\ at' = IF GoesOn(last_error) THEN "line" ELSE "leaving"
    /\ UNCHANGED <<vars, argv, i, opts, exit, lines>>

\* Mutation: only /quit ends the loop.
Quit_IgnoresEof ==
    /\ at = "line" /\ lines < MaxLines /\ at' = "leaving"
    /\ UNCHANGED <<vars, argv, i, opts, status, exit, lines>>

\* /quit or the end of the input.
Quit ==
    /\ at = "line" /\ at' = "leaving"
    /\ UNCHANGED <<vars, argv, i, opts, status, exit, lines>>

\* Mutation: main leaves the handle to the end of the process.
Leave_Leaks == at = "leaving" /\ Exit(0) /\ UNCHANGED <<vars, argv, i, opts, status, lines>>

Leave ==
    /\ at = "leaving"
    /\ Destroy /\ Exit(0)
    /\ UNCHANGED <<argv, i, opts, status, lines>>
-----------------------------------------------------------------------------
\* The steps of the runtime inside a call of the C API.
InRuntime ==
    /\ Validate \/ CheckQuota \/ Resolve \/ Verify \/ LoadEngine \/ Infer \/ Record
    /\ UNCHANGED cli

\* The rest of the machine matters from the first look at a file to the last.
World ==
    /\ at \notin {"args", "exited"}
    /\ ChangeModel \/ OtherProcess \/ NewPeriod
    /\ UNCHANGED cli

Main ==
    \/ ReadOption \/ ReadFlag \/ EndOfArgs \/ Select
    \/ CallCreate \/ CreateIsDone \/ CreateFailed \/ ModelLoaded
    \/ OneShot \/ OneShotIsDone
    \/ Command \/ UnloadCommand \/ Prompt \/ PromptIsDone \/ Quit \/ Leave
    \/ InRuntime

CliNext == Main \/ World

\* The process is scheduled, and the input ends.
CliSpec == CliInit /\ [][CliNext]_cliVars /\ WF_cliVars(Main)
-----------------------------------------------------------------------------
Locations == {"args", "select", "create", "creating", "created", "oneshot", "line", "answering",
              "leaving", "exited"}

CliTypeOK ==
    /\ TypeOK
    /\ argv \in Argvs /\ i \in 1..(Len(argv) + 1)
    /\ opts \in [path : Models \cup {Nothing}, id : Models \cup {Nothing}, prompt : BOOLEAN,
                 list : BOOLEAN, context : Signed(MaxNarrow), limit : Signed(MaxWide)]
    /\ at \in Locations /\ status \in Errors
    /\ exit \in {Nothing, 0, 1, 2} /\ lines \in 0..MaxLines
-----------------------------------------------------------------------------
(***************************************************************************)
(* What a command line means, without reading it from left to right.       *)
(***************************************************************************)
IsValue[k \in 1..Len(argv)] == k > 1 /\ ~IsValue[k - 1] /\ argv[k - 1].is \in ValueOptions

Given(flag) == {k \in 1..Len(argv) : ~IsValue[k] /\ argv[k].is = flag}

\* The value that counts is the last one.
LastValue(flag) == argv[1 + CHOOSE k \in Given(flag) : \A j \in Given(flag) : j <= k]

\* Where the program stops reading: a call for help, or what it cannot read.
Stops ==
    Given("--help") \cup Given("unknown") \cup
    {k \in UNION {Given(flag) : flag \in ValueOptions} :
       k = Len(argv) \/ ~Readable(argv[k].is, argv[k + 1])}

Named(flag) == IF Given(flag) = {} THEN Nothing ELSE LastValue(flag).names

(***************************************************************************)
(* The program runs what the command line means: it stops at the first     *)
(* argument it cannot read and nowhere else, every option takes the        *)
(* argument after it, the last of several values counts, the models listed *)
(* are not loaded, and a load is of the one model that was named or, if    *)
(* none was, that the registry holds as its only one (main.cpp:200-374).   *)
(***************************************************************************)
RunsWhatIsMeant ==
    /\ at = "exited" /\ call = "none" =>
         \/ \E k \in Stops : /\ \A j \in Stops : k <= j
                            /\ exit = IF argv[k].is = "--help" THEN 0 ELSE 2
         \/ Stops = {} /\ Given("--list-models") # {} /\ exit = 0
         \/ /\ Stops = {} /\ Given("--list-models") = {} /\ exit = 2
            /\ Named("--model") = Nothing <=> Named("--model-id") = Nothing
    /\ at \in {"creating", "created"} =>
         /\ Stops = {} /\ Given("--list-models") = {}
         /\ opts.prompt <=> Given("text") # {}
         /\ \/ passed.names = {"path"} /\ Named("--model-id") = Nothing
               /\ passed.model = Named("--model")
            \/ passed.names = {"id"} /\ Named("--model") = Nothing
               /\ passed.model = Named("--model-id")
            \/ /\ passed.names = {"id"} /\ Named("--model") = Nothing /\ Named("--model-id") = Nothing
               /\ before.registry = {passed.model}

(***************************************************************************)
(* "Invalid configuration is rejected with a clear error, never silently   *)
(* coerced" (docs/security.md:10, of CLI arguments): whatever is typed, a  *)
(* model that is ready has that very number, in exact arithmetic, and none *)
(* is ready otherwise.  The code does not keep this: the C API replaces    *)
(* numbers that are not positive before they are validated, the product    *)
(* wraps, and the cast to int32_t drops bits (run cli_numbers).            *)
(***************************************************************************)
NumbersAreNeverCoerced ==
    ready =>
        /\ Given("--time-limit-minutes") # {} =>
             config.limit = LastValue("--time-limit-minutes").number * Unit
        /\ Given("--context") # {} => config.context = LastValue("--context").number

(***************************************************************************)
(* What the code does keep of it: a ready model has the number that was    *)
(* typed exactly if validate_config admits that number, the product in     *)
(* exact arithmetic.  A valid number is neither wrapped, truncated nor     *)
(* replaced on its way, and no other is ever served as it was typed; it is *)
(* rejected, or another takes its place (main.cpp:79-95, 220-283,          *)
(* edge_mind_api.cpp:35-66, config.cpp:20-70).                             *)
(***************************************************************************)
ValidNumbersAreKept ==
    ready =>
        /\ Given("--time-limit-minutes") # {} =>
             LET seconds == LastValue("--time-limit-minutes").number * Unit IN
             config.limit = seconds <=> seconds \in 0..MaxLimit
        /\ Given("--context") # {} =>
             LET n == LastValue("--context").number IN
             config.context = n <=> n \in MinContext..MaxContext

(***************************************************************************)
(* Whatever fails and wherever, the process exits without a runtime, and   *)
(* it makes at most one (main.cpp:379-431, 497).                           *)
(***************************************************************************)
HandleIsFreed ==
    /\ at \in {"args", "select", "create", "exited"} => ~alive
    /\ at \in {"oneshot", "line", "answering", "leaving"} => alive

(***************************************************************************)
(* The loop does not go on with an invalid runtime: while it takes lines   *)
(* the model is loaded, unless the user unloaded it, and the last call     *)
(* ended well or with a denial (main.cpp:478-494).                         *)
(***************************************************************************)
NeverOnInvalid ==
    at \in {"line", "oneshot"} =>
        last_error \in {"None", "QuotaExceeded"} /\ (call # "unload" => IsReady)

(***************************************************************************)
(* The exit code tells a script what happened: 2 only if no runtime was    *)
(* made; after a create with a trailing prompt 0 exactly if the prompt was *)
(* answered; 1 only if the last call failed.  A session is outside of it:  *)
(* once its model is loaded it exits 0, also if the engine failed and      *)
(* ended the loop (README.md:232, main.cpp:398-431, 481-498).              *)
(***************************************************************************)
ExitCodeIsHonest ==
    at = "exited" =>
        /\ exit = 2 => call = "none"
        /\ call # "none" /\ opts.prompt => (exit = 0 <=> status = "None")
        /\ exit = 1 => status # "None"

(***************************************************************************)
(* A process whose input ends exits, whatever the files and the engine do  *)
(* (main.cpp:413-498).                                                     *)
(***************************************************************************)
ProcessEnds == <>(at = "exited")
=============================================================================
