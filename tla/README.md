# A TLA+ model of SYJ EdgeMind

SYJ EdgeMind runs a quantised language model on the user's machine: a C++ runtime behind a C API, with a
command-line program and a local dashboard over it, and llama.cpp underneath. This directory holds TLA+ modules
translated from `src/src/`, the configurations that model-check them with TLC, and proofs that TLAPS checks. Paths
below are relative to `src/src/` unless they begin with `docs/`.

## 1. Inventory

| Component | State | Operations | Interacts with | Hard about it |
|---|---|---|---|---|
| usage accounting (`usage/usage_accounting.*`) | none: pure | `period_has_rolled_over`, `roll_over_period`, `evaluate` | the manager | clocks set back, boundaries |
| usage manager (`usage/usage_manager.*`) | the state path | `check_admission`, `session_start`, `record_generation`, `usage_report` | state store, called by the runtime | read-modify-write without a lock, saves that fail, corrupt files |
| usage state store (`usage/usage_state_store.*`) | the state file and `<path>.tmp` | `load`, `validate_state`, `save` | the file system, other processes | torn files, crashes, two writers |
| runtime (`core/runtime.*`, `core/config.*`) | `ready_`, `config_`, `last_error_`, `usage_manager_`, the diagnostics, the engine | `load`, `unload`, `generate`, `reset_context`, reports | everything below | five gates in order, each of which may fail after the earlier ones had effects |
| C API (`api/edge_mind_api.*`) | a handle per runtime | `create`, `unload`, `generate`, `reset`, `destroy`, reports | the runtime | handles kept after some failures, conversion of the configuration |
| model registry, resolver, verifier (`model/model_*`) | the registry file | `load`, `save`, `import_model`, `resolve_model_path`, `verify` | model files, other processes | files that change between check and use, lost updates |
| model selection (`core/model_selection.*`) | none | `select_model_for_cli` | the registry | what a damaged registry selects |
| GGUF reader (`model/gguf_reader.*`) | position in the file | `validate` | the verifier | declared lengths and counts, order of keys |
| memory admission (`memory/memory_estimator.*`, `memory_budget.*`) | none: pure | the estimates, `evaluate` | the engine | overflow, rounding, boundaries |
| inference engine, context manager (`inference/inference_engine.*`, `context/*`) | native model and context, `n_used`, the diagnostic | `load`, `unload`, `reset_context`, `generate` | llama.cpp | cleanup at every stage of failure, accounting of the context |
| dashboard (`dashboard/dashboard.*`) | `runtime_`, `state_`, `last_status_`, `operation_mutex_` | the HTTP handlers | C API, threads of the HTTP library | streams that outlive their handler, the mutex, loads that fail |
| CLI (`cli/main.cpp`) | the locals of `main`, a runtime | arguments, choice of the model, `create`, one-shot prompt, loop of lines | C API, the registry | arguments that are taken as values, conversions and products that leave their type, which failures end the loop, the handle at every exit |
| tokenizer (`tokenizer/tokenizer.*`) | none | `tokenize`, `token_to_piece`, `apply_chat_template` | llama.cpp | calls repeated with the size the first one asked for |
| model hash (`model/model_hash.*`) | the hasher | `compute_model_identity` | the verifier | chunks, blocks and padding at every length of the file |
| registry text (in `model/model_registry.cpp`) | none | `percent_encode`, `percent_decode`, parsing and serialising | registry | characters that mean something, texts cut anywhere |
| sampler, memory observer, metadata report | none | conversions | llama.cpp, files | nothing concurrent |
| dashboard program, scripts, platforms, manifests, tests | none | | | |

What makes them correct: usage is neither lost nor invented, denials end and corruption denies; a saved state is read
whole; registrations are true of their files and not lost; the engine admits exactly what fits, frees what it
allocates, and counts what the cache holds; a ready runtime was checked at every gate; the dashboard never has two
models in memory and tells the truth about the one it has; no file drives the reader past its end, its identity is
the hash of all of it, and what is registered is what the next load reads; the command line does what it says, and its
exit code tells what happened. The hazards are listed in `PROJECT.json`, each at its line.

How they interact: the CLI and each dashboard thread call the C API; the C API calls one `Runtime`; `Runtime::load`
calls validation, the usage manager, the resolver, the verifier and registry, and the engine, in that order;
`Runtime::generate` asks the usage manager, runs the engine, and records. Processes share the usage-state file, the
registry file and the model files, without any lock. Threads of one dashboard share one handle behind a mutex.

## 2. Modules and plan

| Module | Models | Built on |
|---|---|---|
| `UsageAccounting` | the pure usage rules | |
| `UsageManager` | admission, sessions and records by processes over one file | `UsageAccounting` |
| `DurableCell` | abstract: an atomic register | |
| `StateFile` | `save` and `load` over a POSIX file system, implements `DurableCell` | `DurableCell` |
| `ModelRegistry` | resolve, verify, import, select and open, by processes | |
| `GgufReader` | the walk over a model file, and the format as a definition | |
| `ModelHash` | the streaming around SHA-256, and the standard's definition of the padded blocks | |
| `RegistryText` | how entries become lines and lines entries | |
| `ModelImport` | one import, from the file's first byte to the registry's text | `GgufReader`, `ModelHash`, `RegistryText` |
| `MemoryAdmission` | estimates and budget in words of fixed width | |
| `Tokenizer` | the calls of llama.cpp that are repeated with a larger buffer | |
| `InferenceEngine` | the engine and context manager over llama.cpp | `MemoryAdmission`, `Tokenizer` |
| `Runtime` | the gates of a load, generation, the C API over them | the verdicts of the modules above |
| `SerialRuntime` | abstract: one runtime used serially | |
| `Dashboard` | the handlers and the mutex, implements `SerialRuntime` | |
| `Cli` | the program, a client of the C API | `Runtime` |
| `*_proofs` | theorems about the module they are named for; `Cli_proofs` also about `Runtime`, `ModelImport_proofs` also about `ModelHash` and `RegistryText` | |
| `MC*` | instances for TLC | |

The order was the order of what would hurt most: accounting, its file, the registry, the engine, the runtime that
joins them, the dashboard, the reader; then what the program does with a command line, and what an import does with the
bytes of a file. What is left:

1. the text codec of the usage-state file: what parses back is what was written;
2. `UsageManager` over `StateFile` directly, to show what two overlapping saves do to a quota.

## 3. How the modules correspond to the code

`PROJECT.json` maps each definition to its lines. A step of a model is what happens between two points at which
another process, thread or the environment can be seen: a read of a file and the write that follows are two steps,
pure computation is part of the step that stores its result.

**UsageManager.** `disk` is what `UsageStateStore::load` would return; `buf[p]` is the local `state` of the operation
that process `p` is in. `Runtime::load` is `LoadReads`, `LoadChecks` (`check_admission` with its best-effort save of a
rollover), `SessionReads`, `StartSession`, `FinishLoad`; `Runtime::generate` is `GenerateReads`, `GenerateChecks`,
`GenerateRecords` (the engine's run and the read of `record_generation`) and `RecordGeneration`. `Forget` clears the
locals. Histories: `since[t]`, what was recorded at clock `t` or later, and `leak`. The environment ticks the clock,
and, if the run names the fault, sets it back, damages or deletes the file, fails saves, kills processes.

**StateFile.** Names are bound to inodes; a save opens and truncates `<path>.tmp`, writes it block by block, renames.
A load opens the inode and reads it block by block. A crash of a writer is `GiveUp` at any point. `DurableCell` has
one variable for the file; the mapping takes the effect of a save to be its rename and that of a load its open. The
registry's `save` is the same protocol.

**ModelRegistry.** `job[p]` holds the locals of a load: the request, the path, the metadata, the identity, the status
and the copy of the registry. `Resolve`, `Validate`, `Hash`, `ReadRegistry`, `WriteRegistry`, `Open` are the points
where a file is opened, so `ChangeFile` (a user moving, replacing or deleting a file) and other processes come
between them. `AutoSelect` makes the request the CLI makes without an argument. A content stands for its hash.
What the later steps do not read of a request is dropped once the path is resolved (`ReadLater`), and so is what is
behind a damaged block of the registry, which no load gets to.

**GgufReader.** A file is a sequence of cells: a fixed-width field is one, a string its length and as many. `pos`
is the stream's position, `work` counts reads and skips. One action per kind of read. The second half of the module
defines the format without reading: `Cuts`, the ways to cut pieces off a file each at one of the ends it may have
(`StringEnds`, `EntryEnds`), the `Entries` of a file that is cut so to its declared count, and the metadata of entries.

**ModelHash, RegistryText and ModelImport.** A digest is the list of the blocks that were compressed, so two digests
are equal exactly if all blocks are; `Update` tops up the buffer, takes whole blocks and keeps the rest, `Finalize`
pads by single bytes as the code does, and `Digest` is the standard's definition by one formula. A text is a sequence
of characters, in which a key and the magic line are one each; an escaped character is a percent sign and two digits.
The code's loops over characters and lines are recursive functions over a sequence's positions (`DecodeAll`,
`ReadAll`, `LoadAll`), with one operator for what the body of the loop does (`DecodeChar`, `ReadChar`, `LoadLine`).
`TextAssumption` says what the format relies on: keys, digits and codes differ, and no mark contains the end of a line.
`ModelImport` walks a file with the actions of `GgufReader` (`Validating`), hashes a valid one chunk by chunk
(`ReadChunk`; `ReadFails` is a file that cannot be opened or read any more), compares the checksum (`Compare`), and
reads, updates and saves the registry's text (`Import`). `PowerLoss` leaves a part of a text that was flushed to the
system and not to the disk. `before` and `saved` are histories. What other processes do between these steps is in
`ModelRegistry`.

**MemoryAdmission, Tokenizer and InferenceEngine.** Numbers are words of `MaxWord + 1` values; every product is
`CheckedMul`, the total saturates. `models` and `contexts` are the native objects alive, `cache` the cells llama.cpp
uses; it may fail any call and give a context larger than asked for. `load` is one action up to the failure of the
path, then one per native call; `generate` one per decode and per sampled token. A text is a sequence of characters,
each a token of its own; the buffers' memory holds `Junk` until it is written. `asked` and `said` are histories: the
prompt's text, and what was sampled and what the callback got.

**Runtime.** One object and the C API. Each gate is the verdict it can give, and `fate` and `used`, the model files
and the counts, change between any two gates. `Load` is the C++ call on an existing object, `Create` the C API's,
which converts the configuration first and destroys the object unless `Kept`. `context` and `limit` stand for the
numeric fields, those with a range and those where 0 means none; `top_k`, whose 0 the conversion keeps
(`api/edge_mind_api.cpp:43`), is neither.

**Cli.** An argument is a record of what the program can make of it: the flag it is, the model it names and the number
it reads as; options that differ only in the field they set share one. There is one action per argument (`ReadOption`,
`ReadFlag`), one per call of the C API and one per answer. `StrTo` stops at the ends of `long`, `ParseInt` converts to
`int32_t` and `Seconds` multiplies, both wrapping as the build does. The usage is always that of the default file, as
`--usage-state-path` and the other options that name a file are left out. The actions of `Runtime` run inside a call
(`InRuntime`), and the rest of the machine moves between them (`World`). `Main` is every step of the process itself.

**Dashboard.** `pc[t]` says where a thread is: waiting for the mutex, holding it, creating (between the release of
the old runtime and the C API's answer), streaming, or reading without the mutex. `Reload` makes the call of
`load_from_request` that `reload_current` makes. `SerialRuntime` sees only the loaded model and who is being served.

## 4. Runs

All runs but four check for deadlock: a dashboard whose clients have sent their bounded number of requests stops, an
import returns, and the program exits (`cli`, `cli_numbers`). Type invariants are proved; the runs check
only that of `ModelImport`, the module composed of the most parts.

| Run | Checks | Bounds and why they are enough |
|---|---|---|
| `usage_single` | `ExactAccounting`, `QuotaOvershootBounded`, `CorruptionStopsGeneration` | one process, three messages or three tokens of at most two a generation, six generations, period 2, clock to 5: two and a half periods, both limits reached, timestamps valid to 4 so that saves are refused at last, crashes and damage at any step |
| `usage_shared` | `NeverOvercharged`, `DenialsExpire`, `LostOnlyToStaleCopies` | two processes, two messages or one token, period 1, clock to 2, counters to 2, a generation starts while fewer than two are recorded: lost updates, racing rollovers, saturated counters, a clock set back, crashes, the file deleted at any step |
| `statefile_one_writer` | `NeverTorn`, `ImplementsCell` | a writer, two readers, two blocks, three inodes: a reader can hold the old file while two more saves happen |
| `registry` | `UniqueIds`, `EntriesAreWitnessed`, `OpenedWasVerified`, `ForgottenOnlyByStaleCopies` | two processes, two paths, two contents of which one is invalid: the same model at two paths, both importing, loads by path with a checksum, by auto-selection without, and with neither or both of path and id; model files that change, crashes, failed saves and a registry that is damaged or deleted, at any step |
| `engine` | `HandlesOwned`, `ContextAccounted`, `StreamedIsRemembered`, `AdmissionIsExact`, `TextIsWhole`, `CallsReturn` | contexts of 1 to 5 cells, texts of 0 to 3 characters, with and without template, up to 3 tokens generated: empty, fitting, filling and overlong prompts, templates below, at and above a buffer of 4, pieces above one of 2; eight-bit words and models at, one below and one above every boundary |
| `runtime_gates` | `ReadyServesOneLoad`, `StoppedAtTheGate`, `InferenceIsPaid`, `StatusTellsReadiness` | two valid configurations that differ in model, limit and store, two invalid ones, one message per period |
| `dashboard` | `OneRuntime`, `LoadedIsTrue`, `ReloadIsOfTheSame`, `SerialSpec`, `EveryRequestAnswered` | three threads, two models, two handles, four requests: two that wait behind a stream, a load that fails after a load and a reload after it |
| `model_import` | `WorkIsBounded`, `AcceptsTheFormat`, `MetadataIsTheFiles`, `ImportTypeOK`, `VerdictIsTheFiles`, `SavedReadsBack`, `CutInventsNothing` | every file with a section of up to five cells of five values and 0 to 2 entries declared; two entries of thirteen kinds, cut anywhere or with a cell changed; three entries of nine kinds. Four valid files are imported, of lengths below, at and above blocks of 4 and chunks of 8, with no, the right (in either case) and a wrong checksum, paths that look like escapes, into registries saved with and without the model, missing, foreign and damaged |
| `cli` | `RunsWhatIsMeant`, `ValidNumbersAreKept`, `HandleIsFreed`, `NeverOnInvalid`, `ExitCodeIsHonest`, `ProcessEnds` | command lines of up to seven arguments: every option alone, twice, without value, with an option for a value, with numbers in, at and beyond what is valid (a context of 1 to 2, a limit of 0 to 8), an `int32_t` of at most 3, a wide type of at most 15 and its product by 2, of which some wrap to valid ones; registries of 0 to 2 models that change before any gate; two lines in the loop, two messages used |

Three runs end in a counterexample, where the code does other than a document of the repository says. They are the
findings of `PROJECT.json`, with the quoted lines:

| Run | What it shows |
|---|---|
| `session_per_process` | `load` checks the session that an earlier process left in the file before it begins its own: once a session has run out, no later process can load, ever |
| `statefile_two_writers` | two saves at once share `<path>.tmp`, so a load can see a torn file |
| `cli_numbers` | a number that should be rejected is coerced: `--context` is cut to `int32_t` (`cli/main.cpp:84`), minutes times 60 and hours times 3600 are not checked (`cli/main.cpp:266`, `283`), which is undefined in C++ and wraps in the build, and the C API takes the default for a number that is not positive (`api/edge_mind_api.cpp:35`), which turns a negative limit into none (`55`); all before `validate_config` looks. The run has the command lines of `cli`, whose `ValidNumbersAreKept` says what does hold: a valid number is kept exactly, and no other is served as it was typed |

Other places where a comment or document and the code differ, met while translating and not given a run:

- `core/runtime.cpp:69` ignores a `session_start` that failed to save, so the process generates without a session
  limit; `usage/usage_manager.h:42-44` asks callers to treat it as `StateCorrupted`.
- `core/runtime.cpp:119` imports the path registered for an id without comparing its hash with the id;
  `cli/main.cpp:26-27` says the model is loaded by its content hash.
- `model/model_registry.cpp:185` leaves the entries before the damage in the output of a corrupted load;
  `model/model_registry.h:32-34` says nothing is trusted then.
- `inference/inference_engine.cpp:77` keeps the memory diagnostic of an earlier load when a load fails before
  admission; `inference/inference_engine.h:97-99` says it is that of the most recent attempt.
- `memory/memory_estimator.cpp:59` loses up to one element per cell of the context by its division, not a few bytes
  per layer (`memory/memory_estimator.cpp:52-54`).
- `core/runtime.cpp:41`: a second load that is denied leaves the first model in memory; `core/runtime.h:60-62` says
  the runtime remains unloaded.
- `core/runtime.cpp:250` makes the usage report of a denied create with the default limits;
  `api/edge_mind_api.h:253-258` says it has the configured ones.
- `dashboard/dashboard.cpp:455`: `/api/health` reads the handle without the mutex that `docs/dashboard.md:42-49`
  says serialises it.
- `cli/main.cpp:26-28`: the help says exactly one of `--model` and `--model-id` is required; without either, the only
  registered model is loaded (`cli/main.cpp:333-374`).
- `cli/main.cpp` prints the context that was asked for, while the C API takes the default for one that is not positive
  (`api/edge_mind_api.cpp:27-80`).
- `model/model_registry.cpp:133-204` takes a registry that was cut after its magic line, or inside its last field, for
  a whole one with fewer entries or a shorter checksum; the loss is not reported as a corrupted registry.
- `model/gguf_reader.cpp:378` drops numbers captured before a malformed entry; `model/gguf_reader.h:36-39` says they
  are returned.

Symmetry is declared only where nothing tells the members of the set apart and no liveness is checked: processes with
one policy (`usage_shared`), and the processes and the
paths of `registry`.

## 5. Fairness

`CallsReturn` assumes weak fairness of the engine's own steps: the calling thread runs, llama.cpp and the callback
return. Nothing is assumed about the model ever ending its answer. `EveryRequestAnswered` assumes weak fairness of
each thread that is handling a request, which the operating system gives, and that clients send finitely many
requests, a bound of the run: a mutex is not fair, so with endless requests a thread may starve, and the code does not
promise otherwise. `ProcessEnds` assumes weak fairness of `Main`: the process is scheduled, its files and the engine
answer, and its input ends, a bound of the run. The other processes and the user need not do anything. No other
property assumes fairness.

## 6. Proofs

The proofs hold for every value of the constants that the named assumptions of the modules allow.

- **`UsageManager_proofs`.** `TypeCorrect`; `NobodyIsOvercharged` from `AllCovered`: not only the file but every copy
  of it in a process is covered by the history, or a stale copy saved later would break it; `DenialsAreTemporary`;
  `CorruptionFailsClosed` from `LeakStops`, which counts the generations admitted before the damage; and
  `QuotaIsEnforced`, for one process and a clock that is not set back (both assumptions of the theorem), from
  `QuotaInv`: while a generation runs there is room for its message and one token. It speaks of what was recorded;
  a generation whose record could not be saved is not on the disk. `OnlyStaleCopiesLose` holds for any number of
  processes and all faults: a save lowers a counter only where it begins a period that is due or is of a stale copy
  (`ForgivenBySave`). With one process, whose copy is still the file's as long as no clock is set back (`CopyInv`),
  and whose saves are not lost either, `ExactInv` (each copy is exact for its period,
  and is saved as such) gives `AccountingIsExact`.
- **`StateFile_proofs`.** For one writer: `Isolated` says that the published inode is whole and is never the one
  being written, and that a reader's blocks are of one save. It gives `LoadsAreWhole` and `StoreIsARegister`, the
  refinement of `DurableCell`. The run with two writers shows why the assumption is needed.
- **`Dashboard_proofs`.** Mutual exclusion (`OwnerInv`) and what holds inside the critical section give
  `NeverTwoRuntimes`, `LoadedIsTold` and `ReloadRepeats`, and with them the refinement `DashboardIsSerial`, for any
  number of threads.
- **`GgufReader_proofs`.** Each step that has not failed has advanced (`Advances`); so `TheFileBoundsTheWork`: for
  every file the reader stays inside it and reads at most one cell past what it has advanced by, whatever counts it declares.
  For `TheFormatIsAccepted` and `MetadataIsRead` the recursive `Cuts` is first shown to be a set of chains of places
  (`CutsAre`); since a string, an array and an entry have at most one end (`EntriesAreSingle`), two chains from a place
  agree and a chain that cannot be prolonged ends all longer ones (`Stuck`). The invariant `Parsed` then says that the
  reader is at the end of the chain of the entries it has read, or inside the entry that begins there, in an array at
  the end of a chain of its strings, and that `candidates`, `quant` and `metadata` are what these entries tell
  (`Captured`): a field that is rejected leaves no chain to the declared count, and a finished entry prolongs it.
- **`ModelImport_proofs`.** `ImportReads` shows that an import is a reading of its file, so the theorems about
  `GgufReader` hold of it. `Streams` relates a hasher to the message it has taken: `UpdateStreams` is the lemma about
  `Update` for pieces of any length, `FinalizeIsDigest` that about the padding, byte by byte, against the formula of
  the standard. `Hashing`, `Staged` and `Judged` carry both to the verdict: `ImportTypeCorrect` and
  `VerdictsAreTheFiles`, which assume of checksums (`ChecksumAssumption`) that their characters are those of the
  file's digest or others.
  `RegistriesReadBack` and `CutsInventNothing` are about texts over any set of characters that has the format's marks,
  registries with any number of entries, and every place where a text is cut. A loop's value after one character more
  is one step from its value before (`Folded`), so a set of texts that has the empty one and grows by one character
  has all (`AppendInduction`). `DecodesTheEncoded` says that a field comes back whatever characters it has,
  `DecodesABeginning` that what is decoded of a part cut off is a beginning of the whole. A load
  that has read whole lines up to here (`Reached`) takes the next one or the part of it that is left (`NextLine`), so
  an entry line by line (`EntryIsRead`) and a registry entry by entry (`SavedIsLoaded`); what a load returns, of
  whatever text, can be saved again (`LoadedIsTyped`). `RegistryInv` says at each stage of an import what the file is
  to the entries that were saved: their text, or a part of it after a power loss. `RegistryAssumption` is that paths
  and files are texts.
- **`InferenceEngine_proofs`.** `GuardIsExact` is arithmetic in words of any width: the checked products and the
  saturated total decide as exact arithmetic does, for a budget below the largest word (a number of whole MiB is).
  The lemmas on the way say what `CheckedMul` and `SaturatingAdd` return, and that the buffers of `Tokenizer` lose
  nothing for texts of any length. `IInv` adds to the properties `Stages`, what exists at each stage of a load, and
  `Guarded`, that whatever comes after admission was judged with the numbers it has. It gives `NothingLeaks`,
  `ContextIsAccounted`, `AnswerIsRemembered`, `NoTextIsCut` and `GuardHolds`.
- **`ModelRegistry_proofs`.** The registry and every process's copy of it have unique ids and true entries, or a stale
  copy written later would break it; what a process knows of a path was true of it (`Knows`). It gives `IdsAreUnique`,
  `EntriesAreTrue` and `OpenedIsVerified`. For `NothingIsForgotten` an update extends the list it is given
  (`UpsertExtends`), so only a copy that is not as long as the registry any more forgets; a lone process has no such
  copy (`Kept`). All hold for any number of processes and all faults.
- **`Cli_proofs`.** First about `Runtime`: `IInv` relates the members at each gate of a load, what has moved already
  and what has not; from it `ReadyIsConsistent`, `GatesHold`, `EveryInferenceIsPaid` and `StatusIsHonest`.
  `CliIsAClient` shows that each step of the program is a step of `Runtime` or leaves it alone, so all of these hold of
  it. `Phase` relates `main`'s place to the handle, the runtime's step and the last
  status, `Exited` says what led to each exit code; they give
  `NothingIsLeaked`, `LoopIsValid` and `CodeIsHonest` for every command line and every width of the types.
  `MeaningInv` relates `opts` to the last of each option before `i`, and says that no argument before `i` stops the
  program; it gives `CommandLineIsObeyed`. `Handed` follows the numbers into the configuration; with the arithmetic
  of conversions (`WrapIsExact`, `NumbersAreExact`), exact for what fits its type, and with valid numbers fitting
  theirs (`CliAssumption`, as the ceilings of `core/config.h:64-85` do) it gives `NumbersAreKept`.

Where a recursive function is reasoned about (`Cuts`, `ZeroFill`, the positions of the program's options, the
registry's loops), the induction is over the set of the numbers up to which a fact holds: `SetInduction` says that such
a set is `Nat`, and follows from the well-foundedness of inclusion among finite sets. The library's induction theorems
take the fact as an operator, which the provers cannot instantiate.

Every invariant and every safety property of a step that a passing run checks has a theorem. Only model-checked are the
three liveness properties: `ENABLED` and fairness are beyond the prover.

## 7. Not modelled

- SHA-256's compression of a block, the sampler, the memory observer, and llama.cpp beyond the choices it may make.
- The text of the usage-state file and of every report; JSON, HTTP, bearer tokens and static pages. In the registry's
  text, the leading spaces and signs that `strtoll` accepts in a number no save writes.
- Power loss of the usage file: a save is not synced, so the file system's order of writes matters then; crashes of
  its users are crashes of processes. Power loss after a save of the registry is in `ModelImport`.
- The conversion of a budget from MiB to bytes: the constant is the number of bytes.
- The Windows branch of the rename (`MoveFileExA` with replacement), whose atomicity depends on the file system.
- A file that exists and cannot be opened, which the state store takes for a missing one (`usage_state_store.cpp:48`).
- The engine's memory diagnostic, a text that nothing in the program decides by.
- `DashboardServer::stop`, which no program calls while `run` is running.
- What the program prints, its reports included; the dashboard's own arguments, scripts and platform notes.
