---------------------------- MODULE ModelRegistry ----------------------------
(***************************************************************************)
(* From a request to an opened model file: resolve_model_path,             *)
(* ModelVerifier::verify, ModelRegistry::import_model, the auto-selection  *)
(* of select_model_for_cli, and the engine's own open of the path, by      *)
(* processes that share one registry file.  There is no lock: the registry *)
(* is read in one step and written in another, and the model file is       *)
(* opened three times (validated, hashed, loaded), so files may change and *)
(* other processes may write between any two of these steps.               *)
(*                                                                         *)
(* A content stands for a file's bytes and for their SHA-256 alike, which  *)
(* takes the hash to be injective.  A registry file is a sequence of       *)
(* blocks, each an entry or Malformed.                                     *)
(***************************************************************************)
EXTENDS Integers, SequencesExt

CONSTANTS
    Procs,     \* processes that share the registry
    Paths,     \* where model files may be
    Contents,  \* what may be in them
    Invalid,   \* the contents GgufReader::validate rejects
    Nothing,   \* no file, no path, no id, no checksum: the empty string
    Absent,    \* no registry file
    Malformed, \* a block that does not parse as an entry
    Asked,     \* bound: the requests that callers make
    Faults     \* which faults of the environment happen

AllFaults == {"save_fails", "damage", "midway", "crash"}

\* The rejections before an identity is computed end the load and need no name.
Statuses == {"NotYetVerified", "ChecksumMismatch", "Verified"}

RegistryEntries ==
    [model_id : Contents, local_path : Paths, architecture : Contents,
     verification_status : {"ChecksumMismatch", "Verified"},
     expected_checksum : Contents \cup {Nothing}]

Requests == [model_path : Paths \cup {Nothing}, model_id : Contents \cup {Nothing},
             checksum : Contents \cup {Nothing}]

ASSUME RegistryAssumption ==
    /\ Invalid \subseteq Contents
    /\ Nothing \notin Contents \cup Paths
    /\ Asked \subseteq Requests
    /\ Faults \subseteq AllFaults
    /\ Malformed \notin RegistryEntries

NoRequest == [model_path |-> Nothing, model_id |-> Nothing, checksum |-> Nothing]

\* The local variables of Runtime::load, verify and import_model.
Loads == [request  : Requests,
          path     : Paths \cup {Nothing},     \* resolution.resolved_path
          metadata : Contents \cup {Nothing},  \* what GgufReader::validate read
          identity : Contents \cup {Nothing},  \* what compute_model_identity returned
          status   : Statuses,                 \* result.status
          entries  : Seq(RegistryEntries)]     \* import_model's copy of the registry

NoLoad == [request |-> NoRequest, path |-> Nothing, metadata |-> Nothing,
           identity |-> Nothing, status |-> "NotYetVerified", entries |-> <<>>]

VARIABLES
    files,     \* files[path]: the content there, or Nothing
    registry,  \* the registry file: Absent or a sequence of blocks
    pc,        \* where each process is inside Runtime::load
    job,       \* job[p]: what the load of p has found out so far
    held       \* history: the pairs <<path, content>> there ever were

vars == <<files, registry, pc, job, held>>

Init ==
    /\ files \in [Paths -> Contents \cup {Nothing}]
    /\ registry = Absent
    /\ pc = [p \in Procs |-> "idle"]
    /\ job = [p \in Procs |-> NoLoad]
    /\ held = {<<q, files[q]>> : q \in {r \in Paths : files[r] # Nothing}}
-----------------------------------------------------------------------------
(***************************************************************************)
(* ModelRegistry::load of a file: any malformed block makes the result     *)
(* Corrupted, with the entries parsed before it left in the output.        *)
(***************************************************************************)
Parsed(file) ==
    IF file = Absent THEN [result |-> "NotFound", entries |-> <<>>]
    ELSE IF \A i \in DOMAIN file : file[i] # Malformed
         THEN [result |-> "Ok", entries |-> file]
         ELSE LET bad == CHOOSE i \in DOMAIN file :
                            /\ file[i] = Malformed
                            /\ \A j \in 1..(i - 1) : file[j] # Malformed
              IN  [result |-> "Corrupted", entries |-> SubSeq(file, 1, bad - 1)]

Registered(list, id) == \E i \in DOMAIN list : list[i].model_id = id

First(list, id) == CHOOSE i \in DOMAIN list :
    list[i].model_id = id /\ \A j \in 1..(i - 1) : list[j].model_id # id

\* Mutations: a new entry per import; the entry moved to the end of a cut list.
Upsert_Appends(list, entry) == Append(list, entry)

Upsert_Truncates(list, entry) ==
    IF Registered(list, entry.model_id)
    THEN Append(SubSeq(list, 1, First(list, entry.model_id) - 1), entry)
    ELSE Append(list, entry)

\* import_model's update in place: the whole entry is replaced, none is added.
Upsert(list, entry) ==
    IF Registered(list, entry.model_id)
    THEN [list EXCEPT ![First(list, entry.model_id)] = entry]
    ELSE Append(list, entry)

Goto(p, label) == pc' = [pc EXCEPT ![p] = label]

Return(p) == Goto(p, "idle") /\ job' = [job EXCEPT ![p] = NoLoad]

\* Runtime::load begins.
Begin(p, r) ==
    /\ pc[p] = "idle"
    /\ job' = [job EXCEPT ![p].request = r]
    /\ Goto(p, "resolve")
    /\ UNCHANGED <<files, registry, held>>

Request(p) == \E r \in Asked : Begin(p, r)

\* select_model_for_cli: the only entry there is is taken, whatever its status.
AutoSelect(p) ==
    /\ Parsed(registry).result = "Ok" /\ Len(Parsed(registry).entries) = 1
    /\ Begin(p, [NoRequest EXCEPT !.model_id = Parsed(registry).entries[1].model_id])

(***************************************************************************)
(* resolve_model_path: exactly one of path and id; an id is looked up in   *)
(* the registry, and nothing compares the file there with the id.          *)
(***************************************************************************)
Resolution(r) ==
    LET known == Parsed(registry) IN
    IF (r.model_path = Nothing) = (r.model_id = Nothing) THEN Nothing
    ELSE IF r.model_path # Nothing THEN r.model_path
    ELSE IF known.result # "Corrupted" /\ Registered(known.entries, r.model_id)
         THEN known.entries[First(known.entries, r.model_id)].local_path
         ELSE Nothing

\* resolved_config: the steps that follow read only its path and its checksum.
ReadLater(r) == [NoRequest EXCEPT !.checksum = r.checksum]

Resolve(p) ==
    /\ pc[p] = "resolve"
    /\ IF Resolution(job[p].request) = Nothing
       THEN Return(p)
       ELSE /\ Goto(p, "validate")
            /\ job' = [job EXCEPT ![p].path = Resolution(job[p].request),
                                  ![p].request = ReadLater(job[p].request)]
    /\ UNCHANGED <<files, registry, held>>

\* verify: the file system checks and GgufReader::validate, on the first open.
Validate(p) ==
    /\ pc[p] = "validate"
    /\ IF files[job[p].path] \in Contents \ Invalid
       THEN /\ Goto(p, "hash")
            /\ job' = [job EXCEPT ![p].metadata = files[job[p].path]]
       ELSE Return(p)
    /\ UNCHANGED <<files, registry, held>>

\* Mutation: a configured checksum is not compared.
VerifiedAs_NoChecksum(request, content) == "Verified"

VerifiedAs(request, content) ==
    IF request.checksum \in {Nothing, content} THEN "Verified" ELSE "ChecksumMismatch"

\* verify: compute_model_identity on the second open, then the checksum.
Hash(p) ==
    /\ pc[p] = "hash"
    /\ LET content == files[job[p].path] IN
       IF content = Nothing THEN Return(p)
       ELSE /\ Goto(p, "read")
            /\ job' = [job EXCEPT ![p].identity = content,
                                  ![p].status = VerifiedAs(job[p].request, content)]
    /\ UNCHANGED <<files, registry, held>>

\* Mutation: whatever was recorded is opened.
AfterImport_IgnoresStatus(p) ==
    Goto(p, "open") /\ job' = [job EXCEPT ![p].entries = <<>>]

\* Runtime::load goes on only when the verification succeeded.
AfterImport(p) ==
    IF job[p].status = "Verified"
    THEN Goto(p, "open") /\ job' = [job EXCEPT ![p].entries = <<>>]
    ELSE Return(p)

\* import_model's load: a corrupted registry is left alone, the import not recorded.
ReadRegistry(p) ==
    /\ pc[p] = "read"
    /\ IF Parsed(registry).result = "Corrupted"
       THEN AfterImport(p)
       ELSE Goto(p, "write") /\ job' = [job EXCEPT ![p].entries = Parsed(registry).entries]
    /\ UNCHANGED <<files, registry, held>>

NewEntry(p) ==
    [model_id |-> job[p].identity, local_path |-> job[p].path,
     architecture |-> job[p].metadata, verification_status |-> job[p].status,
     expected_checksum |-> job[p].request.checksum]

\* import_model's save; one that fails is only a warning.
WriteRegistry(p) ==
    /\ pc[p] = "write"
    /\ \/ registry' = Upsert(job[p].entries, NewEntry(p))
       \/ "save_fails" \in Faults /\ UNCHANGED registry
    /\ AfterImport(p)
    /\ UNCHANGED <<files, held>>

\* InferenceEngine::load opens the path again and gives what is there to llama.cpp.
Open(p) ==
    /\ pc[p] = "open"
    /\ Return(p)
    /\ UNCHANGED <<files, registry, held>>
-----------------------------------------------------------------------------
(***************************************************************************)
(* The environment: the user moves, replaces and deletes model files, in   *)
(* the middle of a load only with the fault "midway"; processes end; the   *)
(* registry file loses its tail or a block of it is damaged.               *)
(***************************************************************************)
ChangeFile ==
    /\ "midway" \in Faults \/ \A p \in Procs : pc[p] = "idle"
    /\ \E q \in Paths : \E c \in (Contents \cup {Nothing}) \ {files[q]} :
          /\ files' = [files EXCEPT ![q] = c]
          /\ held' = IF c = Nothing THEN held ELSE held \cup {<<q, c>>}
    /\ UNCHANGED <<registry, pc, job>>

Exit(p) ==
    /\ pc[p] # "idle" /\ "crash" \in Faults
    /\ Return(p)
    /\ UNCHANGED <<files, registry, held>>

\* The last block goes or is damaged, and by further steps the ones before it: a cut
\* between blocks is a shorter registry, and what follows a damaged one is not read.
DamageRegistry ==
    /\ "damage" \in Faults /\ registry \notin {Absent, <<>>}
    /\ registry' \in {Front(registry), Append(Front(registry), Malformed)}
    /\ UNCHANGED <<files, pc, job, held>>

DeleteRegistry ==
    /\ "damage" \in Faults /\ registry # Absent
    /\ registry' = Absent
    /\ UNCHANGED <<files, pc, job, held>>

ProcStep(p) ==
    \/ Request(p) \/ AutoSelect(p) \/ Resolve(p) \/ Validate(p) \/ Hash(p)
    \/ ReadRegistry(p) \/ WriteRegistry(p) \/ Open(p) \/ Exit(p)

Next ==
    \/ \E p \in Procs : ProcStep(p)
    \/ ChangeFile \/ DamageRegistry \/ DeleteRegistry

Spec == Init /\ [][Next]_vars
-----------------------------------------------------------------------------
Entries(list) == {list[i] : i \in DOMAIN list}

TypeOK ==
    /\ files \in [Paths -> Contents \cup {Nothing}]
    /\ registry = Absent \/ registry \in Seq(RegistryEntries \cup {Malformed})
    /\ pc \in [Procs -> {"idle", "resolve", "validate", "hash", "read", "write", "open"}]
    /\ job \in [Procs -> Loads]
    /\ held \subseteq Paths \X Contents

(***************************************************************************)
(* An identity has one entry (docs/model-registry.md, "Duplicate           *)
(* behavior"), also when processes import at the same time, each writing   *)
(* back the whole list it read before the others wrote.                    *)
(***************************************************************************)
UniqueIds ==
    registry # Absent =>
        \A i, j \in DOMAIN registry :
            i # j /\ registry[i] # Malformed /\ registry[j] # Malformed
            => registry[i].model_id # registry[j].model_id

(***************************************************************************)
(* An entry states facts: its path did hold the content it is keyed by,    *)
(* and its status is what comparing that content with its own checksum     *)
(* gives, although the file may change between the opens of one import and *)
(* the entry is rewritten by later imports of the same content.  Nothing   *)
(* is said of the fields that an earlier open filled, like architecture,   *)
(* nor of entries that another process's save has overwritten.             *)
(***************************************************************************)
EntriesAreWitnessed ==
    registry # Absent =>
        \A e \in Entries(registry) \ {Malformed} :
            /\ <<e.local_path, e.model_id>> \in held
            /\ e.verification_status = "Verified"
               <=> e.expected_checksum \in {Nothing, e.model_id}

Ids(list) == [i \in DOMAIN list |-> list[i].model_id]

(***************************************************************************)
(* No import loses or moves an entry of a registry that can be read,       *)
(* through updates in place, failed saves, crashes, and damage between the *)
(* read and the write; only where there are several processes one may, and *)
(* only by saving a copy that lacks what another has saved since it was    *)
(* read (model_registry.cpp:262-331).                                      *)
(***************************************************************************)
ForgottenOnlyByStaleCopies ==
    [][ pc' # pc /\ Parsed(registry).result = "Ok" =>
            \/ IsPrefix(Ids(registry), Ids(registry'))
            \/ \E p \in Procs : /\ pc[p] = "write" /\ pc'[p] # "write"
                                /\ ~IsPrefix(Ids(registry), Ids(job[p].entries))
                                /\ Procs # {p} ]_vars

(***************************************************************************)
(* llama.cpp is given only what this very load validated and, if a         *)
(* checksum was configured, what has it, whatever other processes and      *)
(* users do, if the third open finds the content that the two opens of the *)
(* verification have read (runtime.cpp:111-137).                           *)
(***************************************************************************)
OpenedWasVerified ==
    \A p \in Procs : pc[p] = "open" =>
        LET content == files[job[p].path] IN
        job[p].metadata = content /\ job[p].identity = content =>
            /\ content \notin Invalid
            /\ job[p].request.checksum \in {Nothing, content}
=============================================================================
