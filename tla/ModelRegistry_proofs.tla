------------------------- MODULE ModelRegistry_proofs -------------------------
(***************************************************************************)
(* Proofs about ModelRegistry, for every number of processes and every     *)
(* fault: the registry is typed, has an entry per identity, its entries    *)
(* state facts and only a stale copy forgets one; and what a load opens    *)
(* was verified, if it is still what the verification has read.            *)
(***************************************************************************)
EXTENDS ModelRegistry, TLAPS

At(p, stages) == pc[p] \in stages

\* No two entries of a list that parses have the same identity.
Unique(list) ==
    \A i, j \in DOMAIN list :
        i # j /\ list[i] # Malformed /\ list[j] # Malformed => list[i].model_id # list[j].model_id

\* What an entry says was true of its path at some time.
Witnessed(e) ==
    /\ <<e.local_path, e.model_id>> \in held
    /\ e.verification_status = "Verified" <=> e.expected_checksum \in {Nothing, e.model_id}

AllWitnessed(list) == \A i \in DOMAIN list : list[i] = Malformed \/ Witnessed(list[i])

\* Every file there is has been seen, and what a load knows was found in one.
Seen == \A q \in Paths : files[q] # Nothing => <<q, files[q]>> \in held

Knows(p) ==
    /\ At(p, {"validate", "hash", "read", "write", "open"}) => job[p].path \in Paths
    /\ At(p, {"hash", "read", "write", "open"}) => job[p].metadata \in Contents \ Invalid
    /\ At(p, {"read", "write", "open"}) =>
         /\ job[p].identity \in Contents
         /\ <<job[p].path, job[p].identity>> \in held
         /\ job[p].status = VerifiedAs(job[p].request, job[p].identity)
    /\ At(p, {"open"}) => job[p].status = "Verified"

ListsAreSound ==
    /\ registry # Absent => Unique(registry) /\ AllWitnessed(registry)
    /\ \A p \in Procs : Unique(job[p].entries) /\ AllWitnessed(job[p].entries)

IInv ==
    /\ TypeOK /\ Seen /\ ListsAreSound
    /\ \A p \in Procs : Knows(p)
-----------------------------------------------------------------------------
LEMMA EmptyIsSound == Unique(<<>>) /\ AllWitnessed(<<>>)
BY DEF Unique, AllWitnessed

\* A list in which ids are unique has a first entry with each of them.
LEMMA FirstIsThere ==
    ASSUME NEW list \in Seq(RegistryEntries), Unique(list), NEW id, Registered(list, id)
    PROVE  First(list, id) \in DOMAIN list /\ list[First(list, id)].model_id = id
<1>1. PICK i \in DOMAIN list : list[i].model_id = id
    BY DEF Registered
<1>2. \A j \in 1..(i - 1) : list[j].model_id # id
  <2>1. \A j \in DOMAIN list : list[j] # Malformed
      BY RegistryAssumption
  <2> QED BY <1>1, <2>1 DEF Unique
<1>3. \E n \in DOMAIN list : list[n].model_id = id /\ \A j \in 1..(n - 1) : list[j].model_id # id
    BY <1>1, <1>2
<1> QED BY <1>3 DEF First

\* What the registry parses to when it is not corrupted.
LEMMA ParsedIsSound ==
    ASSUME TypeOK, ListsAreSound, Parsed(registry).result # "Corrupted"
    PROVE  LET list == Parsed(registry).entries IN
           list \in Seq(RegistryEntries) /\ Unique(list) /\ AllWitnessed(list)
<1>1. CASE registry = Absent
    BY <1>1, EmptyIsSound DEF Parsed
<1>2. CASE registry # Absent
  <2>1. \A i \in DOMAIN registry : registry[i] # Malformed
      BY <1>2 DEF Parsed
  <2>2. Parsed(registry).entries = registry
      BY <1>2, <2>1 DEF Parsed
  <2>3. registry \in Seq(RegistryEntries)
      BY <1>2, <2>1 DEF TypeOK
  <2> QED BY <1>2, <2>1, <2>2, <2>3 DEF ListsAreSound
<1> QED BY <1>1, <1>2

\* Replacing the entry with the same identity, or adding one, keeps the list sound.
LEMMA UpsertKeeps ==
    ASSUME NEW list \in Seq(RegistryEntries), Unique(list), AllWitnessed(list),
           NEW entry \in RegistryEntries, Witnessed(entry)
    PROVE  /\ Upsert(list, entry) \in Seq(RegistryEntries)
           /\ Unique(Upsert(list, entry)) /\ AllWitnessed(Upsert(list, entry))
<1> DEFINE id == entry.model_id
<1>1. CASE Registered(list, id)
  <2> DEFINE n == First(list, id)
  <2>1. n \in DOMAIN list /\ list[n].model_id = id
      BY <1>1, FirstIsThere
  <2>2. Upsert(list, entry) = [list EXCEPT ![n] = entry]
      BY <1>1 DEF Upsert
  <2> HIDE DEF n
  <2>3. [list EXCEPT ![n] = entry] \in Seq(RegistryEntries)
      BY <2>1
  <2>4. \A i \in DOMAIN list : list[i] # Malformed
      BY RegistryAssumption
  <2>5. Unique([list EXCEPT ![n] = entry])
      BY <2>1, <2>4 DEF Unique
  <2>6. AllWitnessed([list EXCEPT ![n] = entry])
      BY <2>1 DEF AllWitnessed
  <2> QED BY <2>2, <2>3, <2>5, <2>6
<1>2. CASE ~Registered(list, id)
  <2>1. Upsert(list, entry) = Append(list, entry)
      BY <1>2 DEF Upsert
  <2>2. Append(list, entry) \in Seq(RegistryEntries)
      OBVIOUS
  <2>3. Unique(Append(list, entry))
      BY <1>2 DEF Unique, Registered
  <2>4. AllWitnessed(Append(list, entry))
      BY DEF AllWitnessed
  <2> QED BY <2>1, <2>2, <2>3, <2>4
<1> QED BY <1>1, <1>2

\* What was witnessed stays so when more files have been seen.
LEMMA WitnessedStays ==
    ASSUME held \subseteq held', NEW list, AllWitnessed(list)
    PROVE  (\A i \in DOMAIN list : list[i] = Malformed \/ Witnessed(list[i])')
BY DEF AllWitnessed, Witnessed
-----------------------------------------------------------------------------
LEMMA Initially == Init => IInv
<1> SUFFICES ASSUME Init PROVE IInv
    OBVIOUS
<1>1. TypeOK
    BY RegistryAssumption DEF Init, TypeOK, NoLoad, NoRequest, Loads, Requests, Statuses
<1>2. ListsAreSound
    BY EmptyIsSound DEF Init, ListsAreSound, NoLoad
<1>3. Seen /\ \A p \in Procs : Knows(p)
    BY DEF Init, Seen, Knows, At
<1> QED BY <1>1, <1>2, <1>3 DEF IInv

\* A registry that may be written.
Sound(list) ==
    \/ list = Absent
    \/ list \in Seq(RegistryEntries \cup {Malformed}) /\ Unique(list) /\ AllWitnessed(list)

\* A step of one process, which leaves the files and the others alone.
LEMMA StepKeeps ==
    ASSUME IInv, NEW p \in Procs, UNCHANGED <<files, held>>, UNCHANGED registry \/ Sound(registry'),
           NEW stage \in {"idle", "resolve", "validate", "hash", "read", "write", "open"},
           NEW next \in Loads, pc' = [pc EXCEPT ![p] = stage], job' = [job EXCEPT ![p] = next],
           Unique(next.entries), AllWitnessed(next.entries),
           Knows(p)'
    PROVE  IInv'
<1>1. TypeOK'
    BY DEF IInv, TypeOK, Sound
<1>2. Seen'
    BY DEF IInv, Seen
<1>3. \A q \in Procs \ {p} : Knows(q)'
    BY DEF IInv, Knows, At, TypeOK
<1>4. ListsAreSound'
  <2>1. \A q \in Procs : job'[q].entries = IF q = p THEN next.entries ELSE job[q].entries
      BY DEF IInv, TypeOK
  <2>2. \A q \in Procs : Unique(job'[q].entries) /\ AllWitnessed(job'[q].entries)
      BY <2>1 DEF IInv, ListsAreSound
  <2>3. registry' # Absent => Unique(registry') /\ AllWitnessed(registry')
      BY DEF IInv, ListsAreSound, Sound
  <2> QED BY <2>2, <2>3 DEF ListsAreSound, AllWitnessed, Witnessed
<1> QED BY <1>1, <1>2, <1>3, <1>4 DEF IInv

LEMMA NoLoadIsSound ==
    /\ NoLoad \in Loads /\ Unique(NoLoad.entries) /\ AllWitnessed(NoLoad.entries)
    /\ NoLoad.entries = <<>>
BY EmptyIsSound DEF NoLoad, Loads, NoRequest, Requests, Statuses

LEMMA ReturnKeeps ==
    ASSUME IInv, NEW p \in Procs, UNCHANGED <<files, held>>, UNCHANGED registry \/ Sound(registry'),
           Return(p)
    PROVE  IInv'
<1>1. pc' = [pc EXCEPT ![p] = "idle"] /\ job' = [job EXCEPT ![p] = NoLoad]
    BY DEF Return, Goto
<1>2. Knows(p)'
    BY <1>1 DEF Knows, At, IInv, TypeOK
<1> QED BY <1>1, <1>2, NoLoadIsSound, StepKeeps

\* What is known of a load between two steps.
LEMMA JobIsTyped ==
    ASSUME IInv, NEW p \in Procs
    PROVE  /\ job[p] \in Loads /\ pc[p] \in {"idle", "resolve", "validate", "hash", "read", "write", "open"}
           /\ Unique(job[p].entries) /\ AllWitnessed(job[p].entries) /\ Knows(p)
BY DEF IInv, TypeOK, ListsAreSound

LEMMA BeginKeeps ==
    ASSUME IInv, NEW p \in Procs, NEW r \in Requests, Begin(p, r)
    PROVE  IInv'
<1> DEFINE next == [job[p] EXCEPT !.request = r]
<1>1. pc' = [pc EXCEPT ![p] = "resolve"] /\ job' = [job EXCEPT ![p] = next]
    BY DEF Begin, Goto
<1>2. next \in Loads /\ next.entries = job[p].entries
    BY JobIsTyped DEF Loads
<1>3. Knows(p)'
    BY <1>1 DEF Knows, At, IInv, TypeOK
<1>4. UNCHANGED <<files, registry, held>>
    BY DEF Begin
<1> HIDE DEF next
<1> QED BY <1>1, <1>2, <1>3, <1>4, JobIsTyped, StepKeeps

LEMMA RequestsKeep ==
    ASSUME IInv, NEW p \in Procs, Request(p) \/ AutoSelect(p)
    PROVE  IInv'
<1>1. CASE Request(p)
    BY <1>1, BeginKeeps, RegistryAssumption DEF Request
<1>2. CASE AutoSelect(p)
  <2> DEFINE list == Parsed(registry).entries
             r == [NoRequest EXCEPT !.model_id = list[1].model_id]
  <2>1. list \in Seq(RegistryEntries) /\ Len(list) = 1 /\ Begin(p, r)
      BY <1>2, ParsedIsSound DEF AutoSelect, IInv
  <2>2. list[1] \in RegistryEntries
      BY <2>1
  <2>3. r \in Requests
      BY <2>2 DEF RegistryEntries, Requests, NoRequest
  <2> QED BY <2>1, <2>3, BeginKeeps
<1> QED BY <1>1, <1>2

LEMMA ResolutionIsAPath ==
    ASSUME IInv, NEW r \in Requests
    PROVE  Resolution(r) \in Paths \cup {Nothing}
<1> DEFINE known == Parsed(registry)
<1>1. CASE known.result # "Corrupted" /\ Registered(known.entries, r.model_id)
  <2> DEFINE list == known.entries
             n == First(list, r.model_id)
  <2>1. list \in Seq(RegistryEntries) /\ Unique(list)
      BY <1>1, ParsedIsSound DEF IInv
  <2>2. n \in DOMAIN list
      BY <1>1, <2>1, FirstIsThere
  <2> HIDE DEF n, list
  <2>3. list[n] \in RegistryEntries
      BY <2>1, <2>2
  <2>4. list[n].local_path \in Paths
      BY <2>3 DEF RegistryEntries
  <2> QED BY <1>1, <2>4 DEF Resolution, Requests, list, n
<1>2. CASE ~(known.result # "Corrupted" /\ Registered(known.entries, r.model_id))
    BY <1>2 DEF Resolution, Requests
<1> QED BY <1>1, <1>2

LEMMA ResolveKeeps ==
    ASSUME IInv, NEW p \in Procs, Resolve(p)
    PROVE  IInv'
<1> DEFINE path == Resolution(job[p].request)
           later == ReadLater(job[p].request)
           next == [job[p] EXCEPT !.path = path, !.request = later]
<1>1. UNCHANGED <<files, registry, held>>
    BY DEF Resolve
<1>2. CASE path = Nothing
    BY <1>1, <1>2, ReturnKeeps DEF Resolve
<1>3. CASE path # Nothing
  <2>1. pc' = [pc EXCEPT ![p] = "validate"] /\ job' = [job EXCEPT ![p] = next]
      BY <1>3 DEF Resolve, Goto
  <2>2. path \in Paths
      BY <1>3, JobIsTyped, ResolutionIsAPath DEF Loads
  <2>3. later \in Requests
      BY JobIsTyped DEF ReadLater, NoRequest, Loads, Requests
  <2> HIDE DEF later
  <2>4. next \in Loads /\ next.entries = job[p].entries /\ next.path = path
      BY <2>2, <2>3, JobIsTyped DEF Loads
  <2>5. job'[p] = next /\ pc'[p] = "validate"
      BY <2>1 DEF IInv, TypeOK
  <2> HIDE DEF path, next
  <2>6. Knows(p)'
      BY <2>2, <2>4, <2>5 DEF Knows, At
  <2> QED BY <1>1, <2>1, <2>4, <2>6, JobIsTyped, StepKeeps
<1> QED BY <1>2, <1>3

LEMMA ValidateKeeps ==
    ASSUME IInv, NEW p \in Procs, Validate(p)
    PROVE  IInv'
<1> DEFINE content == files[job[p].path]
           next == [job[p] EXCEPT !.metadata = content]
<1>1. UNCHANGED <<files, registry, held>>
    BY DEF Validate
<1>2. CASE content \notin Contents \ Invalid
    BY <1>1, <1>2, ReturnKeeps DEF Validate
<1>3. CASE content \in Contents \ Invalid
  <2>1. pc' = [pc EXCEPT ![p] = "hash"] /\ job' = [job EXCEPT ![p] = next]
      BY <1>3 DEF Validate, Goto
  <2>2. /\ next \in Loads /\ next.entries = job[p].entries /\ next.path = job[p].path
        /\ next.metadata = content
      BY <1>3, JobIsTyped DEF Loads
  <2>3. job'[p] = next /\ pc'[p] = "hash" /\ files'[next.path] = content
      BY <1>1, <2>1, <2>2 DEF IInv, TypeOK
  <2>4. job[p].path \in Paths
      BY JobIsTyped DEF Validate, Knows, At
  <2> HIDE DEF content, next
  <2>5. Knows(p)'
      BY <1>3, <2>2, <2>3, <2>4 DEF Knows, At
  <2> QED BY <1>1, <2>1, <2>2, <2>5, JobIsTyped, StepKeeps
<1> QED BY <1>2, <1>3

LEMMA HashKeeps ==
    ASSUME IInv, NEW p \in Procs, Hash(p)
    PROVE  IInv'
<1> DEFINE content == files[job[p].path]
           status == VerifiedAs(job[p].request, content)
           next == [job[p] EXCEPT !.identity = content, !.status = status]
<1>1. UNCHANGED <<files, registry, held>>
    BY DEF Hash
<1>2. CASE content = Nothing
    BY <1>1, <1>2, ReturnKeeps DEF Hash
<1>3. CASE content # Nothing
  <2>1. pc' = [pc EXCEPT ![p] = "read"] /\ job' = [job EXCEPT ![p] = next]
      BY <1>3 DEF Hash, Goto
  <2>2. /\ job[p].path \in Paths /\ job[p].metadata \in Contents \ Invalid
      BY JobIsTyped DEF Hash, Knows, At
  <2>3. content \in Contents /\ <<job[p].path, content>> \in held
      BY <1>3, <2>2 DEF IInv, Seen, TypeOK
  <2>4. /\ next \in Loads /\ next.entries = job[p].entries /\ next.path = job[p].path
        /\ next.metadata = job[p].metadata /\ next.identity = content /\ next.status = status
        /\ next.request = job[p].request
      BY <2>3, JobIsTyped DEF Loads, VerifiedAs, Statuses
  <2>5. job'[p] = next /\ pc'[p] = "read" /\ files'[job[p].path] = content /\ held' = held
      BY <1>1, <2>1 DEF IInv, TypeOK
  <2>6. status = VerifiedAs(next.request, next.identity)
      BY <2>4
  <2> HIDE DEF content, next, status
  <2>7. Knows(p)'
      BY <2>2, <2>3, <2>4, <2>5, <2>6 DEF Knows, At
  <2> QED BY <1>1, <2>1, <2>4, <2>7, JobIsTyped, StepKeeps
<1> QED BY <1>2, <1>3

\* The end of import_model, with the registry written or not.
LEMMA AfterImportSteps ==
    ASSUME IInv, NEW p \in Procs, AfterImport(p)
    PROVE  \/ Return(p)
           \/ /\ job[p].status = "Verified" /\ pc' = [pc EXCEPT ![p] = "open"]
              /\ job' = [job EXCEPT ![p] = [job[p] EXCEPT !.entries = <<>>]]
BY DEF AfterImport, Goto

LEMMA AfterImportKeeps ==
    ASSUME IInv, NEW p \in Procs, At(p, {"read", "write"}), AfterImport(p),
           UNCHANGED <<files, held>>, UNCHANGED registry \/ Sound(registry')
    PROVE  IInv'
<1> DEFINE next == [job[p] EXCEPT !.entries = <<>>]
<1>1. CASE Return(p)
    BY <1>1, ReturnKeeps
<1>2. CASE /\ job[p].status = "Verified" /\ pc' = [pc EXCEPT ![p] = "open"]
           /\ job' = [job EXCEPT ![p] = next]
  <2>1. /\ next \in Loads /\ next.entries = <<>> /\ next.path = job[p].path
        /\ next.metadata = job[p].metadata /\ next.identity = job[p].identity
        /\ next.status = job[p].status /\ next.request = job[p].request
    <3>1. <<>> \in Seq(RegistryEntries) /\ job[p] \in Loads
        BY JobIsTyped
    <3> QED BY <3>1 DEF Loads
  <2>2. job'[p] = next /\ pc'[p] = "open"
      BY <1>2 DEF IInv, TypeOK
  <2> HIDE DEF next
  <2>3. Knows(p)'
      BY <1>2, <2>1, <2>2, JobIsTyped DEF Knows, At
  <2> QED BY <1>2, <2>1, <2>3, EmptyIsSound, StepKeeps
<1> QED BY <1>1, <1>2, AfterImportSteps

LEMMA ReadRegistryKeeps ==
    ASSUME IInv, NEW p \in Procs, ReadRegistry(p)
    PROVE  IInv'
<1>1. UNCHANGED <<files, registry, held>> /\ At(p, {"read"})
    BY DEF ReadRegistry, At
<1>2. CASE Parsed(registry).result = "Corrupted"
    BY <1>1, <1>2, AfterImportKeeps DEF ReadRegistry, At
<1>3. CASE Parsed(registry).result # "Corrupted"
  <2> DEFINE list == Parsed(registry).entries
             next == [job[p] EXCEPT !.entries = list]
  <2>1. pc' = [pc EXCEPT ![p] = "write"] /\ job' = [job EXCEPT ![p] = next]
      BY <1>3 DEF ReadRegistry, Goto
  <2>2. list \in Seq(RegistryEntries) /\ Unique(list) /\ AllWitnessed(list)
      BY <1>3, ParsedIsSound DEF IInv
  <2> HIDE DEF list
  <2>3. /\ next \in Loads /\ next.entries = list /\ next.path = job[p].path
        /\ next.metadata = job[p].metadata /\ next.identity = job[p].identity
        /\ next.status = job[p].status /\ next.request = job[p].request
      BY <2>2, JobIsTyped DEF Loads
  <2>4. job'[p] = next /\ pc'[p] = "write"
      BY <2>1 DEF IInv, TypeOK
  <2> HIDE DEF next
  <2>5. Knows(p)'
      BY <1>1, <2>3, <2>4, JobIsTyped DEF Knows, At
  <2> QED BY <1>1, <2>1, <2>2, <2>3, <2>5, StepKeeps
<1> QED BY <1>2, <1>3

LEMMA NewEntryIsWitnessed ==
    ASSUME IInv, NEW p \in Procs, At(p, {"write"})
    PROVE  NewEntry(p) \in RegistryEntries /\ Witnessed(NewEntry(p))
<1>1. /\ job[p] \in Loads /\ job[p].path \in Paths /\ job[p].metadata \in Contents
      /\ job[p].identity \in Contents /\ <<job[p].path, job[p].identity>> \in held
      /\ job[p].status = VerifiedAs(job[p].request, job[p].identity)
    BY JobIsTyped DEF Knows, At
<1>2. job[p].request.checksum \in Contents \cup {Nothing}
    BY <1>1 DEF Loads, Requests
<1> QED BY <1>1, <1>2 DEF NewEntry, RegistryEntries, Witnessed, VerifiedAs

LEMMA WriteRegistryKeeps ==
    ASSUME IInv, NEW p \in Procs, WriteRegistry(p)
    PROVE  IInv'
<1>1. UNCHANGED <<files, held>> /\ At(p, {"write"}) /\ AfterImport(p)
    BY DEF WriteRegistry, At
<1>2. UNCHANGED registry \/ Sound(registry')
  <2>1. /\ job[p].entries \in Seq(RegistryEntries) /\ Unique(job[p].entries)
        /\ AllWitnessed(job[p].entries)
      BY JobIsTyped DEF Loads
  <2>2. NewEntry(p) \in RegistryEntries /\ Witnessed(NewEntry(p))
      BY <1>1, NewEntryIsWitnessed
  <2> DEFINE list == Upsert(job[p].entries, NewEntry(p))
  <2>3. list \in Seq(RegistryEntries) /\ Unique(list) /\ AllWitnessed(list)
      BY <2>1, <2>2, UpsertKeeps
  <2>4. registry' = list \/ UNCHANGED registry
      BY DEF WriteRegistry
  <2> HIDE DEF list
  <2>5. list \in Seq(RegistryEntries \cup {Malformed})
      BY <2>3
  <2> QED BY <2>3, <2>4, <2>5 DEF Sound
<1> QED BY <1>1, <1>2, AfterImportKeeps DEF At

LEMMA EndsKeep ==
    ASSUME IInv, NEW p \in Procs, Open(p) \/ Exit(p)
    PROVE  IInv'
BY ReturnKeeps DEF Open, Exit

LEMMA ChangeFileKeeps ==
    ASSUME IInv, ChangeFile
    PROVE  IInv'
<1>1. PICK q \in Paths, c \in Contents \cup {Nothing} :
             /\ files' = [files EXCEPT ![q] = c]
             /\ held' = IF c = Nothing THEN held ELSE held \cup {<<q, c>>}
    BY DEF ChangeFile
<1>2. UNCHANGED <<registry, pc, job>> /\ held \subseteq held'
    BY <1>1 DEF ChangeFile
<1>3. TypeOK'
    BY <1>1, <1>2 DEF IInv, TypeOK
<1>4. Seen'
  <2>1. \A r \in Paths : files'[r] = IF r = q THEN c ELSE files[r]
      BY <1>1 DEF IInv, TypeOK
  <2> QED BY <1>1, <2>1 DEF IInv, Seen
<1>5. ListsAreSound'
    BY <1>2 DEF IInv, ListsAreSound, AllWitnessed, Witnessed
<1>6. ASSUME NEW p \in Procs PROVE Knows(p)'
    BY <1>2, <1>6 DEF IInv, Knows, At
<1> QED BY <1>3, <1>4, <1>5, <1>6 DEF IInv

LEMMA NewRegistryKeeps ==
    ASSUME IInv, UNCHANGED <<files, pc, job, held>>, Sound(registry')
    PROVE  IInv'
<1>1. TypeOK' /\ Seen'
    BY DEF IInv, TypeOK, Seen, Sound
<1>2. ListsAreSound'
    BY DEF IInv, ListsAreSound, AllWitnessed, Witnessed, Sound
<1>3. \A p \in Procs : Knows(p)'
    BY DEF IInv, Knows, At
<1> QED BY <1>1, <1>2, <1>3 DEF IInv

LEMMA FrontIsInside ==
    ASSUME NEW S, NEW list \in Seq(S), list # <<>>
    PROVE  /\ Front(list) \in Seq(S)
           /\ \A n \in DOMAIN Front(list) : n \in DOMAIN list /\ Front(list)[n] = list[n]
BY DEF Front

\* Without its tail, or with a block that does not parse, a sound list is sound.
LEMMA DamageKeeps ==
    ASSUME IInv, DamageRegistry \/ DeleteRegistry
    PROVE  IInv'
<1>1. CASE DeleteRegistry
    BY <1>1, NewRegistryKeeps DEF DeleteRegistry, Sound
<1>2. CASE DamageRegistry
  <2>1. /\ registry \in Seq(RegistryEntries \cup {Malformed}) /\ Unique(registry)
        /\ AllWitnessed(registry) /\ UNCHANGED <<files, pc, job, held>>
      BY <1>2 DEF DamageRegistry, IInv, TypeOK, ListsAreSound
  <2>2. registry # <<>> /\ registry' \in {Front(registry), Append(Front(registry), Malformed)}
      BY <1>2 DEF DamageRegistry
  <2> DEFINE front == Front(registry)
  <2>3. /\ front \in Seq(RegistryEntries \cup {Malformed})
        /\ \A n \in DOMAIN front : n \in DOMAIN registry /\ front[n] = registry[n]
      BY <2>1, <2>2, FrontIsInside
  <2> HIDE DEF front
  <2>4. Sound(front)
      BY <2>1, <2>3 DEF Sound, Unique, AllWitnessed
  <2>5. Sound(Append(front, Malformed))
    <3> DEFINE list == Append(front, Malformed)
    <3>1. /\ list \in Seq(RegistryEntries \cup {Malformed})
          /\ \A n \in DOMAIN list : \/ list[n] = Malformed
                                    \/ n \in DOMAIN registry /\ list[n] = registry[n]
        BY <2>3
    <3> HIDE DEF list
    <3>2. Unique(list) /\ AllWitnessed(list)
        BY <2>1, <3>1 DEF Unique, AllWitnessed
    <3> QED BY <3>1, <3>2 DEF Sound, list
  <2> QED BY <2>1, <2>2, <2>4, <2>5, NewRegistryKeeps DEF front
<1> QED BY <1>1, <1>2

THEOREM Inductive == Spec => []IInv
<1>1. IInv /\ [Next]_vars => IInv'
  <2> SUFFICES ASSUME IInv, [Next]_vars PROVE IInv'
      OBVIOUS
  <2>1. ASSUME NEW p \in Procs, ProcStep(p) PROVE IInv'
      BY <2>1, RequestsKeep, ResolveKeeps, ValidateKeeps, HashKeeps, ReadRegistryKeeps,
         WriteRegistryKeeps, EndsKeep DEF ProcStep
  <2>2. CASE UNCHANGED vars
      BY <2>2 DEF vars, IInv, TypeOK, Seen, ListsAreSound, AllWitnessed, Witnessed, Knows, At
  <2> QED BY <2>1, <2>2, ChangeFileKeeps, DamageKeeps DEF Next
<1> QED BY Initially, <1>1, PTL DEF Spec
-----------------------------------------------------------------------------
(***************************************************************************)
(* The types: whatever the registry holds parses to entries.               *)
(***************************************************************************)
THEOREM TypeCorrect == Spec => []TypeOK
BY Inductive, PTL DEF IInv

(***************************************************************************)
(* However many processes import at once, an identity has one entry.       *)
(***************************************************************************)
THEOREM IdsAreUnique == Spec => []UniqueIds
<1>1. IInv => UniqueIds
    BY DEF IInv, ListsAreSound, Unique, UniqueIds
<1> QED BY <1>1, Inductive, PTL

(***************************************************************************)
(* Whenever files change, every entry's id, path and checksum status were  *)
(* true of its file at some time.                                          *)
(***************************************************************************)
THEOREM EntriesAreTrue == Spec => []EntriesAreWitnessed
<1>1. IInv => EntriesAreWitnessed
    BY DEF IInv, ListsAreSound, AllWitnessed, Witnessed, EntriesAreWitnessed, Entries
<1> QED BY <1>1, Inductive, PTL

(***************************************************************************)
(* Whatever other processes and users do, llama.cpp gets what the load     *)
(* validated and what has the checksum, if the file is still what the two  *)
(* opens of the verification found.                                        *)
(***************************************************************************)
THEOREM OpenedIsVerified == Spec => []OpenedWasVerified
<1>1. IInv => OpenedWasVerified
  <2> SUFFICES ASSUME IInv, NEW p \in Procs, pc[p] = "open",
                      job[p].metadata = files[job[p].path], job[p].identity = files[job[p].path]
               PROVE  /\ files[job[p].path] \notin Invalid
                      /\ job[p].request.checksum \in {Nothing, files[job[p].path]}
      BY DEF OpenedWasVerified
  <2>1. job[p].metadata \notin Invalid /\ VerifiedAs(job[p].request, job[p].identity) = "Verified"
      BY JobIsTyped DEF Knows, At
  <2> QED BY <2>1 DEF VerifiedAs
<1> QED BY <1>1, Inductive, PTL
-----------------------------------------------------------------------------
\* With one process, what it is about to write has all that the registry has, in its place.
Kept ==
    \A p \in Procs : At(p, {"write"}) /\ registry # Absent =>
        \A i \in DOMAIN registry :
            \/ registry[i] = Malformed
            \/ i \in DOMAIN job[p].entries /\ registry[i] = job[p].entries[i]

\* Two lists of which one has the ids of the other, and perhaps more.
Extends(longer, list) ==
    /\ Len(longer) >= Len(list)
    /\ \A i \in DOMAIN list : longer[i].model_id = list[i].model_id

OneProcess == \A p, q \in Procs : p = q

LEMMA KeptInductive ==
    ASSUME OneProcess, IInv, Kept, [Next]_vars
    PROVE  Kept'
<1>1. ASSUME NEW p \in Procs, ReadRegistry(p) PROVE Kept'
  <2>1. UNCHANGED registry /\ (pc'[p] = "write" => Parsed(registry).result # "Corrupted")
      BY <1>1 DEF ReadRegistry, AfterImport, Return, Goto, IInv, TypeOK
  <2>2. CASE Parsed(registry).result = "Corrupted"
      BY <1>1, <2>1, <2>2 DEF OneProcess, Kept, At
  <2>3. CASE Parsed(registry).result # "Corrupted"
    <3>1. job'[p].entries = Parsed(registry).entries
        BY <1>1, <2>3 DEF ReadRegistry, IInv, TypeOK, Loads
    <3>2. registry # Absent => job'[p].entries = registry
        BY <2>3, <3>1 DEF Parsed
    <3> QED BY <2>1, <3>2 DEF OneProcess, Kept
  <2> QED BY <2>2, <2>3
<1>2. ASSUME NEW p \in Procs, Request(p) \/ AutoSelect(p) \/ Resolve(p) \/ Validate(p) \/ Hash(p)
                              \/ WriteRegistry(p) \/ Open(p) \/ Exit(p)
      PROVE  Kept'
  <2>1. pc'[p] # "write"
      BY <1>2 DEF Request, AutoSelect, Begin, Resolve, Validate, Hash, WriteRegistry, AfterImport,
                  Open, Exit, Return, Goto, IInv, TypeOK
  <2> QED BY <2>1 DEF OneProcess, Kept, At
<1>3. CASE ChangeFile \/ DeleteRegistry \/ UNCHANGED vars
    BY <1>3 DEF ChangeFile, DeleteRegistry, vars, Kept, At
<1>4. CASE DamageRegistry
  <2>1. /\ registry \in Seq(RegistryEntries \cup {Malformed}) /\ registry \notin {Absent, <<>>}
        /\ registry' \in {Front(registry), Append(Front(registry), Malformed)}
        /\ UNCHANGED <<pc, job>>
      BY <1>4 DEF DamageRegistry, IInv, TypeOK
  <2> DEFINE front == Front(registry)
  <2>2. /\ front \in Seq(RegistryEntries \cup {Malformed})
        /\ \A i \in DOMAIN front : i \in DOMAIN registry /\ front[i] = registry[i]
      BY <2>1, FrontIsInside
  <2>3. registry' = front \/ registry' = Append(front, Malformed)
      BY <2>1
  <2> HIDE DEF front
  <2>4. \A i \in DOMAIN registry' :
            registry'[i] = Malformed \/ (i \in DOMAIN registry /\ registry'[i] = registry[i])
      BY <2>2, <2>3
  <2> QED BY <2>1, <2>4 DEF Kept, At
<1> QED BY <1>1, <1>2, <1>3, <1>4 DEF Next, ProcStep, OneProcess

LEMMA UpsertExtends ==
    ASSUME NEW list \in Seq(RegistryEntries), Unique(list), NEW entry \in RegistryEntries
    PROVE  Extends(Upsert(list, entry), list)
<1>1. CASE Registered(list, entry.model_id)
  <2> DEFINE n == First(list, entry.model_id)
  <2>1. n \in DOMAIN list /\ list[n].model_id = entry.model_id
      BY <1>1, FirstIsThere
  <2>2. Upsert(list, entry) = [list EXCEPT ![n] = entry]
      BY <1>1 DEF Upsert
  <2> HIDE DEF n
  <2> QED BY <2>1, <2>2 DEF Extends
<1>2. CASE ~Registered(list, entry.model_id)
    BY <1>2 DEF Upsert, Extends
<1> QED BY <1>1, <1>2

LEMMA IdsAreAList ==
    ASSUME NEW list \in Seq(RegistryEntries)
    PROVE  Ids(list) \in Seq(Contents) /\ Len(Ids(list)) = Len(list)
<1>1. DOMAIN list = 1..Len(list) /\ Len(list) \in Nat
    OBVIOUS
<1>2. \A i \in 1..Len(list) : list[i].model_id \in Contents
  <2> TAKE i \in 1..Len(list)
  <2>1. list[i] \in RegistryEntries
      OBVIOUS
  <2> QED BY <2>1 DEF RegistryEntries
<1>3. Ids(list) = [i \in 1..Len(list) |-> list[i].model_id]
    BY <1>1 DEF Ids
<1> QED BY <1>1, <1>2, <1>3

LEMMA PrefixOfIds ==
    ASSUME NEW list \in Seq(RegistryEntries), NEW longer \in Seq(RegistryEntries)
    PROVE  IsPrefix(Ids(list), Ids(longer)) <=> Extends(longer, list)
<1> DEFINE short == Ids(list)
           long == Ids(longer)
<1>1. short \in Seq(Contents) /\ Len(short) = Len(list)
    BY IdsAreAList
<1>2. long \in Seq(Contents) /\ Len(long) = Len(longer)
    BY IdsAreAList
<1>3. /\ \A i \in DOMAIN list : short[i] = list[i].model_id
      /\ \A i \in DOMAIN longer : long[i] = longer[i].model_id
    BY DEF Ids
<1> HIDE DEF short, long
<1>4. IsPrefix(short, long) <=> /\ Len(list) <= Len(longer)
                                /\ SubSeq(short, 1, Len(list)) = SubSeq(long, 1, Len(list))
    BY <1>1, <1>2 DEF IsPrefix
<1>5. ASSUME Len(list) <= Len(longer)
      PROVE  SubSeq(short, 1, Len(list)) = SubSeq(long, 1, Len(list))
             <=> \A i \in 1..Len(list) : short[i] = long[i]
    BY <1>1, <1>2, <1>5
<1>6. Len(list) <= Len(longer) => 1..Len(list) = DOMAIN list /\ 1..Len(list) \subseteq DOMAIN longer
    OBVIOUS
<1> QED BY <1>3, <1>4, <1>5, <1>6 DEF Extends, short, long

(***************************************************************************)
(* For any number of processes and all faults: an import forgets a         *)
(* registration only if it saves a copy that lacks what another process    *)
(* has saved since, and a lone process forgets none.                       *)
(***************************************************************************)
THEOREM NothingIsForgotten == Spec => ForgottenOnlyByStaleCopies
<1> DEFINE Stale(p) == /\ pc[p] = "write" /\ pc'[p] # "write"
                       /\ ~IsPrefix(Ids(registry), Ids(job[p].entries))
                       /\ Procs # {p}
           Step == pc' # pc /\ Parsed(registry).result = "Ok" =>
                       \/ IsPrefix(Ids(registry), Ids(registry'))
                       \/ \E p \in Procs : Stale(p)
           KeptByOne == OneProcess => Kept
<1>1. Init => KeptByOne
    BY DEF Init, Kept, At
<1>2. IInv /\ KeptByOne /\ [Next]_vars => KeptByOne'
    BY KeptInductive DEF OneProcess
<1>3. IInv /\ KeptByOne /\ [Next]_vars => [Step]_vars
  <2> SUFFICES ASSUME IInv, KeptByOne, [Next]_vars, pc' # pc, Parsed(registry).result = "Ok"
               PROVE  IsPrefix(Ids(registry), Ids(registry')) \/ \E p \in Procs : Stale(p)
      OBVIOUS
  <2>1. /\ registry # Absent /\ \A i \in DOMAIN registry : registry[i] # Malformed
        /\ registry \in Seq(RegistryEntries)
      BY DEF Parsed, IInv, TypeOK
  <2>2. CASE UNCHANGED registry
      BY <2>1, <2>2, PrefixOfIds DEF Extends
  <2>3. ASSUME NEW p \in Procs, WriteRegistry(p), registry' = Upsert(job[p].entries, NewEntry(p))
        PROVE  IsPrefix(Ids(registry), Ids(registry')) \/ Stale(p)
    <3> DEFINE list == job[p].entries
    <3>1. pc[p] = "write" /\ pc'[p] # "write"
        BY <2>3 DEF WriteRegistry, AfterImport, Return, Goto, IInv, TypeOK
    <3>2. /\ list \in Seq(RegistryEntries) /\ Unique(list) /\ AllWitnessed(list)
          /\ NewEntry(p) \in RegistryEntries /\ Witnessed(NewEntry(p))
        BY <3>1, JobIsTyped, NewEntryIsWitnessed DEF Loads, At
    <3>3. registry' \in Seq(RegistryEntries) /\ Extends(registry', list)
        BY <2>3, <3>2, UpsertKeeps, UpsertExtends
    <3>4. CASE Procs = {p}
      <4>1. \A i \in DOMAIN registry : i \in DOMAIN list /\ registry[i] = list[i]
          BY <2>1, <3>1, <3>4 DEF Kept, OneProcess, At
      <4> HIDE DEF list
      <4>2. Len(list) >= Len(registry)
          BY <2>1, <3>2, <4>1
      <4>3. Extends(registry', registry)
          BY <2>1, <3>2, <3>3, <4>1, <4>2 DEF Extends
      <4> QED BY <2>1, <3>3, <4>3, PrefixOfIds
    <3>5. CASE IsPrefix(Ids(registry), Ids(list))
      <4> HIDE DEF list
      <4>1. Extends(list, registry)
          BY <2>1, <3>2, <3>5, PrefixOfIds
      <4>2. Extends(registry', registry)
          BY <2>1, <3>2, <3>3, <4>1 DEF Extends
      <4> QED BY <2>1, <3>3, <4>2, PrefixOfIds
    <3> QED BY <3>1, <3>4, <3>5
  <2>4. \/ UNCHANGED registry
        \/ \E p \in Procs : WriteRegistry(p) /\ registry' = Upsert(job[p].entries, NewEntry(p))
    <3>1. ASSUME NEW p \in Procs, ProcStep(p)
          PROVE  \/ UNCHANGED registry
                 \/ WriteRegistry(p) /\ registry' = Upsert(job[p].entries, NewEntry(p))
        BY <3>1 DEF ProcStep, Request, AutoSelect, Begin, Resolve, Validate, Hash, ReadRegistry,
                    WriteRegistry, Open, Exit
    <3> QED BY <3>1 DEF Next, vars, ChangeFile, DamageRegistry, DeleteRegistry
  <2> QED BY <2>2, <2>3, <2>4
<1>4. Spec => [][Step]_vars
    BY <1>1, <1>2, <1>3, Inductive, PTL DEF Spec
<1> QED BY <1>4, PTL DEF ForgottenOnlyByStaleCopies
=============================================================================
