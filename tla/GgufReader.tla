------------------------------ MODULE GgufReader ------------------------------
(***************************************************************************)
(* src/model/gguf_reader.cpp: GgufReader::validate walks the header and    *)
(* the key-value section of a model file that may be anything.             *)
(*                                                                         *)
(* A file is a sequence of cells, numbers that mean what the place they    *)
(* are read at makes of them.  A fixed-width field is one cell, a string   *)
(* its length and that many cells.  Four kinds of types stand for the      *)
(* thirteen: Number for the 32-bit integers that any numeric key captures, *)
(* Wide for the 64-bit ones that only a context length does, the string    *)
(* and the array; other cells are unknown types.  general.name and         *)
(* general.file_type are captured as the architecture and the quantization *)
(* version are, and are left out; so are paths that cannot be opened,      *)
(* which ModelRegistry has.                                                *)
(***************************************************************************)
EXTENDS Integers, Sequences

CONSTANTS
    Files,      \* the files there may be
    MaxTensors, MaxKvs, MaxString, MaxArray, \* GgufLimits
    MaxKey      \* the longest key

ASSUME GgufAssumption ==
    /\ Files \subseteq Seq(Nat)
    /\ {MaxTensors, MaxKvs, MaxString, MaxArray, MaxKey} \subseteq Nat

Magic == 1
Versions == {2, 3}
HeaderSize == 4

Number == 0
Wide == 1
String == 2
Array == 3
Width == [t \in {Number, Wide} |-> IF t = Number THEN 1 ELSE 2]

\* Keys: general.architecture, general.quantization_version, <prefix>.context_length.
ArchitectureKey == <<0>>
QuantizationKey == <<1>>
ContextSuffix == 2

Absent == [present |-> FALSE, value |-> <<>>]
Present(v) == [present |-> TRUE, value |-> v]

Statuses == {"reading", "FileEmpty", "TruncatedHeader", "InvalidMagic", "UnsupportedVersion",
             "MalformedMetadata", "Valid"}

VARIABLES
    file,
    pc,         \* what is read next
    pos,        \* cells read or skipped
    kvs,        \* key-value pairs still to read
    key, type,  \* of the value to read
    count,      \* string elements of the array still to read
    candidates, \* context_length_candidates: the last value of each prefix
    quant,      \* the local quantization_version
    metadata,   \* out_metadata: architecture, quantization version, context length
    status,
    work        \* history: fields read or skipped so far

vars == <<file, pc, pos, kvs, key, type, count, candidates, quant, metadata, status, work>>

NoMetadata == [architecture |-> Absent, quantization |-> Absent, context |-> Absent]

Init ==
    /\ file \in Files
    /\ pc = "header" /\ pos = 0 /\ kvs = 0
    /\ key = <<>> /\ type = Number /\ count = 0
    /\ candidates = <<>> /\ quant = Absent
    /\ metadata = NoMetadata
    /\ status = "reading" /\ work = 0
-----------------------------------------------------------------------------
\* Mutation: a length that reaches past the end of the file is believed.
InFile_Trusted(at, n) == at < Len(file)

\* BoundedReader::skip and read_string_bounded, in the order of their comparisons.
InFile(at, n) == n <= Len(file) /\ at <= Len(file) - n

Cell(at) == file[at + 1]
Cells(at, n) == SubSeq(file, at + 1, at + n)

Return(s) == pc' = "done" /\ status' = s

Malformed == Return("MalformedMetadata") /\ UNCHANGED <<pos, kvs, key, type, count>>

HeaderStatus ==
    IF file = <<>> THEN "FileEmpty"
    ELSE IF Len(file) < HeaderSize THEN "TruncatedHeader"
    ELSE IF Cell(0) # Magic THEN "InvalidMagic"
    ELSE IF Cell(1) \notin Versions THEN "UnsupportedVersion"
    ELSE IF Cell(2) > MaxTensors \/ Cell(3) > MaxKvs THEN "MalformedMetadata"
    ELSE "reading"

ReadHeader ==
    /\ pc = "header"
    /\ IF HeaderStatus = "reading"
       THEN pc' = "key" /\ pos' = HeaderSize /\ kvs' = Cell(3) /\ UNCHANGED status
       ELSE Return(HeaderStatus) /\ UNCHANGED <<pos, kvs>>
    /\ work' = work + 1
    /\ UNCHANGED <<file, key, type, count, candidates, quant, metadata>>

\* The key's length, the key and the type of its value.
ReadKey ==
    /\ pc = "key" /\ kvs > 0
    /\ LET length == Cell(pos) IN
       IF /\ InFile(pos, 1) /\ length <= MaxKey
          /\ InFile(pos + 1, length) /\ InFile(pos + 1 + length, 1)
          /\ Cell(pos + 1 + length) \in {Number, Wide, String, Array}
       THEN /\ key' = Cells(pos + 1, length)
            /\ type' = Cell(pos + 1 + length)
            /\ pos' = pos + length + 2
            /\ pc' = "value"
            /\ UNCHANGED <<kvs, count, status>>
       ELSE Malformed
    /\ work' = work + 1
    /\ UNCHANGED <<file, candidates, quant, metadata>>

NextKey == pc' = "key" /\ kvs' = kvs - 1

IsContextKey(k) == Len(k) > 1 /\ k[Len(k)] = ContextSuffix
Prefix(k) == SubSeq(k, 1, Len(k) - 1)

\* Mutation: a context length counts only once the architecture is known.
Candidate_NeedsArchitecture(k, value) ==
    IF metadata.architecture = Present(Prefix(k))
    THEN [p \in DOMAIN candidates \cup {Prefix(k)} |-> IF p = Prefix(k) THEN value ELSE candidates[p]]
    ELSE candidates

Candidate(k, value) ==
    [p \in DOMAIN candidates \cup {Prefix(k)} |-> IF p = Prefix(k) THEN value ELSE candidates[p]]

\* A scalar: captured when the key asks for a number, skipped otherwise.
ReadScalar ==
    /\ pc = "value" /\ type \in {Number, Wide}
    /\ IF InFile(pos, Width[type])
       THEN /\ NextKey /\ pos' = pos + Width[type]
            /\ LET value == Cells(pos, Width[type]) IN
               /\ quant' = IF key = QuantizationKey /\ type = Number THEN Present(value) ELSE quant
               /\ candidates' = IF IsContextKey(key) THEN Candidate(key, value) ELSE candidates
            /\ UNCHANGED <<key, type, count, status>>
       ELSE Malformed /\ UNCHANGED <<quant, candidates>>
    /\ work' = work + 1
    /\ UNCHANGED <<file, metadata>>

\* consume_string_value: its length is checked against the ceiling and the file.
StringFits(at) ==
    InFile(at, 1) /\ Cell(at) <= MaxString /\ InFile(at + 1, Cell(at))

ReadString ==
    /\ pc = "value" /\ type = String
    /\ IF StringFits(pos)
       THEN /\ NextKey /\ pos' = pos + 1 + Cell(pos)
            /\ metadata' = IF key = ArchitectureKey
                           THEN [metadata EXCEPT !.architecture = Present(Cells(pos + 1, Cell(pos)))]
                           ELSE metadata
            /\ UNCHANGED <<key, type, count, status>>
       ELSE Malformed /\ UNCHANGED metadata
    /\ work' = work + 1
    /\ UNCHANGED <<file, candidates, quant>>

\* Mutation: an array may hold arrays.
ElementTypes_Nested == {Number, Wide, String, Array}

ElementTypes == {Number, Wide, String}

\* An array's element type and count; scalar elements are skipped in one step.
ReadArray ==
    /\ pc = "value" /\ type = Array
    /\ LET element == Cell(pos)
           length == Cell(pos + 1) IN
       IF ~(InFile(pos, 1) /\ element \in ElementTypes /\ InFile(pos + 1, 1) /\ length <= MaxArray)
       THEN Malformed
       ELSE IF element \notin {Number, Wide}
       THEN /\ pc' = "elements" /\ count' = length /\ pos' = pos + 2
            /\ UNCHANGED <<kvs, key, type, status>>
       ELSE IF InFile(pos + 2, length * Width[element])
       THEN /\ NextKey /\ pos' = pos + 2 + length * Width[element]
            /\ UNCHANGED <<key, type, count, status>>
       ELSE Malformed
    /\ work' = work + 1
    /\ UNCHANGED <<file, candidates, quant, metadata>>

\* Mutation: an element that does not fit is noticed only when it is the last.
ReadElement_NoticesLast ==
    /\ pc = "elements" /\ count > 0
    /\ IF StringFits(pos) \/ count > 1
       THEN /\ count' = count - 1
            /\ pos' = IF StringFits(pos) THEN pos + 1 + Cell(pos) ELSE pos
            /\ UNCHANGED <<pc, kvs, key, type, status>>
       ELSE Malformed
    /\ work' = work + 1
    /\ UNCHANGED <<file, candidates, quant, metadata>>

ReadElement ==
    /\ pc = "elements" /\ count > 0
    /\ IF StringFits(pos)
       THEN /\ count' = count - 1 /\ pos' = pos + 1 + Cell(pos)
            /\ UNCHANGED <<pc, kvs, key, type, status>>
       ELSE Malformed
    /\ work' = work + 1
    /\ UNCHANGED <<file, candidates, quant, metadata>>

EndArray ==
    /\ pc = "elements" /\ count = 0
    /\ NextKey
    /\ UNCHANGED <<file, pos, key, type, count, candidates, quant, metadata, status, work>>

\* After the last pair the captured numbers are resolved against the architecture.
Finish ==
    /\ pc = "key" /\ kvs = 0
    /\ Return("Valid")
    /\ metadata' = [architecture |-> metadata.architecture,
                    quantization |-> quant,
                    context      |-> IF /\ metadata.architecture.present
                                        /\ metadata.architecture.value \in DOMAIN candidates
                                     THEN Present(candidates[metadata.architecture.value])
                                     ELSE Absent]
    /\ UNCHANGED <<file, pos, kvs, key, type, count, candidates, quant, work>>

Next == ReadHeader \/ ReadKey \/ ReadScalar \/ ReadString \/ ReadArray \/ ReadElement
        \/ EndArray \/ Finish

Spec == Init /\ [][Next]_vars
-----------------------------------------------------------------------------
(***************************************************************************)
(* The format, independently of how it is read: what the key-value section *)
(* of a file is, cut into entries.  A place in a file is the number of     *)
(* cells before it.                                                        *)
(***************************************************************************)
Cut(s, from, to) == SubSeq(s, from + 1, to)

\* The ways to cut n pieces off what follows a place, each at one of the ends it may have.
Cuts(ends, from, n) ==
    LET Of[i \in 0..n] ==
            IF i = 0 THEN {<<from>>}
            ELSE UNION {{Append(c, to) : to \in ends[c[i]]} : c \in Of[i - 1]}
    IN  Of[n]

Places(s) == 0 .. Len(s)

IsString(s, from, to) == s[from + 1] <= MaxString /\ to = from + 1 + s[from + 1]

StringEnds(s) ==
    [from \in Places(s) |-> {to \in Places(s) : from < to /\ IsString(s, from, to)}]

IsArray(s, from, to) ==
    LET length == s[from + 2]
        first  == from + 2
    IN  /\ first <= to /\ length <= MaxArray
        /\ \/ s[from + 1] \in {Number, Wide} /\ to = first + length * Width[s[from + 1]]
           \/ s[from + 1] = String /\ \E c \in Cuts(StringEnds(s), first, length) : c[length + 1] = to

\* A type and a value of it.
IsValue(s, from, to) ==
    \/ s[from + 1] \in {Number, Wide} /\ to = from + 1 + Width[s[from + 1]]
    \/ s[from + 1] = String /\ to \in StringEnds(s)[from + 1]
    \/ s[from + 1] = Array /\ IsArray(s, from + 1, to)

\* A key and a value.
IsEntry(s, from, to) ==
    LET value == from + 1 + s[from + 1]
    IN  s[from + 1] <= MaxKey /\ value < to /\ IsValue(s, value, to)

EntryEnds(s) ==
    [from \in Places(s) |-> {to \in Places(s) : from < to /\ IsEntry(s, from, to)}]

HasHeader(s) ==
    /\ Len(s) >= HeaderSize /\ s[1] = Magic /\ s[2] \in Versions
    /\ s[3] <= MaxTensors /\ s[4] <= MaxKvs

\* The entries of a well-formed file, in a set of at most one sequence.
Entries(s) ==
    IF ~HasHeader(s) THEN {}
    ELSE {[i \in 1..s[4] |-> Cut(s, c[i], c[i + 1])] : c \in Cuts(EntryEnds(s), HeaderSize, s[4])}

KeyOf(entry) == Cut(entry, 1, 1 + entry[1])
ValueOf(entry) == Cut(entry, 1 + entry[1], Len(entry))

\* The value of the last entry with this key and one of these types, if there is one.
LastValue(entries, k, types) ==
    LET at == {i \in DOMAIN entries :
                  KeyOf(entries[i]) = k /\ ValueOf(entries[i])[1] \in types}
        last == CHOOSE i \in at : \A j \in at : j <= i
    IN  IF at = {} THEN Absent ELSE Present(Tail(ValueOf(entries[last])))

\* The characters of a string, without their number.
Characters(field) == IF field.present THEN Present(Tail(field.value)) ELSE Absent

MetadataOf(entries) ==
    LET architecture == Characters(LastValue(entries, ArchitectureKey, {String})) IN
    [architecture |-> architecture,
     quantization |-> LastValue(entries, QuantizationKey, {Number}),
     context      |-> IF architecture.present /\ architecture.value # <<>>
                      THEN LastValue(entries, Append(architecture.value, ContextSuffix),
                                     {Number, Wide})
                      ELSE Absent]
-----------------------------------------------------------------------------
TypeOK ==
    /\ file \in Seq(Nat)
    /\ pc \in {"header", "key", "value", "elements", "done"}
    /\ pos \in Nat /\ kvs \in 0..MaxKvs /\ count \in 0..MaxArray
    /\ key \in Seq(Nat) /\ Len(key) <= MaxKey
    /\ type \in {Number, Wide, String, Array}
    /\ status \in Statuses /\ (status = "reading" <=> pc # "done")
    /\ work \in Nat

(***************************************************************************)
(* The file bounds what is read, whatever lengths and counts it declares:  *)
(* nothing past its end is read or skipped to, and every field advances    *)
(* except the one that is rejected, so a count of millions in a small file *)
(* ends at the end of the file (gguf_reader.cpp:116-144, 240-263, 344-346).*)
(***************************************************************************)
NeverPastTheEnd == pos <= Len(file)
WorkIsBounded == NeverPastTheEnd /\ work <= pos + 1

(***************************************************************************)
(* A file is accepted exactly when it starts with a header and as many     *)
(* entries as that declares: reading agrees with the format, also at the   *)
(* ceilings and for a file that ends with its last entry.                  *)
(***************************************************************************)
AcceptsTheFormat == pc = "done" => (status = "Valid" <=> Entries(file) # {})

(***************************************************************************)
(* The metadata of an accepted file is that of its entries whatever their  *)
(* order: the context length is found under the final architecture although*)
(* it may come before it, and the last of repeated keys counts.            *)
(***************************************************************************)
MetadataIsTheFiles ==
    status = "Valid" => \E e \in Entries(file) : metadata = MetadataOf(e)
=============================================================================
