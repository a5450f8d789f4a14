------------------------------ MODULE ModelImport ------------------------------
(***************************************************************************)
(* ModelRegistry::import_model of one file, from its first byte to the     *)
(* text of the registry: GgufReader::validate, the identity of             *)
(* model_hash.cpp, the checksum of model_verifier.cpp, the registry of     *)
(* model_registry.cpp, and a power loss that leaves a part of its text,    *)
(* which is flushed to the system and not to the disk.                     *)
(***************************************************************************)
EXTENDS GgufReader, ModelHash, RegistryText

CONSTANTS
    Imported,      \* bound: the valid files whose import is followed
    Checksums(_),  \* the checksums users configure for a file with this identity
    Paths,         \* the paths of model files
    Registries(_), \* the registry files there may be, with entries of this identity or not
    NoFile         \* no registry file

VARIABLES
    stage,    \* where import_model is
    hashed,   \* bytes of the file read by compute_model_identity
    hasher,   \* its hasher
    identity, \* result.identity: the blocks in a set of at most one
    expected, \* expected_checksum_sha256
    verdict,  \* result.status
    text,     \* the registry file
    before,   \* history: the registry file when it was read
    saved     \* history: the entries saved, in a set of at most one

import == <<stage, hashed, hasher, identity, expected, verdict, text, before, saved>>
importVars == <<vars, import>>

ImportInit ==
    /\ Init
    /\ stage = "validate" /\ hashed = 0 /\ hasher = NewHasher /\ identity = {}
    /\ expected = <<>> /\ verdict = "NotYetVerified"
    /\ text = NoFile /\ before = NoFile /\ saved = {}
-----------------------------------------------------------------------------
\* A character of a digest in hexadecimal, which may be typed in upper case.
Hex(blocks, upper) == [digest |-> blocks, upper |-> upper]
Text(blocks) == <<Hex(blocks, FALSE)>>

\* A checksum is of the characters of the file's digest, in either case, and of others.
ASSUME ChecksumAssumption ==
    \A f \in Imported :
        LET digits == {Hex(Digest(f), upper) : upper \in BOOLEAN}
        IN  Letter \notin digits /\ Checksums(Digest(f)) \subseteq Seq({Letter} \cup digits)

\* Paths and the contents of files are texts.
IsText(t) == t \in Seq(ToSet(t))
ASSUME RegistryAssumption ==
    /\ \A p \in Paths : IsText(p)
    /\ \A f \in Imported : \A t \in Registries(Digest(f)) \ {NoFile} : IsText(t)

\* Mutation: the case of the checksum matters.
ToLower_Identity(s) == s

\* to_lower.
ToLower(s) == [n \in DOMAIN s |-> IF s[n] = Letter THEN s[n] ELSE Hex(s[n].digest, FALSE)]

\* GgufReader::validate.
Validating ==
    /\ stage = "validate" /\ pc # "done"
    /\ Next
    /\ UNCHANGED import

\* map_gguf_status; only a valid file is hashed.
Validated ==
    /\ stage = "validate" /\ pc = "done" /\ verdict' = status
    /\ stage' = IF status = "Valid" THEN "hash" ELSE "returned"
    /\ UNCHANGED <<vars, hashed, hasher, identity, expected, text, before, saved>>

\* One chunk; eof is seen only by a read that is not full.
ReadChunk ==
    /\ stage = "hash"
    /\ LET got == Lesser(ChunkSize, Len(file) - hashed)
           updated == IF got > 0 THEN Update(hasher, SubSeq(file, hashed + 1, hashed + got))
                                 ELSE hasher
       IN  /\ hasher' = updated /\ hashed' = hashed + got
           /\ IF got < ChunkSize
              THEN identity' = {Finalize(updated)} /\ stage' = "compare"
              ELSE UNCHANGED <<identity, stage>>
    /\ UNCHANGED <<vars, expected, verdict, text, before, saved>>

\* The file cannot be opened again or a read fails.
ReadFails ==
    /\ stage = "hash"
    /\ stage' = "returned" /\ verdict' = "PathUnreadable"
    /\ UNCHANGED <<vars, hashed, hasher, identity, expected, text, before, saved>>

\* The end of ModelVerifier::verify.
Compare ==
    /\ stage = "compare" /\ file \in Imported
    /\ \E blocks \in identity : \E checksum \in Checksums(blocks) :
          /\ expected' = checksum
          /\ verdict' = IF checksum = <<>> \/ ToLower(checksum) = Text(blocks)
                        THEN "Verified" ELSE "ChecksumMismatch"
    /\ stage' = "import"
    /\ UNCHANGED <<vars, hashed, hasher, identity, text, before, saved>>
-----------------------------------------------------------------------------
StatusNumber == [s \in {"ChecksumMismatch", "Verified"} |-> IF s = "Verified" THEN 2 ELSE 1]

NewEntry(blocks, path) ==
    [id |-> Text(blocks), path |-> path, status |-> StatusNumber[verdict], checksum |-> expected]

\* ModelRegistry::load.
Load(t) == IF t = NoFile THEN [result |-> "NotFound", entries |-> <<>>] ELSE LoadText(t)

\* The first entry with the identity is replaced, or the new one is the last.
Upserted(entries, e) ==
    IF \E n \in DOMAIN entries : entries[n].id = e.id
    THEN [entries EXCEPT ![CHOOSE n \in DOMAIN entries :
                              /\ entries[n].id = e.id
                              /\ \A k \in 1..(n - 1) : entries[k].id # e.id] = e]
    ELSE Append(entries, e)

Readable(t) == Load(t).result # "Corrupted"

\* The registry is read, changed and saved, unless it is corrupted; the save may fail.
Import ==
    /\ stage = "import" /\ stage' = "returned"
    /\ \E blocks \in identity, path \in Paths : \E t \in Registries(blocks) :
          LET updated == Upserted(Load(t).entries, NewEntry(blocks, path))
          IN  /\ before' = t
              /\ \/ /\ Readable(t) /\ Saves(updated)
                    /\ text' = SaveText(updated) /\ saved' = {updated}
                 \/ text' = t /\ UNCHANGED saved
    /\ UNCHANGED <<vars, hashed, hasher, identity, expected, verdict>>

\* The machine loses power before the end of the file is on the disk.
PowerLoss ==
    /\ stage = "returned" /\ saved # {} /\ stage' = "cut"
    /\ \E n \in 0 .. (Len(text) - 1) : text' = SubSeq(text, 1, n)
    /\ UNCHANGED <<vars, hashed, hasher, identity, expected, verdict, before, saved>>

ImportNext == Validating \/ Validated \/ ReadChunk \/ ReadFails \/ Compare \/ Import \/ PowerLoss

ImportSpec == ImportInit /\ [][ImportNext]_importVars
-----------------------------------------------------------------------------
ImportTypeOK ==
    /\ TypeOK
    /\ stage \in {"validate", "hash", "compare", "import", "returned", "cut"}
    /\ hashed \in 0..Len(file)
    /\ Len(hasher.buffer) < BlockSize /\ hasher.bits = Byte * hashed
    /\ verdict \in Statuses \cup {"NotYetVerified", "PathUnreadable", "ChecksumMismatch", "Verified"}

(***************************************************************************)
(* A computed identity is the hash of the whole file as the standard       *)
(* defines it, whatever its length is to the chunks and the blocks, and    *)
(* Verified means all of it: the format is valid, the file was hashed to   *)
(* its end and its hash is the configured one in either case, if there is  *)
(* one; anything else is recorded as a mismatch, or not at all             *)
(* (model_hash.cpp:74-174, model_verifier.cpp:111-143,                     *)
(* model_registry.cpp:265-270).                                            *)
(***************************************************************************)
VerdictIsTheFiles ==
    /\ \A blocks \in identity : blocks = Digest(file)
    /\ verdict = "Verified" =>
         /\ Entries(file) # {} /\ hashed = Len(file)
         /\ expected \in {<<>>} \cup {<<Hex(Digest(file), upper)>> : upper \in BOOLEAN}
    /\ verdict = "ChecksumMismatch" =>
         expected \notin {<<>>} \cup {<<Hex(Digest(file), upper)>> : upper \in BOOLEAN}
    /\ identity = {} => text = before

(***************************************************************************)
(* What was saved is what the next load reads, whatever characters a path  *)
(* or a checksum has, and it is what the registry held before with one     *)
(* entry for the file.  A registry that could not be read is not written   *)
(* over (model_registry.cpp:31-69, 114-157, 161-222, 273-282).             *)
(***************************************************************************)
SavedReadsBack ==
    stage = "returned" =>
        /\ \A entries \in saved :
             /\ LoadText(text) = Ok(entries)
             /\ \E n \in DOMAIN entries : entries[n].id = Text(Digest(file))
             /\ LET Others(es) == [n \in {m \in DOMAIN es : es[m].id # Text(Digest(file))} |-> es[n]] IN
                Others(entries) = Others(Load(before).entries)
        /\ Load(before).result = "Corrupted" => text = before

(***************************************************************************)
(* Of a registry that lost its end, the load sees no entry that was not    *)
(* saved: it is corrupted, or it is what was saved up to some entry, the   *)
(* last with a part of its last field (model_registry.cpp:133-204, 218).   *)
(***************************************************************************)
CutInventsNothing ==
    stage = "cut" =>
        \A entries \in saved :
           \/ LoadText(text) = Corrupted
           \/ LET loaded == LoadText(text).entries
                  last == Len(loaded)
              IN  /\ last <= Len(entries)
                  /\ \A n \in 1..last :
                        \/ loaded[n] = entries[n]
                        \/ /\ n = last
                           /\ \E k \in 0..Len(entries[n].checksum) :
                                 loaded[n] = [entries[n] EXCEPT !.checksum = SubSeq(@, 1, k)]
=============================================================================
