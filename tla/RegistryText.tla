----------------------------- MODULE RegistryText -----------------------------
(***************************************************************************)
(* The text of the registry file in src/model/model_registry.cpp: how      *)
(* entries become lines and lines become entries.                          *)
(*                                                                         *)
(* A text is a sequence of characters; a key and the magic line are one    *)
(* character each, and four keys stand for the ten: two texts, a number    *)
(* and the text that comes last.                                           *)
(***************************************************************************)
EXTENDS Integers, Sequences, SequencesExt

CONSTANTS
    Percent, Equals, NewLine, Escaped, \* Escaped is a further character that is escaped
    Letter,    \* any other
    MagicLine,    \* the characters of kMagicLine
    IdKey, PathKey, StatusKey, ChecksumKey, \* kFieldOrder
    Digits,    \* the digits in the order of their values
    Code       \* the two digits of each character that is escaped

Special == {Percent, Equals, NewLine, Escaped}
Keys == <<IdKey, PathKey, StatusKey, ChecksumKey>>

\* The number of the last VerificationStatus.
MaxStatus == 2

ASSUME TextAssumption ==
    /\ IsInjective(Keys)
    /\ Digits \in Seq(ToSet(Digits)) /\ IsInjective(Digits) /\ MaxStatus < Len(Digits)
    /\ NewLine \notin {Percent, Equals, MagicLine} \cup ToSet(Keys) \cup ToSet(Digits)
    /\ Code \in [Special -> [1..2 -> ToSet(Digits)]] /\ IsInjective(Code)

\* The loads' results.
Corrupted == [result |-> "Corrupted", entries |-> <<>>]
Ok(entries) == [result |-> "Ok", entries |-> entries]
-----------------------------------------------------------------------------
\* Mutation: the escape character itself is written as it is.
Escape_Unescaped(c) == IF c \in Special \ {Percent} THEN <<Percent>> \o Code[c] ELSE <<c>>

Escape(c) == IF c \in Special THEN <<Percent>> \o Code[c] ELSE <<c>>

PercentEncode(s) == FlattenSeq([n \in DOMAIN s |-> Escape(s[n])])

\* The character of two digits, a letter if it is none of those that are escaped.
Unescape(digits) ==
    IF \E c \in Special : Code[c] = digits
    THEN CHOOSE c \in Special : Code[c] = digits
    ELSE Letter

\* One character of the loop in percent_decode: escape holds what was read of an escape.
DecodeChar(d, c) ==
    IF d.escape = <<>>
    THEN IF c = Percent THEN [d EXCEPT !.escape = <<c>>] ELSE [d EXCEPT !.out = Append(@, c)]
    ELSE IF c \notin ToSet(Digits) THEN [d EXCEPT !.ok = FALSE]
    ELSE IF Len(d.escape) = 1 THEN [d EXCEPT !.escape = Append(@, c)]
    ELSE [d EXCEPT !.escape = <<>>, !.out = Append(@, Unescape(<<d.escape[2], c>>))]

DecodeAll(s) ==
    LET After[n \in 0..Len(s)] == IF n = 0 THEN [ok |-> TRUE, escape |-> <<>>, out |-> <<>>]
                                          ELSE DecodeChar(After[n - 1], s[n])
    IN  After[Len(s)]

\* Mutation: an escape that is cut off is taken as it is.
Decode_Lenient(s) == {d.out \o d.escape : d \in {a \in {DecodeAll(s)} : a.ok}}

\* percent_decode, in a set of at most one text.
Decode(s) == {d.out : d \in {a \in {DecodeAll(s)} : a.ok /\ a.escape = <<>>}}

DigitValue(c) == (CHOOSE n \in DOMAIN Digits : Digits[n] = c) - 1

\* strict_parse_i64 wants digits and nothing after them.
IsNumber(s) == s # <<>> /\ \A n \in DOMAIN s : s[n] \in ToSet(Digits)
ParseNumber(s) ==
    LET After[n \in 0..Len(s)] == IF n = 0 THEN 0
                                          ELSE Len(Digits) * After[n - 1] + DigitValue(s[n])
    IN  After[Len(s)]
-----------------------------------------------------------------------------
Line(key, value) == <<key, Equals>> \o value \o <<NewLine>>

\* entry_to_lines.
EntryToLines(e) ==
    Line(IdKey, PercentEncode(e.id)) \o Line(PathKey, PercentEncode(e.path))
    \o Line(StatusKey, <<Digits[e.status + 1]>>)
    \o Line(ChecksumKey, PercentEncode(e.checksum))

\* What ModelRegistry::save writes, and whether it does.
Saves(entries) == \A n \in DOMAIN entries : entries[n].id # <<>>
SaveText(entries) ==
    <<MagicLine, NewLine>>
    \o FlattenSeq([n \in DOMAIN entries |-> EntryToLines(entries[n]) \o <<NewLine>>])

\* fields_to_entry, in a set of at most one entry.
FieldsToEntry(fields) ==
    IF DOMAIN fields # ToSet(Keys) THEN {}
    ELSE {[id |-> id, path |-> path, checksum |-> checksum, status |-> status] :
             id \in Decode(fields[IdKey]) \ {<<>>}, path \in Decode(fields[PathKey]),
             checksum \in Decode(fields[ChecksumKey]),
             status \in {n \in 0..MaxStatus : IsNumber(fields[StatusKey]) /\ n = ParseNumber(fields[StatusKey])}}

\* One character of std::getline: the whole lines, and the part of a line behind them.
ReadChar(l, c) == IF c = NewLine THEN [whole |-> Append(l.whole, l.part), part |-> <<>>]
                                 ELSE [l EXCEPT !.part = Append(@, c)]

ReadAll(text) ==
    LET After[n \in 0..Len(text)] == IF n = 0 THEN [whole |-> <<>>, part |-> <<>>]
                                             ELSE ReadChar(After[n - 1], text[n])
    IN  After[Len(text)]

\* std::getline, until the end of the text.
GetLines(text) ==
    LET read == ReadAll(text)
    IN  IF read.part = <<>> THEN read.whole ELSE Append(read.whole, read.part)

NoFields == [k \in {} |-> <<>>]

\* flush_entry.
Flush(l) ==
    IF DOMAIN l.fields = {} THEN l
    ELSE LET entry == FieldsToEntry(l.fields) IN
         [ok      |-> l.ok /\ entry # {},
          fields  |-> NoFields,
          entries |-> IF entry = {} THEN l.entries ELSE Append(l.entries, CHOOSE e \in entry : TRUE)]

\* One line of the loop in ModelRegistry::load.
LoadLine(l, line) ==
    IF ~l.ok THEN l
    ELSE IF line = <<>> THEN Flush(l)
    ELSE IF Len(line) < 2 \/ line[2] # Equals \/ line[1] \notin ToSet(Keys)
    THEN [l EXCEPT !.ok = FALSE]
    ELSE [l EXCEPT !.fields = [k \in DOMAIN @ \cup {line[1]} |->
                                  IF k = line[1] THEN SubSeq(line, 3, Len(line)) ELSE @[k]]]

LoadAll(lines) ==
    LET After[n \in 0..Len(lines)] == IF n = 0 THEN [ok |-> TRUE, fields |-> NoFields, entries |-> <<>>]
                                              ELSE LoadLine(After[n - 1], lines[n])
    IN  After[Len(lines)]

\* ModelRegistry::load of a file that is there.
LoadText(text) ==
    LET lines == GetLines(text)
        last == Flush(LoadAll(Tail(lines)))
    IN  IF lines = <<>> \/ lines[1] # <<MagicLine>> \/ ~last.ok THEN Corrupted ELSE Ok(last.entries)
=============================================================================
