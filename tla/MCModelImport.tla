----------------------------- MODULE MCModelImport -----------------------------
(* Instances of ModelImport for TLC: all small files, or all files near a  *)
(* well-formed one, and registries of every kind.                          *)
EXTENDS ModelImport

CONSTANTS pct, eq, nl, cr, ch, line1, kId, kPath, kStatus, kSum, d0, d1, d2, d3

Header(n) == <<Magic, 3, 0, n>>

\* Every key-value section of up to five cells, where 9 is an unknown type and a large
\* count, and every bad header.
Bodies == UNION {[1..n -> {0, 1, 2, 3, 9}] : n \in 0..5}
BadHeaders == {<<>>, <<1>>, <<1, 2, 0>>, <<2, 2, 0, 0>>, <<1, 1, 0, 0>>, <<1, 4, 0, 0>>,
               <<1, 2, 9, 0>>, <<1, 2, 0, 9>>}
SmallFiles == {Header(n) \o b : n \in 0..2, b \in Bodies} \cup BadHeaders

\* Entries: architectures <<3>>, <<4>> and <<>>, quantization versions, context lengths.
Metadata == {<<1, 0, 2, 1, 3>>, <<1, 0, 2, 1, 4>>, <<1, 0, 2, 0>>, <<1, 1, 0, 7>>, <<1, 1, 1, 7, 7>>,
             <<2, 3, 2, 0, 8>>, <<2, 3, 2, 1, 9, 9>>, <<2, 4, 2, 0, 6>>, <<1, 2, 0, 5>>}
\* Entries to skip: an array of strings, of numbers, none, and strings under other keys.
Skipped == {<<1, 5, 3, 2, 2, 1, 0, 0>>, <<2, 3, 2, 3, 1, 2, 0, 0, 0, 0>>, <<1, 0, 3, 0, 0>>, <<0, 2, 1, 0>>}
Pairs == Metadata \cup Skipped

Two == {Header(2) \o a \o b : a, b \in Pairs}
Three == {Header(3) \o a \o b \o c : a, b, c \in Metadata}

\* Files of two entries, also cut anywhere or with one cell changed, and of three.
CutTwo == UNION {{SubSeq(f, 1, n) : n \in HeaderSize..Len(f)} : f \in Two}
ChangedTwo == UNION {{[f EXCEPT ![i] = c] : i \in HeaderSize..Len(f), c \in 0..3} : f \in Two}
NearFiles == CutTwo \cup ChangedTwo \cup Three

AllFiles == SmallFiles \cup NearFiles

\* Files of every length around the blocks and the chunks.
ImportedFiles == {Header(0), Header(1) \o <<0, 0, 1>>, Header(1) \o <<1, 0, 2, 0>>,
                  Header(2) \o <<1, 0, 2, 1, 3, 2, 3, 2, 1, 9, 9>>}

AllDigits == <<d0, d1, d2, d3>>
AllCodes == [c \in {pct, eq, nl, cr} |->
                IF c = pct THEN <<d1, d0>> ELSE IF c = eq THEN <<d1, d3>>
                ELSE IF c = nl THEN <<d0, d2>> ELSE <<d0, d3>>]

AllChecksums(blocks) == {<<>>, <<Hex(blocks, FALSE)>>, <<Hex(blocks, TRUE)>>, <<ch>>}
AllPaths == {<<ch>>, <<pct, d1, nl>>, <<eq, cr, ch>>}

\* Entries of this model and of two others, with a path that looks like an escape.
Entry(i, p, s, c) == [id |-> i, path |-> p, status |-> s, checksum |-> c]
Saved(blocks) ==
    LET this == Entry(Text(blocks), <<pct, d0, d2>>, 1, <<>>)
        one == Entry(<<ch>>, <<nl, nl>>, 2, <<pct, pct>>)
        two == Entry(<<ch, ch>>, <<>>, 0, <<ch, ch>>)
    IN  {<<>>, <<one>>, <<one, this, two>>, <<one, two>>}

\* Texts no save wrote: a key twice, none, cut off, a bad escape, a bad status, no value.
Foreign ==
    {<<>>, <<line1>>, <<line1, nl, nl>>, <<line1, nl, kId, eq, ch, nl>>, <<ch, nl>>,
     <<line1, nl, kId, eq, ch, nl, kPath, eq, pct, d1, nl, kStatus, eq, d1, nl, kSum, eq>>,
     <<line1, nl, kId, eq, ch, nl, kPath, eq, ch, nl, kStatus, eq, d3, nl, kSum, eq, nl>>,
     <<line1, nl, kId, eq, nl, kPath, eq, ch, nl, kStatus, eq, d1, nl, kSum, eq, nl>>,
     <<line1, nl, kId, eq, ch, nl, kPath, eq, nl, kPath, eq, ch, nl, kStatus, eq, d0, d1, nl, kSum, eq>>,
     <<line1, nl, kId, eq, ch, nl, ch, eq, ch, nl>>}

AllRegistries(blocks) == {NoFile} \cup {SaveText(entries) : entries \in Saved(blocks)} \cup Foreign
=============================================================================
