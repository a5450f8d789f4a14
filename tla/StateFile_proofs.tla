-------------------------- MODULE StateFile_proofs --------------------------
(***************************************************************************)
(* The store's promise, proved where it holds: one save at a time, any     *)
(* number of loads, any number of write calls per save, any crash.         *)
(***************************************************************************)
EXTENDS StateFile, TLAPS

(***************************************************************************)
(* At most one caller of save: the code has no lock that would make it so  *)
(* for several processes.                                                  *)
(***************************************************************************)
OneWriter == \A w, x \in Writers : w = x

\* Until the last block is reached there is a next one.
LEMMA NextBlock ==
    /\ 1 \in Blocks
    /\ \A b \in Blocks : ~LastBlock(b) => b + 1 \in Blocks
  BY FileAssumption DEF Blocks, LastBlock

\* The variables hold names, inodes, blocks and steps of the protocol.
THEOREM TypeCorrect == Spec => []TypeOK
  <1>1. Init => TypeOK
    BY NextBlock DEF Init, TypeOK
  <1>2. TypeOK /\ [Next]_vars => TypeOK'
    <2> SUFFICES ASSUME TypeOK, [Next]_vars PROVE TypeOK'
      OBVIOUS
    <2> USE DEF TypeOK, reader, writer
    <2>1. ASSUME NEW w \in Writers, OpenTmp(w) PROVE TypeOK'
      BY <2>1, NextBlock DEF OpenTmp
    <2>2. ASSUME NEW w \in Writers, OpenFails(w) PROVE TypeOK'
      BY <2>2 DEF OpenFails
    <2>3. ASSUME NEW w \in Writers, WriteBlock(w) PROVE TypeOK'
      <3>1. content' \in [Inodes -> [Blocks -> Values \cup {Blank}]]
        <4>1. wino[w] \in Inodes /\ wval[w] \in Values /\ wblock[w] \in Blocks
          BY <2>3 DEF WriteBlock
        <4>2. [content[wino[w]] EXCEPT ![wblock[w]] = wval[w]]
                 \in [Blocks -> Values \cup {Blank}]
          BY <4>1
        <4> QED
          BY <2>3, <4>1, <4>2 DEF WriteBlock
      <3>2. wblock' \in [Writers -> Blocks]
        BY <2>3, NextBlock DEF WriteBlock
      <3>3. wpc' \in [Writers -> {"idle", "writing", "rename"}]
        BY <2>3 DEF WriteBlock
      <3>4. UNCHANGED <<path, tmp, wino, wval, outcome, reader>>
        <4> HIDE DEF TypeOK, reader, writer
        <4> QED BY <2>3, Zenon DEF WriteBlock
      <3>5. /\ path' = path /\ tmp' = tmp /\ wino' = wino /\ wval' = wval
            /\ outcome' = outcome /\ rpc' = rpc /\ rino' = rino /\ rblock' = rblock
            /\ got' = got
        <4> HIDE DEF TypeOK, writer
        <4> QED BY <3>4 DEF reader
      <3>6. \A x \in Writers : wpc'[x] # "idle" => wpc[x] # "idle"
        BY <2>3 DEF WriteBlock
      <3> QED
        BY <3>1, <3>2, <3>3, <3>5, <3>6
    <2>4. ASSUME NEW w \in Writers, RenameSucceeds(w) \/ RenameFails(w) \/ GiveUp(w)
          PROVE  TypeOK'
      <3>1. CASE RenameSucceeds(w)
        BY <3>1, NextBlock DEF RenameSucceeds, Return
      <3>2. CASE RenameFails(w)
        BY <3>2, NextBlock DEF RenameFails, Return
      <3>3. CASE GiveUp(w)
        BY <3>3, NextBlock DEF GiveUp, Return
      <3> QED BY <2>4, <3>1, <3>2, <3>3
    <2>5. ASSUME NEW r \in Readers, OpenPath(r) PROVE TypeOK'
      BY <2>5, NextBlock DEF OpenPath
    <2>6. ASSUME NEW r \in Readers, ReadBlock(r) PROVE TypeOK'
      <3>1. got' \in [Readers -> [Blocks -> Values \cup {Blank, Missing}]]
        <4>1. rino[r] \in Inodes /\ rblock[r] \in Blocks
          BY <2>6 DEF ReadBlock
        <4>2. content[rino[r]][rblock[r]] \in Values \cup {Blank, Missing}
          BY <4>1
        <4>3. [got[r] EXCEPT ![rblock[r]] = content[rino[r]][rblock[r]]]
                 \in [Blocks -> Values \cup {Blank, Missing}]
          BY <4>1, <4>2
        <4> QED
          BY <2>6, <4>3 DEF ReadBlock
      <3>2. rblock' \in [Readers -> Blocks]
        <4>1. rblock[r] \in Blocks
          OBVIOUS
        <4>2. CASE LastBlock(rblock[r])
          BY <2>6, <4>2 DEF ReadBlock
        <4>3. CASE ~LastBlock(rblock[r])
          <5>1. rblock[r] + 1 \in Blocks /\ rblock' = [rblock EXCEPT ![r] = rblock[r] + 1]
            BY <2>6, <4>1, <4>3, NextBlock DEF ReadBlock
          <5> QED BY <5>1
        <4> QED BY <4>2, <4>3
      <3> QED
        BY <2>6, <3>1, <3>2 DEF ReadBlock
    <2>7. CASE UNCHANGED vars
      BY <2>7 DEF vars
    <2> QED
      BY <2>1, <2>2, <2>3, <2>4, <2>5, <2>6, <2>7 DEF Next
  <1> QED
    BY <1>1, <1>2, PTL DEF Spec

(***************************************************************************)
(* Why one writer is enough: the inode being written is bound to <path>.tmp*)
(* and to nothing else, so neither <path> nor an open load refers to it;   *)
(* it is whole when it is renamed, and nobody writes to it afterwards.     *)
(***************************************************************************)
Written(w) ==
    /\ wpc[w] = "writing" => \A b \in 1..(wblock[w] - 1) : content[wino[w]][b] = wval[w]
    /\ wpc[w] = "rename" => \A b \in Blocks : content[wino[w]][b] = wval[w]

Seen(r) ==
    IF rpc[r] = "reading"
    THEN /\ rino[r] # tmp
         /\ Whole(content[rino[r]])
         /\ \A b \in 1..(rblock[r] - 1) : got[r][b] = content[rino[r]][b]
    ELSE Whole(got[r]) \/ \A b \in Blocks : got[r][b] = Missing

Isolated ==
    /\ path # NoFile => path # tmp /\ Whole(content[path])
    /\ \A w \in Writers : /\ wpc[w] # "idle" => wino[w] = tmp
                          /\ wpc[w] = "idle" => wval[w] = Missing
                          /\ Written(w)
    /\ \A r \in Readers : Seen(r)

LEMMA IsolatedInit == Init => Isolated
  BY FileAssumption DEF Init, Isolated, Written, Seen, NoFile

\* A load that takes no step, in a step that changes no file, still saw the truth.
LEMMA SeenStable ==
    ASSUME NEW q \in Readers, Seen(q), tmp' = tmp, content' = content,
           rpc'[q] = rpc[q], rino'[q] = rino[q], rblock'[q] = rblock[q], got'[q] = got[q]
    PROVE  Seen(q)'
  BY DEF Seen, Whole

LEMMA IsolatedStep ==
    ASSUME OneWriter, TypeOK, Isolated, [Next]_vars
    PROVE  Isolated'
  <1> USE FileAssumption DEF NoFile
  <1>1. ASSUME NEW w \in Writers, OpenTmp(w) PROVE Isolated'
    <2>1. PICK i \in Inodes, v \in Values :
             /\ IF tmp = NoFile THEN Free(i) ELSE i = tmp
             /\ tmp' = i
             /\ content' = [content EXCEPT ![i] = [b \in Blocks |-> Blank]]
             /\ wino' = [wino EXCEPT ![w] = i]
             /\ wval' = [wval EXCEPT ![w] = v]
      BY <1>1 DEF OpenTmp
    <2>2. i # path /\ \A r \in Readers : rpc[r] = "reading" => rino[r] # i
      BY <2>1 DEF Free, Isolated, Seen, TypeOK
    <2>3. \A j \in Inodes : j # i => content'[j] = content[j]
      BY <2>1 DEF TypeOK
    <2>4. \A x \in Writers : x = w
      BY DEF OneWriter
    <2>5. UNCHANGED path /\ UNCHANGED reader /\ wpc'[w] = "writing" /\ wblock'[w] = 1
      BY <1>1 DEF OpenTmp, TypeOK
    <2>6. \A r \in Readers : Seen(r)'
      BY <2>1, <2>2, <2>3, <2>5 DEF Seen, Isolated, reader, TypeOK, Whole
    <2>7. \A x \in Writers : /\ wpc'[x] # "idle" => wino'[x] = tmp'
                             /\ wpc'[x] = "idle" => wval'[x] = Missing
                             /\ Written(x)'
      BY <2>1, <2>4, <2>5 DEF Written, TypeOK
    <2>8. path' # NoFile => path' # tmp' /\ Whole(content'[path'])
      BY <2>1, <2>2, <2>3, <2>5 DEF Isolated, TypeOK, Whole
    <2> QED
      BY <2>6, <2>7, <2>8 DEF Isolated, Whole
  <1>2. ASSUME NEW w \in Writers, OpenFails(w) PROVE Isolated'
    BY <1>2 DEF OpenFails, Isolated, Written, Seen, reader, Whole
  <1>3. ASSUME NEW w \in Writers, WriteBlock(w) PROVE Isolated'
    <2>1. /\ wino[w] = tmp /\ tmp \in Inodes /\ wblock[w] \in Blocks
          /\ UNCHANGED <<path, tmp, wino, wval, reader>>
          /\ content' = [content EXCEPT ![wino[w]][wblock[w]] = wval[w]]
      BY <1>3 DEF WriteBlock, Isolated, TypeOK
    <2>2. \A x \in Writers : x = w
      BY DEF OneWriter
    <2>3. \A j \in Inodes : j # tmp => content'[j] = content[j]
      BY <2>1 DEF TypeOK
    <2>4. \A r \in Readers : Seen(r)'
      BY <2>1, <2>3 DEF Seen, Isolated, reader, TypeOK, Whole
    <2>5. \A b \in Blocks : content'[tmp][b] =
             IF b = wblock[w] THEN wval[w] ELSE content[tmp][b]
      BY <2>1 DEF TypeOK
    <2>6. Written(w)' /\ wpc'[w] # "idle"
      <3>1. \A b \in 1..(wblock[w] - 1) : content[tmp][b] = wval[w]
        BY <1>3, <2>1 DEF WriteBlock, Isolated, Written
      <3>2. wblock[w] \in Nat \ {0} /\ wblock[w] <= Chunks
        BY <2>1 DEF Blocks
      <3>3. \A b \in 1..wblock[w] : content'[tmp][b] = wval[w]
        <4> TAKE b \in 1..wblock[w]
        <4>1. b \in Blocks /\ (b = wblock[w] \/ b \in 1..(wblock[w] - 1))
          BY <3>2 DEF Blocks
        <4> QED
          BY <4>1, <3>1, <2>5
      <3>4. CASE wblock[w] = Chunks
        <4>1. wpc'[w] = "rename"
          BY <1>3, <3>4 DEF WriteBlock, LastBlock, TypeOK
        <4>2. \A b \in Blocks : content'[tmp][b] = wval[w]
          BY <3>3, <3>4 DEF Blocks
        <4> QED
          BY <4>1, <4>2, <2>1 DEF Written
      <3>5. CASE wblock[w] # Chunks
        <4>1. wpc'[w] = "writing" /\ wblock'[w] = wblock[w] + 1
          BY <1>3, <3>5 DEF WriteBlock, LastBlock, TypeOK
        <4>2. \A b \in 1..(wblock'[w] - 1) : content'[tmp][b] = wval[w]
          BY <3>2, <3>3, <4>1
        <4> QED
          BY <4>1, <4>2, <2>1 DEF Written
      <3> QED
        BY <3>4, <3>5
    <2>7. path' # NoFile => path' # tmp' /\ Whole(content'[path'])
      BY <2>1, <2>3 DEF Isolated, TypeOK, Whole
    <2> QED
      BY <2>1, <2>2, <2>4, <2>6, <2>7 DEF Isolated, Whole
  <1>4. ASSUME NEW w \in Writers, RenameSucceeds(w) PROVE Isolated'
    <2>1. \A x \in Writers : x = w
      BY DEF OneWriter
    <2>2. /\ path' = tmp /\ tmp' = NoFile /\ tmp \in Inodes /\ UNCHANGED <<content, reader>>
          /\ wpc'[w] = "idle" /\ wval'[w] = Missing
      BY <1>4 DEF RenameSucceeds, Return, TypeOK
    <2>3. Whole(content[tmp])
      BY <1>4 DEF RenameSucceeds, Isolated, Written, Whole, TypeOK
    <2>4. \A r \in Readers : Seen(r)'
      BY <2>2 DEF Seen, Isolated, reader, TypeOK, Whole
    <2>5. Written(w)'
      BY <2>2 DEF Written
    <2> QED
      BY <2>1, <2>2, <2>3, <2>4, <2>5 DEF Isolated, Whole
  <1>5. ASSUME NEW w \in Writers, RenameFails(w) \/ GiveUp(w) PROVE Isolated'
    <2>1. \A x \in Writers : x = w
      BY DEF OneWriter
    <2>2. /\ tmp' = NoFile \/ tmp' = tmp
          /\ UNCHANGED <<path, content, reader>>
          /\ wpc'[w] = "idle" /\ wval'[w] = Missing
      BY <1>5 DEF RenameFails, GiveUp, Return, TypeOK
    <2>3. \A r \in Readers : Seen(r)'
      BY <2>2 DEF Seen, Isolated, reader, TypeOK, Whole
    <2>4. Written(w)'
      BY <2>2 DEF Written
    <2> QED
      BY <2>1, <2>2, <2>3, <2>4 DEF Isolated, Whole
  <1>6. ASSUME NEW r \in Readers, OpenPath(r) PROVE Isolated'
    <2>1. UNCHANGED <<path, tmp, content, writer>>
      BY <1>6 DEF OpenPath
    <2>2. \A q \in Readers : q # r => Seen(q)'
      <3> SUFFICES ASSUME NEW q \in Readers, q # r PROVE Seen(q)'
        OBVIOUS
      <3>1. /\ rpc'[q] = rpc[q] /\ rino'[q] = rino[q]
            /\ rblock'[q] = rblock[q] /\ got'[q] = got[q]
        BY <1>6 DEF OpenPath, TypeOK
      <3> QED
        BY <2>1, <3>1, SeenStable DEF Isolated
    <2>3. Seen(r)'
      BY <1>6, <2>1 DEF OpenPath, Seen, Isolated, TypeOK, Whole
    <2> QED
      BY <2>1, <2>2, <2>3 DEF Isolated, Written, writer, Whole
  <1>7. ASSUME NEW r \in Readers, ReadBlock(r) PROVE Isolated'
    <2>1. UNCHANGED <<path, tmp, content, rino, writer>>
      BY <1>7 DEF ReadBlock
    <2>2. \A q \in Readers : q # r => Seen(q)'
      <3> SUFFICES ASSUME NEW q \in Readers, q # r PROVE Seen(q)'
        OBVIOUS
      <3>1. /\ rpc'[q] = rpc[q] /\ rino'[q] = rino[q]
            /\ rblock'[q] = rblock[q] /\ got'[q] = got[q]
        BY <1>7 DEF ReadBlock, TypeOK
      <3> QED
        BY <2>1, <3>1, SeenStable DEF Isolated
    <2>3. \A b \in Blocks : got'[r][b] =
             IF b = rblock[r] THEN content[rino[r]][b] ELSE got[r][b]
      BY <1>7 DEF ReadBlock, TypeOK
    <2>4. Seen(r)'
      <3> DEFINE file == content[rino[r]]
      <3>1. /\ rino[r] # tmp /\ Whole(file)
            /\ \A b \in 1..(rblock[r] - 1) : got[r][b] = file[b]
        BY <1>7 DEF ReadBlock, Isolated, Seen
      <3>2. rblock[r] \in Nat \ {0} /\ rblock[r] <= Chunks
        BY DEF TypeOK, Blocks
      <3>3. \A b \in 1..rblock[r] : got'[r][b] = file[b]
        <4> TAKE b \in 1..rblock[r]
        <4>1. b \in Blocks /\ (b = rblock[r] \/ b \in 1..(rblock[r] - 1))
          BY <3>2 DEF Blocks
        <4> QED
          BY <4>1, <3>1, <2>3
      <3>4. CASE rblock[r] = Chunks
        <4>1. rpc'[r] = "idle"
          BY <1>7, <3>4 DEF ReadBlock, LastBlock, TypeOK
        <4>2. \A b \in Blocks : got'[r][b] = file[b]
          BY <3>3, <3>4 DEF Blocks
        <4>3. Whole(got'[r])
          BY <3>1, <4>2 DEF Whole
        <4> QED
          BY <4>1, <4>3 DEF Seen, Whole
      <3>5. CASE rblock[r] # Chunks
        <4>1. rpc'[r] = "reading" /\ rblock'[r] = rblock[r] + 1
          BY <1>7, <3>5 DEF ReadBlock, LastBlock, TypeOK
        <4>2. \A b \in 1..(rblock'[r] - 1) : got'[r][b] = file[b]
          BY <3>2, <3>3, <4>1
        <4> QED
          BY <2>1, <3>1, <4>1, <4>2 DEF Seen, Whole
      <3> QED
        BY <3>4, <3>5
    <2> QED
      BY <2>1, <2>2, <2>4 DEF Isolated, Written, writer, Whole
  <1>8. CASE UNCHANGED vars
    BY <1>8 DEF vars, writer, reader, Isolated, Written, Seen, Whole
  <1> QED
    BY <1>1, <1>2, <1>3, <1>4, <1>5, <1>6, <1>7, <1>8 DEF Next

(***************************************************************************)
(* With one writer no load ever returns a torn file: not while a save is   *)
(* under way, not after one failed or died at any point.                   *)
(***************************************************************************)
THEOREM LoadsAreWhole == ASSUME OneWriter PROVE Spec => []NeverTorn
  <1>1. Isolated => NeverTorn
    BY DEF Isolated, Seen, NeverTorn
  <1> QED
    BY <1>1, IsolatedInit, IsolatedStep, TypeCorrect, PTL DEF Spec
-----------------------------------------------------------------------------
(***************************************************************************)
(* The register's variables as functions of the protocol's.                *)
(***************************************************************************)
CellNow == IF path = NoFile THEN Missing ELSE content[path][1]
SeenBy(r) == IF rpc[r] = "reading" THEN content[rino[r]][1] ELSE got[r][1]
SeenNow == [r \in Readers |-> SeenBy(r)]

\* Whatever leaves the other inodes alone leaves the register as it is.
LEMMA RegisterStable ==
    ASSUME TypeOK, Isolated, NEW i \in Inodes,
           path' = path, UNCHANGED reader,
           i # path, \A r \in Readers : rpc[r] = "reading" => rino[r] # i,
           \A j \in Inodes : j # i => content'[j] = content[j]
    PROVE  CellNow' = CellNow /\ SeenNow' = SeenNow
  <1>1. CellNow' = CellNow
    BY DEF CellNow, TypeOK, NoFile
  <1>2. \A r \in Readers : SeenBy(r)' = SeenBy(r)
    BY DEF SeenBy, TypeOK, reader
  <1> QED
    BY <1>1, <1>2 DEF SeenNow

LEMMA RegisterInit == Init => Cell!Init
  BY NextBlock DEF Init, Cell!Init, NoFile

LEMMA RegisterStep ==
    ASSUME OneWriter, TypeOK, Isolated, [Next]_vars
    PROVE  [Cell!Next]_(Cell!vars)
  <1> USE FileAssumption DEF NoFile
  <1>0. /\ CellNow = IF path = NoFile THEN Missing ELSE content[path][1]
        /\ SeenNow = [r \in Readers |->
                         IF rpc[r] = "reading" THEN content[rino[r]][1] ELSE got[r][1]]
        /\ 1 \in Blocks
    BY NextBlock DEF CellNow, SeenNow, SeenBy
  <1>s. ASSUME CellNow' = CellNow, SeenNow' = SeenNow, UNCHANGED <<wval, outcome>>
        PROVE  [Cell!Next]_(Cell!vars)
    BY <1>s DEF CellNow, SeenNow, SeenBy, Cell!vars
  <1>1. ASSUME NEW w \in Writers, OpenTmp(w) PROVE Cell!Next
    <2>1. PICK i \in Inodes, v \in Values :
             /\ IF tmp = NoFile THEN Free(i) ELSE i = tmp
             /\ content' = [content EXCEPT ![i] = [b \in Blocks |-> Blank]]
             /\ wval' = [wval EXCEPT ![w] = v]
      BY <1>1 DEF OpenTmp
    <2>2. i # path /\ \A r \in Readers : rpc[r] = "reading" => rino[r] # i
      BY <2>1 DEF Free, Isolated, Seen, TypeOK
    <2>3. \A j \in Inodes : j # i => content'[j] = content[j]
      BY <2>1 DEF TypeOK
    <2>4. /\ wval[w] = Missing /\ UNCHANGED path /\ UNCHANGED reader
          /\ outcome' = [outcome EXCEPT ![w] = "none"]
      BY <1>1 DEF OpenTmp, Isolated
    <2>5. CellNow' = CellNow /\ SeenNow' = SeenNow
      BY <2>2, <2>3, <2>4, RegisterStable
    <2>6. Cell!Begin(w, v)
      BY <2>1, <2>4, <2>5 DEF Cell!Begin, CellNow, SeenNow, SeenBy
    <2> QED
      BY <2>6 DEF Cell!Next
  <1>2. ASSUME NEW w \in Writers, OpenFails(w) PROVE Cell!Next
    <2>1. wval' = [wval EXCEPT ![w] = Missing]
      BY <1>2 DEF OpenFails, Isolated, TypeOK
    <2>2. CellNow' = CellNow /\ SeenNow' = SeenNow
      BY <1>2 DEF OpenFails, CellNow, SeenNow, SeenBy, reader
    <2>3. Cell!Abandon(w)
      BY <1>2, <2>1, <2>2 DEF OpenFails, Cell!Abandon, CellNow, SeenNow, SeenBy
    <2> QED
      BY <2>3 DEF Cell!Next
  <1>3. ASSUME NEW w \in Writers, WriteBlock(w) PROVE [Cell!Next]_(Cell!vars)
    <2>1. /\ wino[w] = tmp /\ tmp \in Inodes
          /\ UNCHANGED <<path, wval, outcome>> /\ UNCHANGED reader
          /\ \A j \in Inodes : j # tmp => content'[j] = content[j]
      BY <1>3 DEF WriteBlock, Isolated, TypeOK
    <2>2. tmp # path /\ \A r \in Readers : rpc[r] = "reading" => rino[r] # tmp
      BY <2>1 DEF Isolated, Seen
    <2>3. CellNow' = CellNow /\ SeenNow' = SeenNow
      BY <2>1, <2>2, RegisterStable
    <2> QED
      BY <2>1, <2>3, <1>s
  <1>4. ASSUME NEW w \in Writers, RenameSucceeds(w) PROVE Cell!Next
    <2>1. /\ path' = tmp /\ tmp \in Inodes /\ UNCHANGED content /\ UNCHANGED reader
          /\ wval' = [wval EXCEPT ![w] = Missing]
          /\ outcome' = [outcome EXCEPT ![w] = "ok"]
          /\ wval[w] # Missing
      BY <1>4 DEF RenameSucceeds, Return, TypeOK
    <2>2. content[tmp][1] = wval[w]
      BY <1>0, <1>4 DEF RenameSucceeds, Isolated, Written
    <2>3. CellNow' = wval[w]
      BY <2>1, <2>2 DEF CellNow
    <2>4. SeenNow' = SeenNow
      BY <2>1 DEF SeenNow, SeenBy, reader
    <2>5. Cell!Commit(w)
      BY <2>1, <2>3, <2>4 DEF Cell!Commit, CellNow, SeenNow, SeenBy
    <2> QED
      BY <2>5 DEF Cell!Next
  <1>5. ASSUME NEW w \in Writers, RenameFails(w) \/ GiveUp(w) PROVE Cell!Next
    <2>1. /\ UNCHANGED <<path, content>> /\ UNCHANGED reader
          /\ wval' = [wval EXCEPT ![w] = Missing]
          /\ outcome' = [outcome EXCEPT ![w] = "failed"]
      BY <1>5 DEF RenameFails, GiveUp, Return
    <2>2. CellNow' = CellNow /\ SeenNow' = SeenNow
      BY <2>1 DEF CellNow, SeenNow, SeenBy, reader
    <2>3. Cell!Abandon(w)
      BY <2>1, <2>2 DEF Cell!Abandon, CellNow, SeenNow, SeenBy
    <2> QED
      BY <2>3 DEF Cell!Next
  <1>6. ASSUME NEW r \in Readers, OpenPath(r) PROVE Cell!Next
    <2>1. UNCHANGED <<path, content, wval, outcome>>
      BY <1>6 DEF OpenPath, writer
    <2>2. SeenBy(r)' = CellNow
      BY <1>0, <1>6 DEF OpenPath, SeenBy, CellNow, TypeOK
    <2>3. \A q \in Readers : q # r => SeenBy(q)' = SeenBy(q)
      BY <1>6 DEF OpenPath, SeenBy, TypeOK
    <2>4. CellNow' = CellNow
      BY <2>1 DEF CellNow
    <2>5. SeenNow' = [SeenNow EXCEPT ![r] = CellNow]
      BY <2>2, <2>3 DEF SeenNow
    <2>6. Cell!Read(r)
      BY <2>1, <2>4, <2>5 DEF Cell!Read, CellNow, SeenNow, SeenBy
    <2> QED
      BY <2>6 DEF Cell!Next
  <1>7. ASSUME NEW r \in Readers, ReadBlock(r) PROVE [Cell!Next]_(Cell!vars)
    <2>1. UNCHANGED <<path, content, rino, wval, outcome>>
      BY <1>7 DEF ReadBlock, writer
    <2>2. \A q \in Readers : q # r => SeenBy(q)' = SeenBy(q)
      BY <1>7 DEF ReadBlock, SeenBy, TypeOK
    <2>3. got'[r][1] = content[rino[r]][1]
      <3>1. got' = [got EXCEPT ![r][rblock[r]] = content[rino[r]][rblock[r]]]
        BY <1>7 DEF ReadBlock
      <3>2. \A b \in Blocks : got'[r][b] =
               IF b = rblock[r] THEN content[rino[r]][b] ELSE got[r][b]
        BY <3>1 DEF TypeOK
      <3>3. rblock[r] # 1 => got[r][1] = content[rino[r]][1]
        <4>1. \A b \in 1..(rblock[r] - 1) : got[r][b] = content[rino[r]][b]
          BY <1>7 DEF ReadBlock, Isolated, Seen
        <4>2. rblock[r] \in Nat \ {0}
          BY DEF TypeOK, Blocks
        <4> QED
          BY <4>1, <4>2
      <3> QED
        BY <1>0, <3>2, <3>3
    <2>4. SeenBy(r)' = SeenBy(r)
      BY <1>7, <2>1, <2>3 DEF ReadBlock, SeenBy, TypeOK
    <2>5. CellNow' = CellNow /\ SeenNow' = SeenNow
      BY <2>1, <2>2, <2>4 DEF CellNow, SeenNow
    <2> QED
      BY <2>1, <2>5, <1>s
  <1>8. CASE UNCHANGED vars
    BY <1>8, <1>s DEF vars, writer, reader, CellNow, SeenNow, SeenBy
  <1> QED
    BY <1>1, <1>2, <1>3, <1>4, <1>5, <1>6, <1>7, <1>8 DEF Next

(***************************************************************************)
(* One save at a time, however it fails or dies and however many loads run *)
(* beside it, implements the register that DurableCell promises.           *)
(***************************************************************************)
THEOREM StoreIsARegister == ASSUME OneWriter PROVE Spec => ImplementsCell
  BY RegisterInit, RegisterStep, IsolatedInit, IsolatedStep, TypeCorrect, PTL
     DEF Spec, ImplementsCell, Cell!Spec
=============================================================================
